------------------------ MODULE RunsAndTriggersProofs ------------------------
(***************************************************************************)
(* Proofs about AgentRun, for every set of calls, every cap, any number of *)
(* concurrent invocations, presses and crashes; and, at the end, what       *)
(* ScheduledTasks and Automations promise as what starts the runs.          *)
(***************************************************************************)
EXTENDS MCRunsAndTriggers, SequenceTheorems, TLAPS

(* How many turns there are when a run or an invocation is at a place.     *)
CapAt(state, place) ==
    /\ place = "agent" => Len(state.turns) < ProjectCap
    /\ place \in {"tools", "results", "post"} =>
          Len(state.turns) \in 1..(ProjectCap - 1)

CapInv ==
    /\ saved = Null => gates = <<>> /\ \A i \in Invocations : inv[i] = Null
    /\ saved # Null => /\ Len(saved.state.turns) <= ProjectCap
                       /\ CapAt(saved.state, saved.next)
    /\ \A i \in Invocations : inv[i] # Null => CapAt(inv[i].state, inv[i].at)
    /\ \A c \in Calls : done[ProjectCap][c] = 0

(* What the gate of a turn shows. *)
Shown(s) == IF LastTurn(s) \cap Connects # {} THEN LastTurn(s) \cap Connects
            ELSE LastTurn(s) \cap Risky

(* Gate g is that of the turn the checkpoint waits at. *)
IsGateOf(g) ==
    /\ saved.next = "tools"
    /\ gates[g].turn = Len(saved.state.turns)
    /\ gates[g].calls = Shown(saved.state)

(* At most one invocation is alive or one gate not pressed, and not both.  *)
OneToken ==
    /\ \A i, j \in Invocations : inv[i] # Null /\ inv[j] # Null => i = j
    /\ \A g, h \in DOMAIN gates :
          gates[g].presses = 0 /\ gates[h].presses = 0 => g = h
    /\ \A g \in DOMAIN gates, i \in Invocations :
          gates[g].presses = 0 => inv[i] = Null

(* An invocation works on the checkpoint as it is, and has its decision    *)
(* from the gate of the turn it is at.                                     *)
Decided(i) ==
    /\ inv[i].at \in {"tools", "results", "post"} =>
          saved.next = "tools" /\ inv[i].state = saved.state
    /\ inv[i].at = "agent" =>
          saved.next = "agent" /\ inv[i].state = saved.state
    /\ inv[i].at \in {"check", "load"} => inv[i].decision # Null
    /\ inv[i].at \in {"tools", "results", "check", "load"} /\ inv[i].decision # Null =>
          \E g \in DOMAIN gates : IsGateOf(g) /\ inv[i].decision \in gates[g].decided

(* Before its node is executed, no call of the last turn has been.         *)
Fresh ==
    /\ saved = Null => \A k \in Turns, c \in Calls : done[k][c] = 0
    /\ saved # Null => \A k \in Turns, c \in Calls :
          k > Len(saved.state.turns) => done[k][c] = 0
    /\ \A k \in Turns, c \in Calls :
          /\ \/ \E i \in Invocations : /\ inv[i] # Null
                                       /\ inv[i].at \in {"tools", "post", "check", "load"}
             \/ \E g \in DOMAIN gates : gates[g].presses = 0
          /\ k = Len(saved.state.turns)
          => done[k][c] = 0

OnePress ==
    /\ OneToken
    /\ \A g \in DOMAIN gates : gates[g].presses = 0 => IsGateOf(g)
    /\ \A i \in Invocations : inv[i] # Null => Decided(i)
    /\ Fresh
    /\ \A k \in Turns, c \in Calls : done[k][c] <= 1
    /\ \A k \in Turns, c \in Risky : done[k][c] > 0 => ShownAndApproved(k, c)

OnePressInv == PressedOnce => OnePress

-----------------------------------------------------------------------------
(* Type correctness and the cap                                            *)
CapIInv == TypeOK /\ CapInv

LEMMA EmptyType == Empty \in State /\ Len(Empty.turns) = 0
BY DEF Empty, State

\* GoTo changes one invocation, as a whole.
LEMMA GoToOne ==
    ASSUME TypeOK, NEW i \in Invocations, inv[i] # Null,
           NEW state \in State, NEW at \in Places,
           NEW decision \in Decisions \cup {Null},
           GoTo(i, state, at, decision)
    PROVE  /\ inv' \in [Invocations -> Invocation \cup {Null}]
           /\ inv'[i] = [state |-> state, at |-> at, cap |-> inv[i].cap,
                         decision |-> decision]
           /\ \A j \in Invocations \ {i} : inv'[j] = inv[j]
<1>1. inv[i] \in Invocation
  BY DEF TypeOK
<1>3. inv' = [inv EXCEPT ![i] = [state |-> state, at |-> at, cap |-> inv[i].cap,
                                 decision |-> decision]]
  BY DEF GoTo
<1>4. [state |-> state, at |-> at, cap |-> inv[i].cap, decision |-> decision] \in Invocation
  BY <1>1 DEF Invocation
<1> QED BY <1>3, <1>4 DEF TypeOK

\* Leave ends one invocation.
LEMMA LeaveOne ==
    ASSUME TypeOK, NEW i \in Invocations, Leave(i)
    PROVE  /\ inv' \in [Invocations -> Invocation \cup {Null}]
           /\ inv'[i] = Null
           /\ \A j \in Invocations \ {i} : inv'[j] = inv[j]
BY DEF Leave, TypeOK

LEMMA CapInit == Init => CapIInv
<1> SUFFICES ASSUME Init PROVE CapIInv
  OBVIOUS
<1>1. TypeOK
  <2>1. inv \in [Invocations -> Invocation \cup {Null}]
    BY DEF Init
  <2>2. done \in [Turns -> [Calls -> Nat]]
    BY DEF Init
  <2>3. saved = Null /\ gates \in Seq(Gate)
    BY DEF Init
  <2>5. raised \in BOOLEAN
    BY Zenon DEF Init
  <2>4. pressed \in 0..MaxPresses /\ crashes \in 0..MaxCrashes
    BY BoundsAssumption DEF Init
  <2> QED BY <2>1, <2>2, <2>3, <2>4, <2>5 DEF TypeOK
<1>2. CapInv
  BY CapAssumption DEF Init, CapInv, Turns
<1> QED BY <1>1, <1>2 DEF CapIInv

LEMMA CapStart ==
    ASSUME CapIInv, NEW i \in Invocations, Start(i)
    PROVE  CapIInv'
<1> USE DEF CapIInv
<1>0. /\ saved = Null
      /\ saved' = [state |-> Empty, next |-> "agent"]
      /\ UNCHANGED <<gates, done, raised, pressed, crashes>>
  BY DEF Start, Save
<1>1. PICK cap \in {Cap, ProjectCap} : inv' = [inv EXCEPT ![i] =
          [state |-> Empty, at |-> "agent", cap |-> cap, decision |-> Null]]
  BY DEF Start
<1>2. saved' \in Checkpoint
  BY <1>0, EmptyType DEF Checkpoint, Nodes
<1>3. [state |-> Empty, at |-> "agent", cap |-> cap, decision |-> Null] \in Invocation
  BY EmptyType DEF Invocation, Places
<1>4. TypeOK'
  BY <1>0, <1>1, <1>2, <1>3 DEF TypeOK
<1>5. saved' # Null
  BY <1>2, NullAssumption
<1>6. \A j \in Invocations : inv'[j] # Null =>
          j = i /\ inv'[j] = [state |-> Empty, at |-> "agent", cap |-> cap, decision |-> Null]
  BY <1>0, <1>1 DEF TypeOK, CapInv
<1>7. CapInv'
  BY <1>0, <1>5, <1>6, EmptyType, CapAssumption DEF CapInv, CapAt
<1> QED BY <1>4, <1>7

\* What every step of one invocation has to show.
LEMMA CapOneStep ==
    ASSUME CapIInv, NEW i \in Invocations,
           saved' \in Checkpoint,
           Len(saved'.state.turns) <= ProjectCap,
           CapAt(saved'.state, saved'.next),
           inv' \in [Invocations -> Invocation \cup {Null}],
           \A j \in Invocations \ {i} : inv'[j] = inv[j],
           inv'[i] # Null => CapAt(inv'[i].state, inv'[i].at),
           gates' \in Seq(Gate),
           done' \in [Turns -> [Calls -> Nat]],
           \A c \in Calls : done'[ProjectCap][c] = 0,
           raised' \in BOOLEAN, pressed' \in 0..MaxPresses, crashes' = crashes
    PROVE  CapIInv'
<1>1. TypeOK'
  BY Zenon DEF TypeOK, CapIInv
<1>2. saved' # Null
  BY NullAssumption
<1>3. \A j \in Invocations : inv'[j] # Null => CapAt(inv'[j].state, inv'[j].at)
  BY DEF CapIInv, CapInv
<1> QED BY <1>1, <1>2, <1>3 DEF CapIInv, CapInv

\* The same for a step that leaves checkpoint, gates and tools alone.
LEMMA CapMoves ==
    ASSUME CapIInv, NEW i \in Invocations, inv[i] # Null,
           inv' \in [Invocations -> Invocation \cup {Null}],
           \A j \in Invocations \ {i} : inv'[j] = inv[j],
           inv'[i] # Null => CapAt(inv'[i].state, inv'[i].at),
           raised' \in BOOLEAN,
           UNCHANGED <<saved, gates, done, pressed, crashes>>
    PROVE  CapIInv'
<1>1. saved # Null
  BY DEF CapIInv, CapInv
<1>2. saved' \in Checkpoint /\ Len(saved'.state.turns) <= ProjectCap
          /\ CapAt(saved'.state, saved'.next)
  BY <1>1 DEF CapIInv, CapInv, TypeOK
<1>3. gates' \in Seq(Gate) /\ done' \in [Turns -> [Calls -> Nat]]
          /\ pressed' \in 0..MaxPresses /\ \A c \in Calls : done'[ProjectCap][c] = 0
  BY DEF CapIInv, CapInv, TypeOK
<1> QED BY <1>2, <1>3, CapOneStep

LEMMA AppendTurn ==
    ASSUME NEW state \in State, NEW turn \in SUBSET Calls
    PROVE  LET s == [turns |-> Append(state.turns, turn), answered |-> {}]
           IN  s \in State /\ Len(s.turns) = Len(state.turns) + 1
                 /\ LastTurn(s) = turn
BY DEF State, LastTurn

LEMMA CapAgentNode ==
    ASSUME CapIInv, NEW i \in Invocations, AgentNode(i)
    PROVE  CapIInv'
<1> USE DEF CapIInv
<1>0. inv[i] # Null /\ inv[i].at = "agent" /\ inv[i] \in Invocation
  BY DEF AgentNode, At, TypeOK
<1>1. inv[i].state \in State /\ Len(inv[i].state.turns) < ProjectCap
  BY <1>0 DEF CapInv, CapAt, Invocation
<1>2. PICK turn \in SUBSET Calls :
          LET state == [turns |-> Append(inv[i].state.turns, turn), answered |-> {}]
              next == Route(state, inv[i].cap)
          IN  /\ Save(state, next)
              /\ IF next = "end" THEN Leave(i) ELSE GoTo(i, state, next, Null)
  BY DEF AgentNode
<1> DEFINE state == [turns |-> Append(inv[i].state.turns, turn), answered |-> {}]
           next == Route(state, inv[i].cap)
<1>3. state \in State /\ Len(state.turns) = Len(inv[i].state.turns) + 1
  BY <1>1, AppendTurn
<1>4. /\ Len(inv[i].state.turns) \in Nat
      /\ inv[i].cap \in Nat /\ inv[i].cap <= ProjectCap /\ ProjectCap \in Nat
  BY <1>0, <1>1, CapAssumption DEF Invocation, State
<1>5. /\ next \in {"tools", "end"}
      /\ next = "tools" => Len(state.turns) \in 1..(ProjectCap - 1)
  BY <1>3, <1>4 DEF Route
<1> HIDE DEF state, next
<1>6. saved' = [state |-> state, next |-> next]
  BY <1>2 DEF Save, state, next
<1>7. /\ saved' \in Checkpoint
      /\ Len(saved'.state.turns) <= ProjectCap
      /\ CapAt(saved'.state, saved'.next)
  BY <1>1, <1>3, <1>4, <1>5, <1>6 DEF Checkpoint, Nodes, CapAt
<1>8. /\ inv' \in [Invocations -> Invocation \cup {Null}]
      /\ \A j \in Invocations \ {i} : inv'[j] = inv[j]
      /\ inv'[i] # Null => CapAt(inv'[i].state, inv'[i].at)
  <2>1. CASE next = "end"
    BY <1>2, <2>1, LeaveOne DEF state, next
  <2>2. CASE next = "tools"
    <3>1. GoTo(i, state, "tools", Null)
      BY <1>2, <2>2 DEF state, next
    <3>2. "tools" \in Places /\ TypeOK /\ state \in State
      BY <1>3 DEF Places
    <3>3. /\ inv' \in [Invocations -> Invocation \cup {Null}]
          /\ inv'[i] = [state |-> state, at |-> "tools", cap |-> inv[i].cap,
                        decision |-> Null]
          /\ \A j \in Invocations \ {i} : inv'[j] = inv[j]
      BY <1>0, <3>1, <3>2, GoToOne
    <3> QED BY <1>5, <2>2, <3>3 DEF CapAt
  <2> QED BY <1>5, <2>1, <2>2
<1>9. UNCHANGED <<gates, done, raised, pressed, crashes>>
  BY DEF AgentNode
<1>10. /\ gates' \in Seq(Gate) /\ done' \in [Turns -> [Calls -> Nat]]
       /\ pressed' \in 0..MaxPresses /\ \A c \in Calls : done'[ProjectCap][c] = 0
  BY <1>9 DEF CapInv, TypeOK
<1>11. raised' \in BOOLEAN
  BY <1>9, Zenon DEF TypeOK
<1> QED BY <1>7, <1>8, <1>9, <1>10, <1>11, CapOneStep

\* Steps that end an invocation and change nothing else but raised.
LEMMA CapLeaves ==
    ASSUME CapIInv, NEW i \in Invocations, inv[i] # Null, Leave(i),
           raised' \in BOOLEAN, UNCHANGED <<saved, gates, done, pressed, crashes>>
    PROVE  CapIInv'
<1>1. TypeOK
  BY DEF CapIInv
<1>2. /\ inv' \in [Invocations -> Invocation \cup {Null}]
      /\ inv'[i] = Null
      /\ \A j \in Invocations \ {i} : inv'[j] = inv[j]
  BY <1>1, LeaveOne
<1> QED BY <1>2, CapMoves

\* Steps that move an invocation and change nothing else.
LEMMA CapGoes ==
    ASSUME CapIInv, NEW i \in Invocations, inv[i] # Null,
           NEW state \in State, NEW at \in Places,
           NEW decision \in Decisions \cup {Null},
           GoTo(i, state, at, decision), CapAt(state, at),
           UNCHANGED <<saved, gates, done, raised, pressed, crashes>>
    PROVE  CapIInv'
<1>1. TypeOK
  BY DEF CapIInv
<1>2. /\ inv' \in [Invocations -> Invocation \cup {Null}]
      /\ inv'[i] = [state |-> state, at |-> at, cap |-> inv[i].cap,
                    decision |-> decision]
      /\ \A j \in Invocations \ {i} : inv'[j] = inv[j]
  BY <1>1, GoToOne
<1>3. CapAt(inv'[i].state, inv'[i].at)
  BY <1>2
<1>4. raised' \in BOOLEAN
  BY <1>1, Zenon DEF TypeOK
<1> QED BY <1>2, <1>3, <1>4, CapMoves

\* Steps that answer the tools and go back to the agent.
LEMMA CapAnswers ==
    ASSUME CapIInv, NEW i \in Invocations, inv[i] # Null,
           inv[i].at \in {"tools", "results"}, NEW answered \in SUBSET Calls,
           Save([inv[i].state EXCEPT !.answered = answered], "agent"),
           GoTo(i, [inv[i].state EXCEPT !.answered = answered], "agent", Null),
           UNCHANGED <<gates, done, raised, pressed, crashes>>
    PROVE  CapIInv'
<1> DEFINE state == [inv[i].state EXCEPT !.answered = answered]
<1>1. TypeOK /\ inv[i] \in Invocation
  BY DEF CapIInv, TypeOK
<1>2. /\ inv[i].state \in State
      /\ Len(inv[i].state.turns) \in 1..(ProjectCap - 1)
  BY <1>1 DEF CapIInv, CapInv, CapAt, Invocation
<1>3. state \in State /\ state.turns = inv[i].state.turns
  BY <1>2 DEF State
<1> HIDE DEF state
<1>4. saved' = [state |-> state, next |-> "agent"]
  BY DEF Save, state
<1>5. GoTo(i, state, "agent", Null)
  BY DEF state
<1>6. /\ saved' \in Checkpoint
      /\ Len(saved'.state.turns) <= ProjectCap
      /\ CapAt(saved'.state, saved'.next)
  BY <1>2, <1>3, <1>4, CapAssumption DEF Checkpoint, Nodes, CapAt
<1>7. "agent" \in Places /\ Null \in Decisions \cup {Null}
  BY DEF Places
<1>8. /\ inv' \in [Invocations -> Invocation \cup {Null}]
      /\ inv'[i] = [state |-> state, at |-> "agent", cap |-> inv[i].cap,
                    decision |-> Null]
      /\ \A j \in Invocations \ {i} : inv'[j] = inv[j]
  BY <1>1, <1>3, <1>5, <1>7, GoToOne
<1>9. CapAt(inv'[i].state, inv'[i].at)
  BY <1>2, <1>3, <1>8, CapAssumption DEF CapAt
<1>10. /\ gates' \in Seq(Gate) /\ done' \in [Turns -> [Calls -> Nat]]
       /\ pressed' \in 0..MaxPresses /\ \A c \in Calls : done'[ProjectCap][c] = 0
  BY DEF CapIInv, CapInv, TypeOK
<1>11. raised' \in BOOLEAN
  BY <1>1, Zenon DEF TypeOK
<1> QED BY <1>6, <1>8, <1>9, <1>10, <1>11, CapOneStep

\* The last turn of an invocation at the tools is a set of calls.
LEMMA TurnType ==
    ASSUME CapIInv, NEW i \in Invocations, inv[i] # Null,
           inv[i].at \in {"tools", "results", "post"}
    PROVE  /\ inv[i] \in Invocation /\ inv[i].state \in State
           /\ Turn(i) \in SUBSET Calls
           /\ Len(inv[i].state.turns) \in 1..(ProjectCap - 1)
<1>1. inv[i] \in Invocation /\ inv[i].state \in State
  BY DEF CapIInv, TypeOK, Invocation
<1>2. Len(inv[i].state.turns) \in 1..(ProjectCap - 1)
  BY DEF CapIInv, CapInv, CapAt
<1> QED BY <1>1, <1>2 DEF Turn, LastTurn, State

LEMMA CapToolsStep ==
    ASSUME CapIInv, NEW i \in Invocations, ToolsStep(i)
    PROVE  CapIInv'
<1>1. CASE AnswerConnect(i)
  <2>1. PICK c \in Connecting(i) :
            /\ Save([inv[i].state EXCEPT !.answered = {c}], "agent")
            /\ GoTo(i, [inv[i].state EXCEPT !.answered = {c}], "agent", Null)
    BY <1>1 DEF AnswerConnect
  <2>2. inv[i] # Null /\ inv[i].at = "tools"
          /\ UNCHANGED <<gates, done, raised, pressed, crashes>>
    BY <1>1 DEF AnswerConnect, At
  <2>3. {c} \in SUBSET Calls
    BY CallsAssumption DEF Connecting
  <2> QED BY <2>1, <2>2, <2>3, CapAnswers
<1>2. CASE Interrupt(i)
  <2>1. /\ inv[i] # Null /\ inv[i].at = "tools"
        /\ GoTo(i, inv[i].state, "post", Null)
        /\ UNCHANGED <<saved, gates, done, raised, pressed, crashes>>
    BY <1>2 DEF Interrupt, At
  <2>2. inv[i].state \in State /\ CapAt(inv[i].state, "post") /\ "post" \in Places
    BY <2>1, TurnType DEF CapAt, Places
  <2> QED BY <2>1, <2>2, CapGoes
<1>3. CASE PostGate(i)
  <2>1. /\ inv[i] # Null /\ inv[i].at = "post" /\ Leave(i)
        /\ UNCHANGED <<saved, done, raised, pressed, crashes>>
    BY <1>3 DEF PostGate, At
  <2>2. /\ Len(inv[i].state.turns) \in Turns
        /\ (IF Connecting(i) # {} THEN Connecting(i) ELSE Gated(i)) \in SUBSET Calls
    BY <2>1, TurnType, CapAssumption DEF Turns, Connecting, Gated
  <2>3. [turn |-> Len(inv[i].state.turns), presses |-> 0, decided |-> {},
         calls |-> IF Connecting(i) # {} THEN Connecting(i) ELSE Gated(i)] \in Gate
    BY <2>2 DEF Gate
  <2>4. gates' \in Seq(Gate)
    BY <1>3, <2>3 DEF PostGate, CapIInv, TypeOK
  <2>5. TypeOK
    BY DEF CapIInv
  <2>6. /\ inv' \in [Invocations -> Invocation \cup {Null}]
        /\ inv'[i] = Null
        /\ \A j \in Invocations \ {i} : inv'[j] = inv[j]
    BY <2>1, <2>5, LeaveOne
  <2>7. /\ saved' \in Checkpoint
        /\ Len(saved'.state.turns) <= ProjectCap
        /\ CapAt(saved'.state, saved'.next)
    BY <2>1 DEF CapIInv, CapInv, TypeOK
  <2>8. /\ done' \in [Turns -> [Calls -> Nat]]
        /\ pressed' \in 0..MaxPresses /\ \A c \in Calls : done'[ProjectCap][c] = 0
    BY <2>1 DEF CapIInv, CapInv, TypeOK
  <2>9. raised' \in BOOLEAN
    BY <2>1, <2>5, Zenon DEF TypeOK
  <2> QED BY <2>1, <2>4, <2>6, <2>7, <2>8, <2>9, CapOneStep
<1>4. CASE NoLink(i)
  <2>1. /\ inv[i] # Null /\ Leave(i)
        /\ UNCHANGED <<saved, gates, done, raised, pressed, crashes>>
    BY <1>4 DEF NoLink, At
  <2>2. raised' \in BOOLEAN
    BY <2>1, Zenon DEF CapIInv, TypeOK
  <2> QED BY <2>1, <2>2, CapLeaves
<1>5. CASE Execute(i)
  <2>1. /\ inv[i] # Null /\ inv[i].at = "tools"
        /\ GoTo(i, inv[i].state, "results", inv[i].decision)
        /\ UNCHANGED <<saved, gates, raised, pressed, crashes>>
    BY <1>5 DEF Execute, At
  <2>2. /\ inv[i].state \in State /\ CapAt(inv[i].state, "results")
        /\ "results" \in Places /\ inv[i].decision \in Decisions \cup {Null}
        /\ Len(inv[i].state.turns) \in 1..(ProjectCap - 1)
    BY <2>1, TurnType DEF CapAt, Places, Invocation
  <2>3. TypeOK
    BY DEF CapIInv
  <2>4. /\ inv' \in [Invocations -> Invocation \cup {Null}]
        /\ inv'[i] = [state |-> inv[i].state, at |-> "results", cap |-> inv[i].cap,
                      decision |-> inv[i].decision]
        /\ \A j \in Invocations \ {i} : inv'[j] = inv[j]
    BY <2>1, <2>2, <2>3, GoToOne
  <2>5. CapAt(inv'[i].state, inv'[i].at)
    BY <2>2, <2>4
  <2>6. done' \in [Turns -> [Calls -> Nat]]
          /\ \A c \in Calls : done'[ProjectCap][c] = 0
    <3> DEFINE k == Len(inv[i].state.turns)
               new == [c \in Calls |-> IF c \in Turn(i) /\ Allowed(i, c)
                                       THEN done[k][c] + 1 ELSE done[k][c]]
    <3>1. done \in [Turns -> [Calls -> Nat]] /\ k \in Turns /\ ProjectCap \in Turns
            /\ k # ProjectCap
      BY <2>2, <2>3, CapAssumption DEF TypeOK, Turns
    <3>2. new \in [Calls -> Nat]
      BY <3>1
    <3>3. done' = [done EXCEPT ![k] = new]
      BY <1>5 DEF Execute
    <3> HIDE DEF k, new
    <3>4. done'[ProjectCap] = done[ProjectCap]
      BY <3>1, <3>3
    <3> QED BY <3>1, <3>2, <3>3, <3>4 DEF CapIInv, CapInv
  <2>7. /\ saved' \in Checkpoint
        /\ Len(saved'.state.turns) <= ProjectCap
        /\ CapAt(saved'.state, saved'.next)
    BY <2>1 DEF CapIInv, CapInv, TypeOK
  <2>8. gates' \in Seq(Gate) /\ pressed' \in 0..MaxPresses
    BY <2>1, <2>3 DEF TypeOK
  <2>9. raised' \in BOOLEAN
    BY <2>1, <2>3, Zenon DEF TypeOK
  <2> QED BY <2>1, <2>4, <2>5, <2>6, <2>7, <2>8, <2>9, CapOneStep
<1>6. CASE Results(i)
  <2>1. /\ inv[i] # Null /\ inv[i].at = "results"
        /\ Save([inv[i].state EXCEPT !.answered = Turn(i)], "agent")
        /\ GoTo(i, [inv[i].state EXCEPT !.answered = Turn(i)], "agent", Null)
        /\ UNCHANGED <<gates, done, raised, pressed, crashes>>
    BY <1>6 DEF Results, At
  <2>2. Turn(i) \in SUBSET Calls
    BY <2>1, TurnType
  <2> QED BY <2>1, <2>2, CapAnswers
<1> QED BY <1>1, <1>2, <1>3, <1>4, <1>5, <1>6 DEF ToolsStep

LEMMA PressedType ==
    ASSUME NEW gate \in Gate, NEW d \in Decisions
    PROVE  /\ Pressed(gate, d) \in Gate
           /\ Pressed(gate, d).turn = gate.turn
           /\ Pressed(gate, d).calls = gate.calls
           /\ Pressed(gate, d).presses = gate.presses + 1
           /\ Pressed(gate, d).decided = gate.decided \cup {d}
BY DEF Pressed, Gate

LEMMA CapPress ==
    ASSUME CapIInv, NEW i \in Invocations, NEW g \in DOMAIN gates, Press(i, g)
    PROVE  CapIInv'
<1>1. TypeOK
  BY DEF CapIInv
<1>2. PICK d \in Decisions :
          /\ gates' = [gates EXCEPT ![g] = Pressed(@, d)]
          /\ inv' = [inv EXCEPT ![i] =
                [state |-> Empty, at |-> "check", cap |-> Cap, decision |-> d]]
  BY DEF Press
<1>3. /\ pressed < MaxPresses /\ pressed' = pressed + 1
      /\ UNCHANGED <<saved, done, raised, crashes>>
  BY DEF Press
<1>4. gates[g] \in Gate
  BY <1>1 DEF TypeOK
<1>5. Pressed(gates[g], d) \in Gate
  BY <1>4, PressedType
<1>6. gates' \in Seq(Gate)
  BY <1>1, <1>2, <1>5 DEF TypeOK
<1>7. [state |-> Empty, at |-> "check", cap |-> Cap, decision |-> d] \in Invocation
  BY EmptyType DEF Invocation, Places
<1>8. /\ inv' \in [Invocations -> Invocation \cup {Null}]
      /\ inv'[i] = [state |-> Empty, at |-> "check", cap |-> Cap, decision |-> d]
      /\ \A j \in Invocations \ {i} : inv'[j] = inv[j]
  BY <1>1, <1>2, <1>7 DEF TypeOK
<1>9. CapAt(inv'[i].state, inv'[i].at)
  BY <1>8 DEF CapAt
<1>10. saved # Null
  BY DEF CapIInv, CapInv
<1>11. /\ saved' \in Checkpoint
       /\ Len(saved'.state.turns) <= ProjectCap
       /\ CapAt(saved'.state, saved'.next)
  BY <1>3, <1>10 DEF CapIInv, CapInv, TypeOK
<1>12. /\ done' \in [Turns -> [Calls -> Nat]]
       /\ \A c \in Calls : done'[ProjectCap][c] = 0
  BY <1>3 DEF CapIInv, CapInv, TypeOK
<1>13. pressed' \in 0..MaxPresses
  BY <1>1, <1>3, BoundsAssumption DEF TypeOK
<1>14. raised' \in BOOLEAN
  BY <1>1, <1>3, Zenon DEF TypeOK
<1> QED BY <1>3, <1>6, <1>8, <1>9, <1>11, <1>12, <1>13, <1>14, CapOneStep

LEMMA CapResume ==
    ASSUME CapIInv, NEW i \in Invocations, ResumeCheck(i) \/ ResumeInvoke(i)
    PROVE  CapIInv'
<1>1. /\ inv[i] # Null /\ inv[i] \in Invocation /\ saved # Null
      /\ UNCHANGED <<saved, gates, done, raised, pressed, crashes>>
  BY DEF ResumeCheck, ResumeInvoke, At, CapIInv, CapInv, TypeOK
<1>2. raised' \in BOOLEAN
  BY <1>1, Zenon DEF CapIInv, TypeOK
<1>3. CASE Leave(i)
  BY <1>1, <1>2, <1>3, CapLeaves
<1>4. CASE GoTo(i, Empty, "load", inv[i].decision)
  <2>1. CapAt(Empty, "load") /\ "load" \in Places /\ Empty \in State
    BY EmptyType DEF CapAt, Places
  <2>2. inv[i].decision \in Decisions \cup {Null}
    BY <1>1 DEF Invocation
  <2> QED BY <1>1, <1>4, <2>1, <2>2, CapGoes
<1>5. CASE /\ saved.next # "end"
           /\ GoTo(i, saved.state, saved.next,
                   IF saved.next = "tools" THEN inv[i].decision ELSE Null)
  <2>1. /\ saved.state \in State /\ saved.next \in Places
        /\ CapAt(saved.state, saved.next)
    BY <1>1, <1>5 DEF CapIInv, CapInv, TypeOK, Checkpoint, Nodes, Places
  <2>2. (IF saved.next = "tools" THEN inv[i].decision ELSE Null)
            \in Decisions \cup {Null}
    BY <1>1 DEF Invocation
  <2> QED BY <1>1, <1>5, <2>1, <2>2, CapGoes
<1> QED BY <1>3, <1>4, <1>5 DEF ResumeCheck, ResumeInvoke

LEMMA CapCrash ==
    ASSUME CapIInv, Crash
    PROVE  CapIInv'
<1>1. /\ inv' = [i \in Invocations |-> Null]
      /\ crashes < MaxCrashes /\ crashes' = crashes + 1
      /\ UNCHANGED <<saved, gates, done, raised, pressed>>
  BY DEF Crash
<1>2. crashes' \in 0..MaxCrashes
  BY <1>1, BoundsAssumption DEF CapIInv, TypeOK
<1>3. inv' \in [Invocations -> Invocation \cup {Null}]
  BY <1>1
<1>4. raised' \in BOOLEAN
  BY <1>1, Zenon DEF CapIInv, TypeOK
<1>5. TypeOK'
  BY <1>1, <1>2, <1>3, <1>4 DEF CapIInv, TypeOK
<1>6. CapInv'
  BY <1>1 DEF CapIInv, CapInv
<1> QED BY <1>5, <1>6 DEF CapIInv

LEMMA CapStep == CapIInv /\ [Next]_vars => CapIInv'
<1> SUFFICES ASSUME CapIInv, [Next]_vars PROVE CapIInv'
  OBVIOUS
<1>1. CASE UNCHANGED vars
  BY <1>1 DEF vars, CapIInv, TypeOK, CapInv, CapAt
<1>2. CASE Crash
  BY <1>2, CapCrash
<1>3. ASSUME NEW i \in Invocations,
             \/ Start(i)
             \/ AgentNode(i) \/ Raises(i)
             \/ ToolsStep(i)
             \/ \E g \in DOMAIN gates : Press(i, g)
             \/ ResumeCheck(i) \/ ResumeInvoke(i)
      PROVE  CapIInv'
  <2>1. CASE Raises(i)
    <3>1. raised' \in BOOLEAN
      BY <2>1, Zenon DEF Raises
    <3> QED BY <2>1, <3>1, CapLeaves DEF Raises
  <2> QED BY <1>3, <2>1, CapStart, CapAgentNode, CapToolsStep, CapPress, CapResume
<1> QED BY <1>1, <1>2, <1>3 DEF Next

\* Every variable keeps its shape: a gate is posted for a turn that exists,
\* and an invocation resumes where the graph has a node.
THEOREM TypeCorrect == Spec => []TypeOK
<1>1. CapIInv => TypeOK
  BY DEF CapIInv
<1> QED BY <1>1, CapInit, CapStep, PTL DEF Spec

\* The run makes at most ProjectCap model calls and runs no tools at the
\* last one, also when resume_run goes on with another cap.
THEOREM CapIsKept == Spec => []CapHolds
<1>1. CapIInv => CapHolds
  BY DEF CapIInv, CapInv, CapHolds
<1> QED BY <1>1, CapInit, CapStep, PTL DEF Spec

-----------------------------------------------------------------------------
(* One press per gate                                                      *)
RunIInv == CapIInv /\ OnePressInv

\* Invocations end, and nothing else changes.
LEMMA RunEnds ==
    ASSUME OnePress, UNCHANGED <<saved, gates, done>>,
           \A j \in Invocations : inv'[j] = Null \/ inv'[j] = inv[j]
    PROVE  OnePress'
<1>1. OneToken'
  BY DEF OnePress, OneToken
<1>2. \A g \in DOMAIN gates' : gates'[g].presses = 0 => IsGateOf(g)'
  BY DEF OnePress, IsGateOf
<1>3. \A j \in Invocations : inv'[j] # Null => Decided(j)'
  BY DEF OnePress, Decided, IsGateOf
<1>4. Fresh'
  BY DEF OnePress, Fresh
<1>5. \A k \in Turns, c \in Risky : done'[k][c] > 0 => ShownAndApproved(k, c)'
  BY DEF OnePress, ShownAndApproved
<1> QED BY <1>1, <1>2, <1>3, <1>4, <1>5 DEF OnePress

\* While an invocation is alive, it is the only one and no gate is open.
LEMMA OnlyOne ==
    ASSUME OnePress, NEW i \in Invocations, inv[i] # Null
    PROVE  /\ \A j \in Invocations \ {i} : inv[j] = Null
           /\ \A g \in DOMAIN gates : gates[g].presses # 0
BY DEF OnePress, OneToken

\* An invocation moves, and nothing else changes.
LEMMA RunGoes ==
    ASSUME OnePress, UNCHANGED <<saved, gates, done>>,
           NEW i \in Invocations, inv[i] # Null, inv'[i] # Null,
           \A j \in Invocations \ {i} : inv'[j] = inv[j],
           inv[i].at \in {"tools", "check", "load"},
           Decided(i)'
    PROVE  OnePress'
<1>1. OneToken'
  BY OnlyOne DEF OneToken
<1>2. \A g \in DOMAIN gates' : gates'[g].presses = 0 => IsGateOf(g)'
  BY OnlyOne
<1>3. \A j \in Invocations : inv'[j] # Null => Decided(j)'
  BY OnlyOne
<1>4. Fresh'
  BY DEF OnePress, Fresh
<1>5. \A k \in Turns, c \in Risky : done'[k][c] > 0 => ShownAndApproved(k, c)'
  BY DEF OnePress, ShownAndApproved
<1> QED BY <1>1, <1>2, <1>3, <1>4, <1>5 DEF OnePress

\* An invocation stores a checkpoint and goes on with it, or ends.
LEMMA RunSaves ==
    ASSUME OnePress, CapIInv, UNCHANGED <<gates, done>>,
           NEW i \in Invocations, inv[i] # Null, saved' # Null,
           \A j \in Invocations \ {i} : inv'[j] = inv[j],
           NEW m \in Nat, NEW n \in Nat,
           Len(saved.state.turns) = m, Len(saved'.state.turns) = n, m <= n,
           inv'[i] # Null => /\ inv'[i].state = saved'.state
                             /\ inv'[i].at = saved'.next
                             /\ inv'[i].decision = Null
                             /\ inv'[i].at \in {"agent", "tools"}
                             /\ inv'[i].at = "tools" => m < n
    PROVE  OnePress'
<1>0. saved # Null
  BY DEF CapIInv, CapInv
<1>1. OneToken'
  BY OnlyOne DEF OneToken
<1>2. \A g \in DOMAIN gates' : gates'[g].presses = 0 => IsGateOf(g)'
  BY OnlyOne
<1>3. \A j \in Invocations : inv'[j] # Null => Decided(j)'
  BY OnlyOne DEF Decided
<1>4. Fresh'
  <2>1. \A k \in Turns, c \in Calls : k > m => done[k][c] = 0
    BY <1>0 DEF OnePress, Fresh
  <2>2. \A k \in Turns : k \in Nat
    BY CapAssumption DEF Turns
  <2>3. \A k \in Turns, c \in Calls : k > n => done'[k][c] = 0
    BY <2>1, <2>2
  <2>4. \A k \in Turns, c \in Calls :
           /\ \/ \E j \in Invocations : /\ inv'[j] # Null
                                        /\ inv'[j].at \in {"tools", "post", "check", "load"}
              \/ \E g \in DOMAIN gates' : gates'[g].presses = 0
           /\ k = n
           => done'[k][c] = 0
    <3> SUFFICES ASSUME NEW k \in Turns, NEW c \in Calls, k = n,
                        \/ \E j \in Invocations :
                               /\ inv'[j] # Null
                               /\ inv'[j].at \in {"tools", "post", "check", "load"}
                        \/ \E g \in DOMAIN gates' : gates'[g].presses = 0
                 PROVE  done'[k][c] = 0
      OBVIOUS
    <3>1. inv'[i] # Null /\ inv'[i].at = "tools"
      BY OnlyOne
    <3> QED BY <2>1, <3>1
  <2> QED BY <2>3, <2>4 DEF Fresh
<1>5. \A k \in Turns, c \in Risky : done'[k][c] > 0 => ShownAndApproved(k, c)'
  BY DEF OnePress, ShownAndApproved
<1> QED BY <1>1, <1>2, <1>3, <1>4, <1>5 DEF OnePress

LEMMA RunInit == Init => RunIInv
<1> SUFFICES ASSUME Init PROVE OnePress
  BY CapInit DEF RunIInv, OnePressInv
<1>1. /\ saved = Null /\ gates = <<>> /\ \A i \in Invocations : inv[i] = Null
      /\ \A k \in Turns, c \in Calls : done[k][c] = 0
  BY DEF Init
<1>2. DOMAIN gates = {}
  BY <1>1
<1>3. OneToken
  BY <1>1, <1>2 DEF OneToken
<1>4. Fresh
  BY <1>1, <1>2 DEF Fresh
<1> QED BY <1>1, <1>2, <1>3, <1>4, CallsAssumption DEF OnePress

LEMMA RunStart ==
    ASSUME RunIInv, NEW i \in Invocations, Start(i)
    PROVE  OnePressInv'
<1>1. /\ saved = Null /\ gates = <<>> /\ \A j \in Invocations : inv[j] = Null
      /\ UNCHANGED <<gates, done>>
  BY DEF RunIInv, CapIInv, CapInv, Start
<1>2. DOMAIN gates' = {} /\ PressedOnce
  BY <1>1 DEF PressedOnce
<1>3. PICK cap \in {Cap, ProjectCap} : inv' = [inv EXCEPT ![i] =
          [state |-> Empty, at |-> "agent", cap |-> cap, decision |-> Null]]
  BY DEF Start
<1>4. saved' = [state |-> Empty, next |-> "agent"]
  BY DEF Start, Save
<1>5. /\ inv'[i] = [state |-> Empty, at |-> "agent", cap |-> cap, decision |-> Null]
      /\ \A j \in Invocations \ {i} : inv'[j] = Null
  BY <1>1, <1>3 DEF RunIInv, CapIInv, TypeOK
<1>6. \A k \in Turns, c \in Calls : done'[k][c] = 0
  BY <1>1, <1>2 DEF RunIInv, OnePressInv, OnePress, Fresh
<1>7. OneToken'
  BY <1>2, <1>5 DEF OneToken
<1>8. \A j \in Invocations : inv'[j] # Null => Decided(j)'
  BY <1>4, <1>5 DEF Decided
<1>9. Fresh'
  BY <1>6 DEF Fresh
<1> QED BY <1>2, <1>6, <1>7, <1>8, <1>9, CallsAssumption DEF OnePressInv, OnePress

LEMMA RunAgentNode ==
    ASSUME RunIInv, NEW i \in Invocations, AgentNode(i), PressedOnce
    PROVE  OnePress'
<1>1. /\ OnePress /\ CapIInv /\ inv[i] # Null /\ inv[i].at = "agent"
      /\ UNCHANGED <<gates, done>>
  BY DEF RunIInv, OnePressInv, AgentNode, At
<1>2. /\ inv[i] \in Invocation /\ inv[i].state \in State /\ saved # Null
      /\ inv[i].state = saved.state
  BY <1>1 DEF CapIInv, CapInv, TypeOK, Invocation, OnePress, Decided
<1>3. PICK turn \in SUBSET Calls :
          LET state == [turns |-> Append(inv[i].state.turns, turn), answered |-> {}]
              next == Route(state, inv[i].cap)
          IN  /\ Save(state, next)
              /\ IF next = "end" THEN Leave(i) ELSE GoTo(i, state, next, Null)
  BY DEF AgentNode
<1> DEFINE state == [turns |-> Append(inv[i].state.turns, turn), answered |-> {}]
           next == Route(state, inv[i].cap)
           m == Len(inv[i].state.turns)
<1>4. state \in State /\ Len(state.turns) = m + 1 /\ m \in Nat
  BY <1>2, AppendTurn DEF State
<1>5. next \in {"tools", "end"}
  BY DEF Route
<1> HIDE DEF state, next
<1>6. saved' = [state |-> state, next |-> next]
  BY <1>3 DEF Save, state, next
<1>7. saved' # Null
  <2>1. saved' \in Checkpoint
    BY <1>4, <1>5, <1>6 DEF Checkpoint, Nodes
  <2> QED BY <2>1, NullAssumption
<1>8. /\ \A j \in Invocations \ {i} : inv'[j] = inv[j]
      /\ inv'[i] # Null => /\ inv'[i].state = state /\ inv'[i].at = "tools"
                           /\ inv'[i].decision = Null /\ next = "tools"
  <2>1. CASE next = "end"
    BY <1>1, <1>3, <2>1, LeaveOne DEF state, next, CapIInv
  <2>2. CASE next = "tools"
    <3>1. GoTo(i, state, "tools", Null)
      BY <1>3, <2>2 DEF state, next
    <3>2. "tools" \in Places /\ TypeOK /\ Null \in Decisions \cup {Null}
      BY <1>1 DEF Places, CapIInv
    <3>3. /\ inv'[i] = [state |-> state, at |-> "tools", cap |-> inv[i].cap,
                        decision |-> Null]
          /\ \A j \in Invocations \ {i} : inv'[j] = inv[j]
      BY <1>1, <1>4, <3>1, <3>2, GoToOne
    <3> QED BY <2>2, <3>3
  <2> QED BY <1>5, <2>1, <2>2
<1>9. /\ Len(saved.state.turns) = m /\ Len(saved'.state.turns) = m + 1
      /\ m + 1 \in Nat /\ m <= m + 1 /\ m < m + 1
  BY <1>2, <1>4, <1>6
<1> HIDE DEF m
<1> QED BY <1>1, <1>4, <1>6, <1>7, <1>8, <1>9, RunSaves

LEMMA RunAnswers ==
    ASSUME CapIInv, OnePress, NEW i \in Invocations, inv[i] # Null,
           inv[i].at \in {"tools", "results"}, NEW answered \in SUBSET Calls,
           Save([inv[i].state EXCEPT !.answered = answered], "agent"),
           GoTo(i, [inv[i].state EXCEPT !.answered = answered], "agent", Null),
           UNCHANGED <<gates, done>>
    PROVE  OnePress'
<1> DEFINE state == [inv[i].state EXCEPT !.answered = answered]
           m == Len(inv[i].state.turns)
<1>1. /\ TypeOK /\ inv[i].state \in State /\ m \in Nat
      /\ inv[i].state = saved.state
  BY DEF CapIInv, TypeOK, Invocation, State, OnePress, Decided
<1>2. state \in State /\ Len(state.turns) = m
  BY <1>1 DEF State
<1> HIDE DEF state
<1>3. saved' = [state |-> state, next |-> "agent"]
  BY DEF Save, state
<1>4. saved' # Null
  <2>1. saved' \in Checkpoint
    BY <1>2, <1>3 DEF Checkpoint, Nodes
  <2> QED BY <2>1, NullAssumption
<1>5. "agent" \in Places /\ Null \in Decisions \cup {Null} /\ GoTo(i, state, "agent", Null)
  BY DEF Places, state
<1>6. /\ inv'[i] = [state |-> state, at |-> "agent", cap |-> inv[i].cap,
                    decision |-> Null]
      /\ \A j \in Invocations \ {i} : inv'[j] = inv[j]
  BY <1>1, <1>2, <1>5, GoToOne
<1>7. Len(saved.state.turns) = m /\ Len(saved'.state.turns) = m /\ m <= m
  BY <1>1, <1>2, <1>3
<1> HIDE DEF m
<1> QED BY <1>1, <1>3, <1>4, <1>6, <1>7, RunSaves

\* An approval is kept while gates are posted and pressed.
LEMMA StillApproved ==
    ASSUME NEW k \in Turns, NEW c \in Risky, ShownAndApproved(k, c),
           \A g \in DOMAIN gates : /\ g \in DOMAIN gates'
                                   /\ gates'[g].turn = gates[g].turn
                                   /\ gates'[g].calls = gates[g].calls
                                   /\ gates[g].decided \subseteq gates'[g].decided
    PROVE  ShownAndApproved(k, c)'
BY DEF ShownAndApproved

LEMMA RunPostGate ==
    ASSUME RunIInv, NEW i \in Invocations, PostGate(i), PressedOnce'
    PROVE  OnePress'
<1> DEFINE new == [turn |-> Len(inv[i].state.turns), presses |-> 0, decided |-> {},
                   calls |-> IF Connecting(i) # {} THEN Connecting(i) ELSE Gated(i)]
           last == Len(gates) + 1
<1>1. /\ CapIInv /\ TypeOK /\ inv[i] # Null /\ inv[i].at = "post"
      /\ gates' = Append(gates, new) /\ Leave(i)
      /\ UNCHANGED <<saved, done>>
  BY DEF RunIInv, CapIInv, PostGate, At
<1>2. /\ gates \in Seq(Gate) /\ last \in Nat
      /\ DOMAIN gates' = DOMAIN gates \cup {last}
      /\ gates'[last] = new
      /\ \A g \in DOMAIN gates : gates'[g] = gates[g]
  <2>1. gates \in Seq(Gate)
    BY <1>1 DEF TypeOK
  <2>2. gates' = Append(gates, new)
    BY <1>1
  <2> HIDE DEF new
  <2> QED BY <2>1, <2>2
<1>3. /\ new.presses = 0 /\ new.turn = Len(inv[i].state.turns)
      /\ new.calls = Shown(inv[i].state)
  BY DEF Shown, Connecting, Gated, Turn
<1> HIDE DEF new, last
<1>4. OnePress
  BY <1>2 DEF RunIInv, OnePressInv, PressedOnce
<1>5. saved.next = "tools" /\ inv[i].state = saved.state
  BY <1>1, <1>4 DEF OnePress, Decided
<1>6. \A g \in DOMAIN gates' : gates'[g].presses = 0 => g = last
  BY <1>1, <1>2, <1>4, OnlyOne
<1>7. \A j \in Invocations : inv'[j] = Null
  BY <1>1, <1>4, OnlyOne, LeaveOne
<1>8. OneToken'
  BY <1>6, <1>7 DEF OneToken
<1>9. \A g \in DOMAIN gates' : gates'[g].presses = 0 => IsGateOf(g)'
  BY <1>1, <1>2, <1>3, <1>5, <1>6 DEF IsGateOf
<1>10. Fresh'
  BY <1>1, <1>4 DEF OnePress, Fresh
<1>11. \A k \in Turns, c \in Risky : done'[k][c] > 0 => ShownAndApproved(k, c)'
  BY <1>1, <1>2, <1>4, StillApproved DEF OnePress
<1> QED BY <1>1, <1>4, <1>7, <1>8, <1>9, <1>10, <1>11 DEF OnePress

\* A risky call is allowed only with the approval of the gate that showed it.
LEMMA AllowedIsApproved ==
    ASSUME RunIInv, OnePress, NEW i \in Invocations, At(i, "tools"),
           Connecting(i) = {}, NEW c \in Risky, c \in Turn(i), Allowed(i, c)
    PROVE  ShownAndApproved(Len(saved.state.turns), c)
<1>1. /\ inv[i] # Null /\ inv[i].at = "tools" /\ inv[i].decision = "approve"
      /\ inv[i].decision # Null
  BY NullAssumption DEF At, Allowed, Decisions
<1>2. inv[i].state = saved.state
  BY <1>1 DEF OnePress, Decided
<1>3. PICK g \in DOMAIN gates : IsGateOf(g) /\ "approve" \in gates[g].decided
  BY <1>1 DEF OnePress, Decided
<1>4. c \in Shown(saved.state)
  BY <1>2 DEF Shown, Connecting, Turn
<1> QED BY <1>3, <1>4 DEF ShownAndApproved, IsGateOf

LEMMA RunExecute ==
    ASSUME RunIInv, NEW i \in Invocations, Execute(i), PressedOnce
    PROVE  OnePress'
<1>1. /\ CapIInv /\ TypeOK /\ OnePress /\ inv[i] # Null /\ inv[i].at = "tools"
      /\ inv[i] \in Invocation /\ inv[i].state \in State
      /\ inv[i].state = saved.state /\ saved.next = "tools"
      /\ inv[i].decision \in Decisions \cup {Null}
      /\ saved # Null
  BY DEF RunIInv, CapIInv, TypeOK, CapInv, OnePressInv, OnePress, Execute, At,
         Decided, Invocation
<1>2. /\ At(i, "tools") /\ Connecting(i) = {}
      /\ GoTo(i, inv[i].state, "results", inv[i].decision)
      /\ UNCHANGED <<saved, gates>>
  BY DEF Execute
<1>3. /\ inv'[i] = [state |-> inv[i].state, at |-> "results", cap |-> inv[i].cap,
                    decision |-> inv[i].decision]
      /\ \A j \in Invocations \ {i} : inv'[j] = inv[j]
  <2>1. "results" \in Places
    BY DEF Places
  <2> QED BY <1>1, <1>2, <2>1, GoToOne
<1> DEFINE n == Len(saved.state.turns)
<1>4. n \in Turns
  <2>1. n \in 1..(ProjectCap - 1)
    BY <1>1, TurnType
  <2> QED BY <2>1, CapAssumption DEF Turns
<1> HIDE DEF n
<1>5. done' = [done EXCEPT ![n] = [c \in Calls |->
                  IF c \in Turn(i) /\ Allowed(i, c) THEN @[c] + 1 ELSE @[c]]]
  BY <1>1 DEF Execute, n
<1>6. \A k \in Turns, c \in Calls :
          done'[k][c] = IF k = n /\ c \in Turn(i) /\ Allowed(i, c)
                        THEN done[k][c] + 1 ELSE done[k][c]
  BY <1>1, <1>4, <1>5 DEF TypeOK
<1>7. \A c \in Calls : done[n][c] = 0
  BY <1>1, <1>4 DEF OnePress, Fresh, n
<1>8. OneToken'
  BY <1>1, <1>2, <1>3, OnlyOne DEF OneToken
<1>9. \A g \in DOMAIN gates' : gates'[g].presses = 0 => IsGateOf(g)'
  BY <1>1, <1>2, OnlyOne
<1>10. \A j \in Invocations : inv'[j] # Null => Decided(j)'
  <2>1. Decided(i)
    BY <1>1 DEF OnePress
  <2>2. Decided(i)'
    BY <1>1, <1>2, <1>3, <2>1 DEF Decided, IsGateOf
  <2> QED BY <1>1, <1>3, <2>2, OnlyOne
<1>11. Fresh'
  <2>1. \A k \in Turns : k > n => k # n
    BY <1>4, CapAssumption DEF Turns
  <2>2. \A k \in Turns, c \in Calls : k > n => done'[k][c] = 0
    BY <1>1, <1>6, <2>1 DEF OnePress, Fresh, n
  <2>3. ~ \E j \in Invocations : /\ inv'[j] # Null
                                 /\ inv'[j].at \in {"tools", "post", "check", "load"}
    BY <1>1, <1>3, OnlyOne
  <2>4. ~ \E g \in DOMAIN gates' : gates'[g].presses = 0
    BY <1>1, <1>2, OnlyOne
  <2> QED BY <1>1, <1>2, <2>2, <2>3, <2>4 DEF Fresh, n
<1>12. \A k \in Turns, c \in Calls : done'[k][c] <= 1
  BY <1>1, <1>6, <1>7 DEF OnePress
<1>13. \A k \in Turns, c \in Risky : done'[k][c] > 0 => ShownAndApproved(k, c)'
  <2> SUFFICES ASSUME NEW k \in Turns, NEW c \in Risky, done'[k][c] > 0
               PROVE  ShownAndApproved(k, c)'
    OBVIOUS
  <2>0. c \in Calls
    BY CallsAssumption
  <2>1. ShownAndApproved(k, c)
    <3>1. CASE k = n /\ c \in Turn(i) /\ Allowed(i, c)
      BY <1>1, <1>2, <3>1, AllowedIsApproved DEF n
    <3>2. CASE ~(k = n /\ c \in Turn(i) /\ Allowed(i, c))
      <4>1. done[k][c] > 0
        BY <1>6, <2>0, <3>2
      <4> QED BY <1>1, <4>1 DEF OnePress
    <3> QED BY <3>1, <3>2
  <2> QED BY <1>2, <2>1 DEF ShownAndApproved
<1> QED BY <1>8, <1>9, <1>10, <1>11, <1>12, <1>13 DEF OnePress

LEMMA RunPress ==
    ASSUME RunIInv, NEW i \in Invocations, NEW g \in DOMAIN gates, Press(i, g),
           PressedOnce'
    PROVE  OnePress'
<1>1. TypeOK /\ CapIInv /\ UNCHANGED <<saved, done>>
  BY DEF RunIInv, CapIInv, Press
<1>2. PICK d \in Decisions :
          /\ gates' = [gates EXCEPT ![g] = Pressed(@, d)]
          /\ inv' = [inv EXCEPT ![i] =
                [state |-> Empty, at |-> "check", cap |-> Cap, decision |-> d]]
  BY DEF Press
<1>3. \A h \in DOMAIN gates : gates[h] \in Gate
  BY <1>1 DEF TypeOK
<1>4. /\ DOMAIN gates' = DOMAIN gates
      /\ gates'[g] = Pressed(gates[g], d)
      /\ \A h \in DOMAIN gates : h # g => gates'[h] = gates[h]
  BY <1>1, <1>2 DEF TypeOK
<1>5. /\ gates'[g].turn = gates[g].turn /\ gates'[g].calls = gates[g].calls
      /\ gates'[g].presses = gates[g].presses + 1
      /\ gates'[g].decided = gates[g].decided \cup {d}
      /\ gates[g].presses \in Nat
  <2>1. gates[g] \in Gate
    BY <1>3
  <2> QED BY <1>4, <2>1, PressedType DEF Gate
<1>6. gates[g].presses = 0
  BY <1>4, <1>5 DEF PressedOnce
<1>7. OnePress
  <2>1. PressedOnce
    BY <1>4, <1>6 DEF PressedOnce
  <2> QED BY <2>1 DEF RunIInv, OnePressInv
<1>8. /\ \A j \in Invocations : inv[j] = Null
      /\ \A h \in DOMAIN gates : gates[h].presses = 0 => h = g
      /\ IsGateOf(g)
  BY <1>6, <1>7 DEF OnePress, OneToken
<1>9. /\ inv'[i] = [state |-> Empty, at |-> "check", cap |-> Cap, decision |-> d]
      /\ \A j \in Invocations \ {i} : inv'[j] = Null
  BY <1>1, <1>2, <1>8 DEF TypeOK
<1>10. \A h \in DOMAIN gates' : gates'[h].presses # 0
  BY <1>4, <1>5, <1>8
<1>11. OneToken'
  BY <1>9, <1>10 DEF OneToken
<1>12. \A j \in Invocations : inv'[j] # Null => Decided(j)'
  <2>1. d # Null
    BY NullAssumption
  <2>2. IsGateOf(g)'
    BY <1>1, <1>5, <1>8 DEF IsGateOf
  <2>3. Decided(i)'
    BY <1>4, <1>5, <1>9, <2>1, <2>2 DEF Decided
  <2> QED BY <1>9, <2>3
<1>13. Fresh'
  BY <1>1, <1>6, <1>7 DEF OnePress, Fresh
<1>14. \A k \in Turns, c \in Risky : done'[k][c] > 0 => ShownAndApproved(k, c)'
  BY <1>1, <1>4, <1>5, <1>7, StillApproved DEF OnePress
<1> QED BY <1>1, <1>7, <1>10, <1>11, <1>12, <1>13, <1>14 DEF OnePress

LEMMA RunLeaves ==
    ASSUME RunIInv, PressedOnce, NEW i \in Invocations, Leave(i),
           UNCHANGED <<saved, gates, done>>
    PROVE  OnePress'
<1>1. TypeOK /\ OnePress
  BY DEF RunIInv, CapIInv, OnePressInv
<1>2. \A j \in Invocations : inv'[j] = Null \/ inv'[j] = inv[j]
  BY <1>1, LeaveOne
<1> QED BY <1>1, <1>2, RunEnds

LEMMA RunToolsStep ==
    ASSUME RunIInv, PressedOnce', NEW i \in Invocations, ToolsStep(i)
    PROVE  OnePress'
<1>1. CASE PostGate(i)
  BY <1>1, RunPostGate
<1>2. CASE ~PostGate(i)
  <2>1. UNCHANGED gates
    BY <1>2 DEF ToolsStep, AnswerConnect, Interrupt, NoLink, Execute, Results
  <2>2. PressedOnce /\ CapIInv /\ TypeOK /\ OnePress
    BY <2>1 DEF PressedOnce, RunIInv, CapIInv, OnePressInv
  <2>3. CASE AnswerConnect(i)
    <3>1. PICK c \in Connecting(i) :
              /\ Save([inv[i].state EXCEPT !.answered = {c}], "agent")
              /\ GoTo(i, [inv[i].state EXCEPT !.answered = {c}], "agent", Null)
      BY <2>3 DEF AnswerConnect
    <3>2. inv[i] # Null /\ inv[i].at = "tools" /\ UNCHANGED <<gates, done>>
      BY <2>3 DEF AnswerConnect, At
    <3>3. {c} \in SUBSET Calls
      BY CallsAssumption DEF Connecting
    <3> QED BY <2>2, <3>1, <3>2, <3>3, RunAnswers
  <2>4. CASE Interrupt(i)
    <3>1. /\ inv[i] # Null /\ inv[i].at = "tools"
          /\ GoTo(i, inv[i].state, "post", Null)
          /\ UNCHANGED <<saved, gates, done>>
      BY <2>4 DEF Interrupt, At
    <3>2. /\ inv[i].state \in State /\ "post" \in Places
          /\ Null \in Decisions \cup {Null}
      BY <2>2, <3>1, TurnType DEF Places
    <3>3. /\ inv'[i] = [state |-> inv[i].state, at |-> "post", cap |-> inv[i].cap,
                        decision |-> Null]
          /\ \A j \in Invocations \ {i} : inv'[j] = inv[j]
      BY <2>2, <3>1, <3>2, GoToOne
    <3>4. inv'[i] # Null
      <4>1. inv[i] \in Invocation
        BY <2>2, <3>1, TurnType
      <4>2. inv'[i] \in Invocation
        BY <3>2, <3>3, <4>1 DEF Invocation
      <4> QED BY <4>2, NullAssumption
    <3>5. Decided(i)
      BY <2>2, <3>1 DEF OnePress
    <3>6. Decided(i)'
      BY <3>1, <3>3, <3>5 DEF Decided
    <3> QED BY <2>2, <3>1, <3>3, <3>4, <3>6, RunGoes
  <2>5. CASE NoLink(i)
    BY <2>2, <2>5, RunLeaves DEF NoLink
  <2>6. CASE Execute(i)
    BY <2>2, <2>6, RunExecute
  <2>7. CASE Results(i)
    <3>1. /\ inv[i] # Null /\ inv[i].at = "results"
          /\ Save([inv[i].state EXCEPT !.answered = Turn(i)], "agent")
          /\ GoTo(i, [inv[i].state EXCEPT !.answered = Turn(i)], "agent", Null)
          /\ UNCHANGED <<gates, done>>
      BY <2>7 DEF Results, At
    <3>2. Turn(i) \in SUBSET Calls
      BY <2>2, <3>1, TurnType
    <3> QED BY <2>2, <3>1, <3>2, RunAnswers
  <2> QED BY <1>2, <2>3, <2>4, <2>5, <2>6, <2>7 DEF ToolsStep
<1> QED BY <1>1, <1>2

\* resume_run goes on at the node its gate was posted for.
LEMMA RunResume ==
    ASSUME RunIInv, PressedOnce, NEW i \in Invocations,
           ResumeCheck(i) \/ ResumeInvoke(i)
    PROVE  OnePress'
<1>1. /\ TypeOK /\ OnePress /\ inv[i] # Null /\ inv[i].at \in {"check", "load"}
      /\ UNCHANGED <<saved, gates, done>>
      /\ inv[i] \in Invocation /\ saved \in Checkpoint /\ saved # Null
  BY DEF RunIInv, CapIInv, CapInv, TypeOK, OnePressInv, ResumeCheck, ResumeInvoke, At
<1>2. Decided(i) /\ inv[i].decision # Null /\ inv[i].decision \in Decisions \cup {Null}
  BY <1>1 DEF OnePress, Decided, Invocation
<1>3. PICK g \in DOMAIN gates : IsGateOf(g) /\ inv[i].decision \in gates[g].decided
  BY <1>1, <1>2 DEF Decided
<1>4. saved.next = "tools"
  BY <1>3 DEF IsGateOf
<1>5. CASE Leave(i)
  BY <1>1, <1>5, RunLeaves
<1>6. ASSUME NEW state \in State, NEW at \in {"load", "tools"},
             GoTo(i, state, at, inv[i].decision),
             at = "tools" => state = saved.state
      PROVE  OnePress'
  <2>1. at \in Places
    BY DEF Places
  <2>2. /\ inv'[i] = [state |-> state, at |-> at, cap |-> inv[i].cap,
                      decision |-> inv[i].decision]
        /\ \A j \in Invocations \ {i} : inv'[j] = inv[j]
    BY <1>1, <1>2, <1>6, <2>1, GoToOne
  <2>3. inv'[i] # Null
    <3>1. inv'[i] \in Invocation
      BY <1>1, <1>2, <2>1, <2>2 DEF Invocation
    <3> QED BY <3>1, NullAssumption
  <2>4. Decided(i)'
    BY <1>1, <1>2, <1>3, <1>4, <1>6, <2>2 DEF Decided, IsGateOf
  <2> QED BY <1>1, <2>2, <2>3, <2>4, RunGoes
<1>7. Empty \in State /\ saved.state \in State
  BY <1>1, EmptyType DEF Checkpoint
<1> QED BY <1>4, <1>5, <1>6, <1>7 DEF ResumeCheck, ResumeInvoke

LEMMA RunStep == RunIInv /\ [Next]_vars => RunIInv'
<1> SUFFICES ASSUME RunIInv, [Next]_vars, PressedOnce' PROVE OnePress'
  BY CapStep DEF RunIInv, OnePressInv
<1>1. CASE UNCHANGED vars
  <2>1. OnePress
    BY <1>1 DEF vars, PressedOnce, RunIInv, OnePressInv
  <2> QED BY <1>1, <2>1, RunEnds DEF vars
<1>2. CASE Crash
  <2>1. UNCHANGED <<saved, gates, done>> /\ \A j \in Invocations : inv'[j] = Null
    BY <1>2 DEF Crash
  <2>2. OnePress
    BY <2>1 DEF PressedOnce, RunIInv, OnePressInv
  <2> QED BY <2>1, <2>2, RunEnds
<1>3. ASSUME NEW i \in Invocations,
             \/ Start(i)
             \/ AgentNode(i) \/ Raises(i)
             \/ ToolsStep(i)
             \/ \E g \in DOMAIN gates : Press(i, g)
             \/ ResumeCheck(i) \/ ResumeInvoke(i)
      PROVE  OnePress'
  <2>1. CASE Start(i)
    BY <2>1, RunStart DEF OnePressInv
  <2>2. CASE AgentNode(i)
    BY <2>2, RunAgentNode DEF AgentNode, PressedOnce
  <2>3. CASE Raises(i)
    <3>1. PressedOnce
      BY <2>3 DEF Raises, PressedOnce
    <3> QED BY <2>3, <3>1, RunLeaves DEF Raises
  <2>4. CASE ToolsStep(i)
    BY <2>4, RunToolsStep
  <2>5. ASSUME NEW g \in DOMAIN gates, Press(i, g)
        PROVE  OnePress'
    BY <2>5, RunPress
  <2>6. CASE ResumeCheck(i) \/ ResumeInvoke(i)
    <3>1. PressedOnce
      BY <2>6 DEF ResumeCheck, ResumeInvoke, PressedOnce
    <3> QED BY <2>6, <3>1, RunResume
  <2> QED BY <1>3, <2>1, <2>2, <2>3, <2>4, <2>5, <2>6
<1> QED BY <1>1, <1>2, <1>3 DEF Next

\* While no button is pressed twice, a risky call of a turn is executed only
\* after a gate that showed that call of that turn was approved, whichever
\* turns pause, fail, crash and resume in between.
THEOREM RiskyNeedsApproval == Spec => []RiskyIsApproved
<1>1. RunIInv => RiskyIsApproved
  BY DEF RunIInv, OnePressInv, OnePress, RiskyIsApproved
<1> QED BY <1>1, RunInit, RunStep, PTL DEF Spec

\* While no button is pressed twice, no call of a turn is executed twice: the
\* node that a resumed run repeats had done nothing before its interrupt.
THEOREM NoCallRepeats == Spec => []ExecutedAtMostOnce
<1>1. RunIInv => ExecutedAtMostOnce
  BY DEF RunIInv, OnePressInv, OnePress, ExecutedAtMostOnce
<1> QED BY <1>1, RunInit, RunStep, PTL DEF Spec

-----------------------------------------------------------------------------
(* Every call is answered                                                  *)

(* The results of the last turn are there, unless it asked to connect.     *)
Answered(state) ==
    state.turns # <<>> /\ LastTurn(state) \cap Connects = {}
        => state.answered = LastTurn(state)

AnswerInv ==
    /\ saved # Null /\ saved.next = "agent" => Answered(saved.state)
    /\ \A i \in Invocations : At(i, "agent") => Answered(inv[i].state)

AnswerIInv == CapIInv /\ AnswerInv

\* Nothing is stored, and no invocation comes to the agent.
LEMMA AnswersMove ==
    ASSUME AnswerInv, UNCHANGED saved,
           \A j \in Invocations : \/ inv'[j] = inv[j]
                                  \/ inv'[j] = Null
                                  \/ inv'[j].at # "agent"
    PROVE  AnswerInv'
<1>1. \A j \in Invocations : At(j, "agent")' => At(j, "agent") /\ inv'[j] = inv[j]
  BY DEF At
<1> QED BY <1>1 DEF AnswerInv, Answered

\* What is stored is answered, or does not go on with the agent, and one
\* invocation goes on with it.
LEMMA AnswersSave ==
    ASSUME AnswerInv, NEW i \in Invocations,
           saved'.next = "agent" => Answered(saved'.state),
           \A j \in Invocations \ {i} : inv'[j] = inv[j] \/ inv'[j] = Null,
           At(i, "agent")' => inv'[i].state = saved'.state /\ saved'.next = "agent"
    PROVE  AnswerInv'
<1>1. \A j \in Invocations \ {i} : At(j, "agent")' => At(j, "agent") /\ inv'[j] = inv[j]
  BY DEF At
<1>2. \A j \in Invocations \ {i} : At(j, "agent")' => Answered(inv'[j].state)
  BY <1>1 DEF AnswerInv
<1>3. At(i, "agent")' => Answered(inv'[i].state)
  BY DEF Answered
<1> QED BY <1>2, <1>3 DEF AnswerInv

LEMMA AnswerInit == Init => AnswerIInv
<1> SUFFICES ASSUME Init PROVE AnswerInv
  BY CapInit DEF AnswerIInv
<1> QED BY DEF Init, AnswerInv, At

LEMMA AnswerStart ==
    ASSUME AnswerIInv, NEW i \in Invocations, Start(i)
    PROVE  AnswerInv'
<1>1. PICK cap \in {Cap, ProjectCap} : inv' = [inv EXCEPT ![i] =
          [state |-> Empty, at |-> "agent", cap |-> cap, decision |-> Null]]
  BY DEF Start
<1>2. saved' = [state |-> Empty, next |-> "agent"]
  BY DEF Start, Save
<1>3. /\ inv'[i] = [state |-> Empty, at |-> "agent", cap |-> cap, decision |-> Null]
      /\ \A j \in Invocations \ {i} : inv'[j] = inv[j]
  BY <1>1 DEF AnswerIInv, CapIInv, TypeOK
<1>4. Answered(saved'.state)
  BY <1>2 DEF Answered, Empty
<1> QED BY <1>2, <1>3, <1>4, AnswersSave DEF AnswerIInv

LEMMA AnswerAgentNode ==
    ASSUME AnswerIInv, NEW i \in Invocations, AgentNode(i)
    PROVE  AnswerInv'
<1>1. /\ CapIInv /\ TypeOK /\ AnswerInv /\ inv[i] # Null
      /\ inv[i] \in Invocation /\ inv[i].state \in State
  BY DEF AnswerIInv, CapIInv, TypeOK, AgentNode, At, Invocation
<1>2. PICK turn \in SUBSET Calls :
          LET state == [turns |-> Append(inv[i].state.turns, turn), answered |-> {}]
              next == Route(state, inv[i].cap)
          IN  /\ Save(state, next)
              /\ IF next = "end" THEN Leave(i) ELSE GoTo(i, state, next, Null)
  BY DEF AgentNode
<1> DEFINE state == [turns |-> Append(inv[i].state.turns, turn), answered |-> {}]
           next == Route(state, inv[i].cap)
<1>3. state \in State
  BY <1>1, AppendTurn
<1>4. next \in {"tools", "end"}
  BY DEF Route
<1> HIDE DEF state, next
<1>5. saved' = [state |-> state, next |-> next]
  BY <1>2 DEF Save, state, next
<1>6. /\ \A j \in Invocations \ {i} : inv'[j] = inv[j]
      /\ ~At(i, "agent")'
  <2>1. CASE next = "end"
    BY <1>1, <1>2, <2>1, LeaveOne DEF state, next, At
  <2>2. CASE next = "tools"
    <3>1. GoTo(i, state, "tools", Null)
      BY <1>2, <2>2 DEF state, next
    <3>2. "tools" \in Places /\ Null \in Decisions \cup {Null}
      BY DEF Places
    <3>3. /\ inv'[i] = [state |-> state, at |-> "tools", cap |-> inv[i].cap,
                        decision |-> Null]
          /\ \A j \in Invocations \ {i} : inv'[j] = inv[j]
      BY <1>1, <1>3, <3>1, <3>2, GoToOne
    <3> QED BY <3>3 DEF At
  <2> QED BY <1>4, <2>1, <2>2
<1> QED BY <1>1, <1>4, <1>5, <1>6, AnswersSave

\* The two ways back from the tools to the agent.
LEMMA AnswerBack ==
    ASSUME CapIInv, AnswerInv, NEW i \in Invocations, inv[i] # Null,
           inv[i].at \in {"tools", "results"}, NEW answered \in SUBSET Calls,
           Connecting(i) # {} \/ answered = Turn(i),
           Save([inv[i].state EXCEPT !.answered = answered], "agent"),
           GoTo(i, [inv[i].state EXCEPT !.answered = answered], "agent", Null)
    PROVE  AnswerInv'
<1> DEFINE state == [inv[i].state EXCEPT !.answered = answered]
<1>1. TypeOK /\ inv[i] \in Invocation /\ inv[i].state \in State
  BY DEF CapIInv, TypeOK, Invocation
<1>2. state \in State /\ state.turns = inv[i].state.turns /\ state.answered = answered
  BY <1>1 DEF State
<1>3. Answered(state)
  BY <1>2 DEF Answered, LastTurn, Connecting, Turn
<1> HIDE DEF state
<1>4. saved' = [state |-> state, next |-> "agent"]
  BY DEF Save, state
<1>5. GoTo(i, state, "agent", Null)
  BY DEF state
<1>6. "agent" \in Places /\ Null \in Decisions \cup {Null}
  BY DEF Places
<1>7. /\ inv'[i] = [state |-> state, at |-> "agent", cap |-> inv[i].cap,
                    decision |-> Null]
      /\ \A j \in Invocations \ {i} : inv'[j] = inv[j]
  BY <1>1, <1>2, <1>5, <1>6, GoToOne
<1> QED BY <1>3, <1>4, <1>7, AnswersSave

\* GoTo to another place than the agent.
LEMMA AnswerGoes ==
    ASSUME TypeOK, AnswerInv, NEW i \in Invocations, inv[i] # Null,
           NEW state \in State, NEW at \in Places \ {"agent"},
           NEW decision \in Decisions \cup {Null},
           GoTo(i, state, at, decision), UNCHANGED saved
    PROVE  AnswerInv'
<1>1. at \in Places /\ at # "agent"
  OBVIOUS
<1>2. /\ inv'[i] = [state |-> state, at |-> at, cap |-> inv[i].cap,
                    decision |-> decision]
      /\ \A j \in Invocations \ {i} : inv'[j] = inv[j]
  BY <1>1, GoToOne
<1> QED BY <1>1, <1>2, AnswersMove

\* An invocation leaves.
LEMMA AnswerLeaves ==
    ASSUME TypeOK, AnswerInv, NEW i \in Invocations, Leave(i), UNCHANGED saved
    PROVE  AnswerInv'
<1>1. inv'[i] = Null /\ \A j \in Invocations \ {i} : inv'[j] = inv[j]
  BY LeaveOne
<1> QED BY <1>1, AnswersMove

LEMMA AnswerToolsStep ==
    ASSUME AnswerIInv, NEW i \in Invocations, ToolsStep(i)
    PROVE  AnswerInv'
<1>0. CapIInv /\ TypeOK /\ AnswerInv
  BY DEF AnswerIInv, CapIInv
<1>1. CASE AnswerConnect(i)
  <2>1. PICK c \in Connecting(i) :
            /\ Save([inv[i].state EXCEPT !.answered = {c}], "agent")
            /\ GoTo(i, [inv[i].state EXCEPT !.answered = {c}], "agent", Null)
    BY <1>1 DEF AnswerConnect
  <2>2. inv[i] # Null /\ inv[i].at = "tools"
    BY <1>1 DEF AnswerConnect, At
  <2>3. {c} \in SUBSET Calls /\ Connecting(i) # {}
    BY CallsAssumption DEF Connecting
  <2> QED BY <1>0, <2>1, <2>2, <2>3, AnswerBack
<1>2. CASE Results(i)
  <2>1. /\ inv[i] # Null /\ inv[i].at = "results"
        /\ Save([inv[i].state EXCEPT !.answered = Turn(i)], "agent")
        /\ GoTo(i, [inv[i].state EXCEPT !.answered = Turn(i)], "agent", Null)
    BY <1>2 DEF Results, At
  <2>2. Turn(i) \in SUBSET Calls
    BY <1>0, <2>1, TurnType
  <2> QED BY <1>0, <2>1, <2>2, AnswerBack
<1>3. CASE PostGate(i) \/ NoLink(i)
  BY <1>0, <1>3, AnswerLeaves DEF PostGate, NoLink
<1>4. CASE Interrupt(i)
  <2>1. /\ inv[i] # Null /\ inv[i].at = "tools" /\ UNCHANGED saved
        /\ GoTo(i, inv[i].state, "post", Null)
    BY <1>4 DEF Interrupt, At
  <2>2. /\ inv[i].state \in State /\ "post" \in Places \ {"agent"}
        /\ Null \in Decisions \cup {Null}
    BY <1>0, <2>1, TurnType DEF Places
  <2> QED BY <1>0, <2>1, <2>2, AnswerGoes
<1>5. CASE Execute(i)
  <2>1. /\ inv[i] # Null /\ inv[i].at = "tools" /\ UNCHANGED saved
        /\ GoTo(i, inv[i].state, "results", inv[i].decision)
    BY <1>5 DEF Execute, At
  <2>2. /\ inv[i].state \in State /\ "results" \in Places \ {"agent"}
        /\ inv[i].decision \in Decisions \cup {Null}
    BY <1>0, <2>1, TurnType DEF Places, Invocation
  <2> QED BY <1>0, <2>1, <2>2, AnswerGoes
<1> QED BY <1>1, <1>2, <1>3, <1>4, <1>5 DEF ToolsStep

LEMMA AnswerPress ==
    ASSUME AnswerIInv, NEW i \in Invocations, NEW g \in DOMAIN gates, Press(i, g)
    PROVE  AnswerInv'
<1>1. PICK d \in Decisions : inv' = [inv EXCEPT ![i] =
          [state |-> Empty, at |-> "check", cap |-> Cap, decision |-> d]]
  BY DEF Press
<1>2. /\ inv'[i].at = "check" /\ \A j \in Invocations \ {i} : inv'[j] = inv[j]
      /\ AnswerInv /\ UNCHANGED saved
  BY <1>1 DEF AnswerIInv, CapIInv, TypeOK, Press
<1> QED BY <1>2, AnswersMove

\* ainvoke(Command(resume)) takes the answers from the checkpoint.
LEMMA AnswerResume ==
    ASSUME AnswerIInv, NEW i \in Invocations, ResumeCheck(i) \/ ResumeInvoke(i)
    PROVE  AnswerInv'
<1>1. /\ CapIInv /\ TypeOK /\ AnswerInv
      /\ inv[i] # Null /\ inv[i] \in Invocation /\ UNCHANGED saved
      /\ saved \in Checkpoint /\ saved # Null
      /\ inv[i].decision \in Decisions \cup {Null}
  BY DEF ResumeCheck, ResumeInvoke, At, AnswerIInv, CapIInv, CapInv, TypeOK, Invocation
<1>2. CASE Leave(i)
  BY <1>1, <1>2, AnswerLeaves
<1>3. CASE GoTo(i, Empty, "load", inv[i].decision)
  <2>1. Empty \in State /\ "load" \in Places \ {"agent"}
    BY EmptyType DEF Places
  <2> QED BY <1>1, <1>3, <2>1, AnswerGoes
<1>4. CASE /\ saved.next # "end"
           /\ GoTo(i, saved.state, saved.next,
                   IF saved.next = "tools" THEN inv[i].decision ELSE Null)
  <2> DEFINE decision == IF saved.next = "tools" THEN inv[i].decision ELSE Null
  <2>1. /\ saved.state \in State /\ saved.next \in Places
        /\ decision \in Decisions \cup {Null}
    BY <1>1, <1>4 DEF Checkpoint, Nodes, Places
  <2>2. GoTo(i, saved.state, saved.next, decision)
    BY <1>4
  <2> HIDE DEF decision
  <2>3. /\ inv'[i] = [state |-> saved.state, at |-> saved.next, cap |-> inv[i].cap,
                      decision |-> decision]
        /\ \A j \in Invocations \ {i} : inv'[j] = inv[j]
    BY <1>1, <2>1, <2>2, GoToOne
  <2>4. At(i, "agent")' => inv'[i].state = saved'.state /\ saved'.next = "agent"
    BY <1>1, <2>3 DEF At
  <2>5. saved'.next = "agent" => Answered(saved'.state)
    BY <1>1 DEF AnswerInv
  <2> QED BY <1>1, <2>3, <2>4, <2>5, AnswersSave
<1> QED BY <1>2, <1>3, <1>4 DEF ResumeCheck, ResumeInvoke

LEMMA AnswerStep == AnswerIInv /\ [Next]_vars => AnswerIInv'
<1> SUFFICES ASSUME AnswerIInv, [Next]_vars PROVE AnswerInv'
  BY CapStep DEF AnswerIInv
<1>0. TypeOK /\ AnswerInv
  BY DEF AnswerIInv, CapIInv
<1>1. CASE UNCHANGED vars
  BY <1>0, <1>1, AnswersMove DEF vars
<1>2. CASE Crash
  <2>1. UNCHANGED saved /\ \A j \in Invocations : inv'[j] = Null
    BY <1>2 DEF Crash
  <2> QED BY <1>0, <2>1, AnswersMove
<1>3. ASSUME NEW i \in Invocations,
             \/ Start(i)
             \/ AgentNode(i) \/ Raises(i)
             \/ ToolsStep(i)
             \/ \E g \in DOMAIN gates : Press(i, g)
             \/ ResumeCheck(i) \/ ResumeInvoke(i)
      PROVE  AnswerInv'
  <2>1. CASE Raises(i)
    BY <1>0, <2>1, AnswerLeaves DEF Raises
  <2> QED BY <1>3, <2>1, AnswerStart, AnswerAgentNode, AnswerToolsStep, AnswerPress,
             AnswerResume
<1> QED BY <1>1, <1>2, <1>3 DEF Next

\* The model is called with a result for every call of its last turn, also by
\* an invocation that resumes and whichever calls were refused: the provider
\* takes no conversation with a call left open.
THEOREM EveryCallIsAnswered == Spec => []CallsAreAnswered
<1>1. AnswerIInv => CallsAreAnswered
  BY DEF AnswerIInv, AnswerInv, Answered, CallsAreAnswered, Connecting, Turn
<1> QED BY <1>1, AnswerInit, AnswerStep, PTL DEF Spec

-----------------------------------------------------------------------------
(* A loop is broken                                                        *)

(* A call that was executed in a turn is a call of that turn, and was not  *)
(* one of each of the turns before it.                                     *)
NotRepeated(k, c) ==
    /\ saved # Null
    /\ k <= Len(saved.state.turns)
    /\ c \in saved.state.turns[k]
    /\ k >= RepeatLimit =>
          \E j \in (k - RepeatLimit + 1)..k : c \notin saved.state.turns[j]

LoopInv ==
    PressedOnce =>
        \A k \in Turns, c \in Calls : done[k][c] > 0 => NotRepeated(k, c)

LoopIInv == RunIInv /\ LoopInv

(* The run goes on: the turns so far stay as they are.                     *)
TurnsStay ==
    saved # Null =>
        /\ saved' # Null
        /\ Len(saved.state.turns) <= Len(saved'.state.turns)
        /\ \A k \in 1..Len(saved.state.turns) :
              saved'.state.turns[k] = saved.state.turns[k]

LEMMA LoopInit == Init => LoopIInv
<1> SUFFICES ASSUME Init PROVE LoopInv
  BY RunInit DEF LoopIInv
<1>1. \A k \in Turns, c \in Calls : done[k][c] = 0
  BY DEF Init
<1> QED BY <1>1 DEF LoopInv

\* What was executed stays so when the conversation only grows.
LEMMA NotRepeatedStays ==
    ASSUME CapIInv, CapIInv', TurnsStay, NEW k \in Turns, NEW c \in Calls,
           NotRepeated(k, c)
    PROVE  NotRepeated(k, c)'
<1>1. /\ saved # Null /\ saved' # Null /\ k \in Nat /\ k >= 1 /\ RepeatLimit \in Nat \ {0}
      /\ saved \in Checkpoint /\ saved' \in Checkpoint
  BY CapAssumption DEF NotRepeated, TurnsStay, CapIInv, TypeOK, Turns
<1>2. /\ Len(saved.state.turns) \in Nat /\ Len(saved'.state.turns) \in Nat
      /\ Len(saved.state.turns) <= Len(saved'.state.turns)
  BY <1>1 DEF TurnsStay, Checkpoint, State
<1>3. k <= Len(saved.state.turns) /\ k <= Len(saved'.state.turns)
  BY <1>1, <1>2 DEF NotRepeated
<1>4. \A j \in 1..k : saved'.state.turns[j] = saved.state.turns[j]
  BY <1>1, <1>2, <1>3 DEF TurnsStay
<1>5. c \in saved'.state.turns[k]
  BY <1>1, <1>4 DEF NotRepeated
<1>6. k >= RepeatLimit =>
          \E j \in (k - RepeatLimit + 1)..k : c \notin saved'.state.turns[j]
  <2> SUFFICES ASSUME k >= RepeatLimit
               PROVE  \E j \in (k - RepeatLimit + 1)..k : c \notin saved'.state.turns[j]
    OBVIOUS
  <2>1. PICK j \in (k - RepeatLimit + 1)..k : c \notin saved.state.turns[j]
    BY DEF NotRepeated
  <2>2. j \in 1..k
    BY <1>1, <2>1
  <2> QED BY <1>4, <2>1, <2>2
<1> QED BY <1>1, <1>3, <1>5, <1>6 DEF NotRepeated

\* Steps that execute nothing.
LEMMA LoopKeeps ==
    ASSUME LoopIInv, CapIInv', TurnsStay, UNCHANGED done, PressedOnce
    PROVE  LoopInv'
<1> SUFFICES ASSUME NEW k \in Turns, NEW c \in Calls, done'[k][c] > 0
             PROVE  NotRepeated(k, c)'
  BY DEF LoopInv
<1>1. CapIInv /\ NotRepeated(k, c)
  BY DEF LoopIInv, RunIInv, LoopInv
<1> QED BY <1>1, NotRepeatedStays

\* The checkpoint and the copies of it grow by the turns of the model only.
LEMMA GrowsOnly ==
    ASSUME RunIInv, PressedOnce, [Next]_vars
    PROVE  TurnsStay
<1>0. CapIInv /\ TypeOK /\ OnePress
  BY DEF RunIInv, CapIInv, OnePressInv
<1> SUFFICES ASSUME saved # Null PROVE TurnsStay
  BY DEF TurnsStay
<1>1. saved \in Checkpoint /\ saved.state \in State /\ Len(saved.state.turns) \in Nat
  BY <1>0 DEF TypeOK, Checkpoint, State
<1>2. CASE UNCHANGED saved
  BY <1>1, <1>2 DEF TurnsStay
<1>3. ASSUME NEW i \in Invocations, AgentNode(i)
      PROVE  TurnsStay
  <2>1. PICK turn \in SUBSET Calls :
            Save([turns |-> Append(inv[i].state.turns, turn), answered |-> {}],
                 Route([turns |-> Append(inv[i].state.turns, turn), answered |-> {}],
                       inv[i].cap))
    BY <1>3 DEF AgentNode
  <2>2. inv[i].state = saved.state
    BY <1>0, <1>3 DEF AgentNode, At, OnePress, Decided
  <2>3. saved'.state.turns = Append(saved.state.turns, turn)
    BY <2>1, <2>2 DEF Save
  <2>4. saved' # Null
    <3> DEFINE state == [turns |-> Append(saved.state.turns, turn), answered |-> {}]
               next == Route(state, inv[i].cap)
    <3>1. saved' = [state |-> state, next |-> next]
      BY <2>1, <2>2 DEF Save
    <3>2. state \in State
      BY <1>1, AppendTurn
    <3>3. next \in Nodes
      BY DEF Route, Nodes
    <3> HIDE DEF state, next
    <3>4. saved' \in Checkpoint
      BY <3>1, <3>2, <3>3 DEF Checkpoint
    <3> QED BY <3>4, NullAssumption
  <2> QED BY <1>1, <2>3, <2>4 DEF TurnsStay, State
<1>4. ASSUME NEW i \in Invocations, inv[i] # Null, inv[i].at \in {"tools", "results"},
             NEW answered \in SUBSET Calls,
             Save([inv[i].state EXCEPT !.answered = answered], "agent")
      PROVE  TurnsStay
  <2>1. inv[i].state = saved.state
    BY <1>0, <1>4 DEF OnePress, Decided
  <2>2. saved' = [state |-> [saved.state EXCEPT !.answered = answered], next |-> "agent"]
    BY <1>4, <2>1 DEF Save
  <2>3. /\ [saved.state EXCEPT !.answered = answered] \in State
        /\ [saved.state EXCEPT !.answered = answered].turns = saved.state.turns
    BY <1>1 DEF State
  <2>4. saved' \in Checkpoint
    BY <2>2, <2>3 DEF Checkpoint, Nodes
  <2>5. saved' # Null /\ saved'.state.turns = saved.state.turns
    BY <2>2, <2>3, <2>4, NullAssumption
  <2> QED BY <1>1, <2>5 DEF TurnsStay
<1>5. ASSUME NEW i \in Invocations, AnswerConnect(i)
      PROVE  TurnsStay
  <2>1. PICK c \in Connecting(i) :
            Save([inv[i].state EXCEPT !.answered = {c}], "agent")
    BY <1>5 DEF AnswerConnect
  <2>2. {c} \in SUBSET Calls
    BY CallsAssumption DEF Connecting
  <2> QED BY <1>4, <1>5, <2>1, <2>2 DEF AnswerConnect, At
<1>6. ASSUME NEW i \in Invocations, Results(i)
      PROVE  TurnsStay
  <2>1. Turn(i) \in SUBSET Calls
    BY <1>0, <1>6, TurnType DEF Results, At
  <2> QED BY <1>4, <1>6, <2>1 DEF Results, At
<1>7. CASE Next
  <2>1. CASE Crash
    BY <1>2, <2>1 DEF Crash
  <2>2. ASSUME NEW i \in Invocations,
               \/ Start(i)
               \/ AgentNode(i) \/ Raises(i)
               \/ ToolsStep(i)
               \/ \E g \in DOMAIN gates : Press(i, g)
               \/ ResumeCheck(i) \/ ResumeInvoke(i)
        PROVE  TurnsStay
    <3>1. CASE AgentNode(i)
      BY <1>3, <3>1
    <3>2. CASE AnswerConnect(i)
      BY <1>5, <3>2
    <3>3. CASE Results(i)
      BY <1>6, <3>3
    <3>4. CASE ~AgentNode(i) /\ ~AnswerConnect(i) /\ ~Results(i)
      <4>1. UNCHANGED saved
        BY <2>2, <3>4 DEF Start, Raises, ToolsStep, Interrupt, PostGate, NoLink, Execute,
                          Press, ResumeCheck, ResumeInvoke
      <4> QED BY <1>2, <4>1
    <3> QED BY <3>1, <3>2, <3>3, <3>4
  <2> QED BY <1>7, <2>1, <2>2 DEF Next
<1> QED BY <1>2, <1>7 DEF vars

LEMMA LoopExecute ==
    ASSUME LoopIInv, NEW i \in Invocations, Execute(i), PressedOnce
    PROVE  LoopInv'
<1>1. /\ RunIInv /\ CapIInv /\ TypeOK /\ OnePress /\ LoopInv
      /\ inv[i] # Null /\ inv[i].at = "tools" /\ inv[i] \in Invocation
      /\ inv[i].state = saved.state /\ saved # Null
      /\ UNCHANGED saved
  BY DEF LoopIInv, RunIInv, CapIInv, TypeOK, CapInv, OnePressInv, OnePress, Execute, At,
         Decided
<1> DEFINE n == Len(saved.state.turns)
<1>2. n \in 1..(ProjectCap - 1) /\ n \in Turns /\ n \in Nat
  <2>1. n \in 1..(ProjectCap - 1)
    BY <1>1, TurnType
  <2> QED BY <2>1, CapAssumption DEF Turns
<1>3. \A c \in Calls : c \in Turn(i) /\ Allowed(i, c) => NotRepeated(n, c)
  <2> SUFFICES ASSUME NEW c \in Calls, c \in Turn(i), Allowed(i, c)
               PROVE  NotRepeated(n, c)
    OBVIOUS
  <2>1. ~Looping(saved.state, c)
    BY <1>1 DEF Allowed
  <2>2. c \in saved.state.turns[n]
    BY <1>1 DEF Turn, LastTurn
  <2>3. n >= RepeatLimit =>
            \E j \in (n - RepeatLimit + 1)..n : c \notin saved.state.turns[j]
    BY <2>1 DEF Looping
  <2> QED BY <1>1, <1>2, <2>2, <2>3 DEF NotRepeated
<1>4. done' = [done EXCEPT ![n] = [c \in Calls |->
                  IF c \in Turn(i) /\ Allowed(i, c) THEN @[c] + 1 ELSE @[c]]]
  BY <1>1 DEF Execute
<1> HIDE DEF n
<1>5. \A k \in Turns, c \in Calls :
          done'[k][c] = IF k = n /\ c \in Turn(i) /\ Allowed(i, c)
                        THEN done[k][c] + 1 ELSE done[k][c]
  BY <1>1, <1>2, <1>4 DEF TypeOK
<1> SUFFICES ASSUME NEW k \in Turns, NEW c \in Calls, done'[k][c] > 0
             PROVE  NotRepeated(k, c)'
  BY DEF LoopInv
<1>6. NotRepeated(k, c)
  <2>1. CASE k = n /\ c \in Turn(i) /\ Allowed(i, c)
    BY <1>3, <2>1
  <2>2. CASE ~(k = n /\ c \in Turn(i) /\ Allowed(i, c))
    <3>1. done[k][c] > 0
      BY <1>5, <2>2
    <3> QED BY <1>1, <3>1 DEF LoopInv
  <2> QED BY <2>1, <2>2
<1> QED BY <1>1, <1>6 DEF NotRepeated

\* A gate pressed twice has been pressed twice for good.
LEMMA PressedStays ==
    ASSUME TypeOK, [Next]_vars, PressedOnce'
    PROVE  PressedOnce
<1>1. CASE UNCHANGED gates
  BY <1>1 DEF PressedOnce
<1>2. ASSUME NEW i \in Invocations, PostGate(i)
      PROVE  PressedOnce
  <2>1. \A g \in DOMAIN gates : g \in DOMAIN gates' /\ gates'[g] = gates[g]
    BY <1>2 DEF PostGate, TypeOK
  <2> QED BY <2>1 DEF PressedOnce
<1>3. ASSUME NEW i \in Invocations, NEW g \in DOMAIN gates, Press(i, g)
      PROVE  PressedOnce
  <2>1. PICK d \in Decisions : gates' = [gates EXCEPT ![g] = Pressed(@, d)]
    BY <1>3 DEF Press
  <2>2. /\ DOMAIN gates' = DOMAIN gates /\ gates[g] \in Gate
        /\ gates'[g] = Pressed(gates[g], d)
        /\ \A h \in DOMAIN gates : h # g => gates'[h] = gates[h]
    BY <2>1 DEF TypeOK
  <2>3. gates'[g].presses = gates[g].presses + 1 /\ gates[g].presses \in Nat
    BY <2>2, PressedType DEF Gate
  <2> QED BY <2>2, <2>3 DEF PressedOnce
<1>4. CASE Next
  <2>1. CASE Crash
    BY <1>1, <2>1 DEF Crash
  <2>2. ASSUME NEW i \in Invocations,
               \/ Start(i)
               \/ AgentNode(i) \/ Raises(i)
               \/ ToolsStep(i)
               \/ \E g \in DOMAIN gates : Press(i, g)
               \/ ResumeCheck(i) \/ ResumeInvoke(i)
        PROVE  PressedOnce
    <3>1. CASE PostGate(i)
      BY <1>2, <3>1
    <3>2. CASE \E g \in DOMAIN gates : Press(i, g)
      BY <1>3, <3>2
    <3>3. CASE ~PostGate(i) /\ ~ \E g \in DOMAIN gates : Press(i, g)
      <4>1. UNCHANGED gates
        BY <2>2, <3>3 DEF Start, AgentNode, Raises, ToolsStep, AnswerConnect, Interrupt,
                          NoLink, Execute, Results, ResumeCheck, ResumeInvoke
      <4> QED BY <1>1, <4>1
    <3> QED BY <3>1, <3>2, <3>3
  <2> QED BY <1>4, <2>1, <2>2 DEF Next
<1> QED BY <1>1, <1>4 DEF vars

LEMMA LoopStep == LoopIInv /\ [Next]_vars => LoopIInv'
<1> SUFFICES ASSUME LoopIInv, [Next]_vars, PressedOnce' PROVE LoopInv'
  BY RunStep DEF LoopIInv, LoopInv
<1>1. RunIInv /\ CapIInv /\ TypeOK /\ CapIInv'
  BY CapStep DEF LoopIInv, RunIInv, CapIInv
<1>2. PressedOnce
  BY <1>1, PressedStays
<1>3. TurnsStay
  BY <1>1, <1>2, GrowsOnly
<1>4. CASE \E i \in Invocations : Execute(i)
  BY <1>2, <1>4, LoopExecute
<1>5. CASE ~ \E i \in Invocations : Execute(i)
  <2>1. UNCHANGED done
    BY <1>5 DEF Next, vars, Crash, Start, AgentNode, Raises, ToolsStep, AnswerConnect,
                Interrupt, PostGate, NoLink, Results, Press, ResumeCheck, ResumeInvoke
  <2> QED BY <1>1, <1>2, <1>3, <2>1, LoopKeeps
<1> QED BY <1>4, <1>5

\* While no button is pressed twice, a call the model repeats turn after turn
\* is executed in fewer than RepeatLimit of them in a row, across the pauses,
\* failures and crashes that make a node run again.
THEOREM LoopsEnd == Spec => []LoopIsBroken
<1>1. LoopIInv => LoopIsBroken
  <2> SUFFICES ASSUME LoopIInv, PressedOnce, NEW c \in Calls,
                      NEW k \in RepeatLimit..ProjectCap,
                      \A j \in (k - RepeatLimit + 1)..k : done[j][c] # 0
               PROVE  FALSE
    BY DEF LoopIsBroken
  <2>1. /\ k \in Turns /\ k >= RepeatLimit /\ k \in (k - RepeatLimit + 1)..k
        /\ \A j \in (k - RepeatLimit + 1)..k : j \in Turns
    BY CapAssumption DEF Turns
  <2>2. \A j \in Turns : done[j][c] \in Nat
    BY DEF LoopIInv, RunIInv, CapIInv, TypeOK
  <2>3. \A j \in (k - RepeatLimit + 1)..k : NotRepeated(j, c)
    BY <2>1, <2>2 DEF LoopIInv, LoopInv
  <2>4. \E j \in (k - RepeatLimit + 1)..k : c \notin saved.state.turns[j]
    BY <2>1, <2>3 DEF NotRepeated
  <2> QED BY <2>3, <2>4 DEF NotRepeated
<1> QED BY <1>1, LoopInit, LoopStep, PTL DEF Spec

-----------------------------------------------------------------------------
(* Nobody is stranded                                                      *)
StrandIInv == RunIInv /\ NobodyIsStranded

(* Either somebody works on the run or it is where it may rest.            *)
Resting ==
    \/ saved.next = "end"
    \/ LastTurn(saved.state) \cap Connects # {}
    \/ \E g \in DOMAIN gates : /\ gates[g].turn = Len(saved.state.turns)
                               /\ gates[g].presses = 0

\* An invocation that goes on is alive.
LEMMA GoesOn ==
    ASSUME TypeOK, NEW i \in Invocations, inv[i] # Null,
           NEW state \in State, NEW at \in Places,
           NEW decision \in Decisions \cup {Null},
           GoTo(i, state, at, decision)
    PROVE  inv'[i] # Null
<1>1. inv[i] \in Invocation
  BY DEF TypeOK
<1>2. inv'[i] = [state |-> state, at |-> at, cap |-> inv[i].cap, decision |-> decision]
  BY GoToOne
<1>3. inv'[i] \in Invocation
  BY <1>1, <1>2 DEF Invocation
<1> QED BY <1>3, NullAssumption

\* The only invocation ends and stores nothing: the run rests.
LEMMA RestsAtLast ==
    ASSUME RunIInv, PressedOnce', NEW i \in Invocations,
           \/ AgentNode(i) \/ PostGate(i) \/ NoLink(i)
           \/ ResumeCheck(i) \/ ResumeInvoke(i),
           inv'[i] = Null
    PROVE  Resting'
<1>0. TypeOK /\ CapIInv /\ saved # Null /\ inv[i] # Null
  BY DEF RunIInv, CapIInv, CapInv, AgentNode, PostGate, NoLink, ResumeCheck,
         ResumeInvoke, At
<1>1. ASSUME NEW state \in State, NEW at \in Places,
             NEW decision \in Decisions \cup {Null}, GoTo(i, state, at, decision)
      PROVE  FALSE
  BY <1>0, <1>1, GoesOn
<1>2. CASE AgentNode(i)
  <2>1. PICK turn \in SUBSET Calls :
            LET state == [turns |-> Append(inv[i].state.turns, turn), answered |-> {}]
                next == Route(state, inv[i].cap)
            IN  /\ Save(state, next)
                /\ IF next = "end" THEN Leave(i) ELSE GoTo(i, state, next, Null)
    BY <1>2 DEF AgentNode
  <2> DEFINE state == [turns |-> Append(inv[i].state.turns, turn), answered |-> {}]
             next == Route(state, inv[i].cap)
  <2>2. state \in State
    <3>1. inv[i].state \in State
      BY <1>0 DEF TypeOK, Invocation
    <3> QED BY <3>1, AppendTurn
  <2>3. next \in {"tools", "end"} /\ {"tools", "end"} \subseteq Places \cup {"end"}
    BY DEF Route, Places
  <2> HIDE DEF state, next
  <2>4. saved' = [state |-> state, next |-> next]
    BY <2>1 DEF Save, state, next
  <2>5. next = "end"
    <3> SUFFICES ASSUME next = "tools" PROVE FALSE
      BY <2>3
    <3>1. GoTo(i, state, "tools", Null)
      BY <2>1 DEF state, next
    <3>2. "tools" \in Places /\ Null \in Decisions \cup {Null}
      BY DEF Places
    <3> QED BY <1>1, <2>2, <3>1, <3>2
  <2> QED BY <2>4, <2>5 DEF Resting
<1>3. CASE PostGate(i) \/ NoLink(i)
  <2>1. PressedOnce /\ OnePress
    <3>1. \A g \in DOMAIN gates : g \in DOMAIN gates' /\ gates'[g] = gates[g]
      BY <1>0, <1>3 DEF PostGate, NoLink, TypeOK
    <3>2. PressedOnce
      BY <3>1 DEF PressedOnce
    <3> QED BY <3>2 DEF RunIInv, OnePressInv
  <2>2. inv[i].state = saved.state /\ UNCHANGED saved
    BY <1>0, <1>3, <2>1 DEF PostGate, NoLink, At, OnePress, Decided
  <2>3. CASE NoLink(i)
    BY <2>2, <2>3 DEF NoLink, Connecting, Turn, Resting
  <2>4. CASE PostGate(i)
    <3> DEFINE new == [turn |-> Len(inv[i].state.turns), presses |-> 0, decided |-> {},
                       calls |-> IF Connecting(i) # {} THEN Connecting(i) ELSE Gated(i)]
    <3>1. gates \in Seq(Gate) /\ gates' = Append(gates, new)
      BY <1>0, <2>4 DEF PostGate, TypeOK
    <3>2. new.turn = Len(inv[i].state.turns) /\ new.presses = 0
      OBVIOUS
    <3> HIDE DEF new
    <3>3. Len(gates') \in DOMAIN gates' /\ gates'[Len(gates')] = new
      BY <3>1
    <3> QED BY <2>2, <3>2, <3>3 DEF Resting
  <2> QED BY <1>3, <2>3, <2>4
<1>4. CASE ResumeCheck(i) \/ ResumeInvoke(i)
  <2>0. inv[i].decision \in Decisions \cup {Null} /\ saved \in Checkpoint
    BY <1>0 DEF TypeOK, Invocation
  <2>1. CASE saved.next = "end"
    BY <1>4, <2>1 DEF ResumeCheck, ResumeInvoke, Resting
  <2>2. CASE saved.next # "end"
    <3>1. CASE GoTo(i, Empty, "load", inv[i].decision)
      <4>1. Empty \in State /\ "load" \in Places
        BY EmptyType DEF Places
      <4> QED BY <1>1, <2>0, <3>1, <4>1
    <3>2. CASE GoTo(i, saved.state, saved.next,
                    IF saved.next = "tools" THEN inv[i].decision ELSE Null)
      <4> DEFINE decision == IF saved.next = "tools" THEN inv[i].decision ELSE Null
      <4>1. saved.state \in State /\ saved.next \in Places
        BY <2>0, <2>2 DEF Checkpoint, Nodes, Places
      <4>2. decision \in Decisions \cup {Null}
        BY <2>0
      <4>3. GoTo(i, saved.state, saved.next, decision)
        BY <3>2
      <4> HIDE DEF decision
      <4> QED BY <1>1, <4>1, <4>2, <4>3
    <3> QED BY <1>4, <2>2, <3>1, <3>2 DEF ResumeCheck, ResumeInvoke
  <2> QED BY <2>1, <2>2
<1> QED BY <1>2, <1>3, <1>4

LEMMA StrandInit == Init => StrandIInv
<1> SUFFICES ASSUME Init PROVE NobodyIsStranded
  BY RunInit DEF StrandIInv
<1> QED BY DEF Init, NobodyIsStranded

\* Steps of one invocation that leave it alive.
LEMMA StrandAlive ==
    ASSUME NEW i \in Invocations, inv'[i] # Null
    PROVE  NobodyIsStranded'
BY DEF NobodyIsStranded

LEMMA StrandStep == StrandIInv /\ [Next]_vars => StrandIInv'
<1> SUFFICES ASSUME StrandIInv, [Next]_vars, PressedOnce' PROVE NobodyIsStranded'
  BY RunStep DEF StrandIInv, NobodyIsStranded
<1>0. RunIInv /\ CapIInv /\ TypeOK /\ NobodyIsStranded
  BY DEF StrandIInv, RunIInv, CapIInv
<1>1. CASE UNCHANGED vars
  BY <1>0, <1>1 DEF vars, NobodyIsStranded, PressedOnce
<1>2. CASE Crash
  <2>1. crashes' = crashes + 1 /\ crashes \in 0..MaxCrashes
    BY <1>0, <1>2 DEF Crash, TypeOK
  <2>2. crashes' # 0
    BY <2>1, BoundsAssumption
  <2> QED BY <2>2 DEF NobodyIsStranded
<1>3. ASSUME NEW i \in Invocations, inv'[i] = Null,
             \/ Start(i)
             \/ AgentNode(i) \/ Raises(i)
             \/ ToolsStep(i)
             \/ \E g \in DOMAIN gates : Press(i, g)
             \/ ResumeCheck(i) \/ ResumeInvoke(i)
      PROVE  NobodyIsStranded'
  <2>1. CASE Raises(i)
    BY <2>1 DEF Raises, NobodyIsStranded
  <2>2. CASE AgentNode(i) \/ PostGate(i) \/ NoLink(i) \/ ResumeCheck(i) \/ ResumeInvoke(i)
    <3>1. Resting'
      BY <1>0, <1>3, <2>2, RestsAtLast
    <3> QED BY <3>1 DEF NobodyIsStranded, Resting
  <2>3. CASE Start(i)
    <3>1. PICK cap \in {Cap, ProjectCap} : inv' = [inv EXCEPT ![i] =
              [state |-> Empty, at |-> "agent", cap |-> cap, decision |-> Null]]
      BY <2>3 DEF Start
    <3>2. inv'[i] \in Invocation
      BY <1>0, <3>1, EmptyType DEF TypeOK, Invocation, Places
    <3> QED BY <1>3, <3>2, NullAssumption
  <2>4. ASSUME NEW g \in DOMAIN gates, Press(i, g)
        PROVE  NobodyIsStranded'
    <3>1. PICK d \in Decisions : inv' = [inv EXCEPT ![i] =
              [state |-> Empty, at |-> "check", cap |-> Cap, decision |-> d]]
      BY <2>4 DEF Press
    <3>2. inv'[i] \in Invocation
      BY <1>0, <3>1, EmptyType DEF TypeOK, Invocation, Places
    <3> QED BY <1>3, <3>2, NullAssumption
  <2>5. ASSUME NEW state \in State, NEW at \in Places, inv[i] # Null,
               NEW decision \in Decisions \cup {Null}, GoTo(i, state, at, decision)
        PROVE  FALSE
    BY <1>0, <1>3, <2>5, GoesOn
  <2>6. CASE Interrupt(i) \/ Execute(i)
    <3>1. /\ inv[i] # Null /\ inv[i].at = "tools"
          /\ \/ GoTo(i, inv[i].state, "post", Null)
             \/ GoTo(i, inv[i].state, "results", inv[i].decision)
      BY <2>6 DEF Interrupt, Execute, At
    <3>2. /\ inv[i].state \in State /\ {"post", "results"} \subseteq Places
          /\ inv[i].decision \in Decisions \cup {Null} /\ Null \in Decisions \cup {Null}
      BY <1>0, <3>1, TurnType DEF Places, Invocation
    <3> QED BY <2>5, <3>1, <3>2
  <2>7. ASSUME NEW answered \in SUBSET Calls, inv[i] # Null,
               inv[i].at \in {"tools", "results"},
               GoTo(i, [inv[i].state EXCEPT !.answered = answered], "agent", Null)
        PROVE  FALSE
    <3>1. inv[i].state \in State
      BY <1>0, <2>7, TurnType
    <3>2. [inv[i].state EXCEPT !.answered = answered] \in State
      BY <3>1 DEF State
    <3>3. "agent" \in Places /\ Null \in Decisions \cup {Null}
      BY DEF Places
    <3> QED BY <2>5, <2>7, <3>2, <3>3
  <2>8. CASE AnswerConnect(i)
    <3>1. PICK c \in Connecting(i) :
              GoTo(i, [inv[i].state EXCEPT !.answered = {c}], "agent", Null)
      BY <2>8 DEF AnswerConnect
    <3>2. {c} \in SUBSET Calls
      BY CallsAssumption DEF Connecting
    <3> QED BY <2>7, <2>8, <3>1, <3>2 DEF AnswerConnect, At
  <2>9. CASE Results(i)
    <3>1. inv[i] # Null /\ inv[i].at = "results"
      BY <2>9 DEF Results, At
    <3>2. Turn(i) \in SUBSET Calls
      BY <1>0, <3>1, TurnType
    <3> QED BY <2>7, <2>9, <3>1, <3>2 DEF Results
  <2> QED BY <1>3, <2>1, <2>2, <2>3, <2>4, <2>6, <2>8, <2>9 DEF ToolsStep
<1> QED BY <1>1, <1>2, <1>3, StrandAlive DEF Next

\* With no crash and no failure, a run that nobody works on is over, asked for
\* a connection, or has a gate that waits for its first press: it is never
\* left at a node with no button to go on.
THEOREM NobodyStrands == Spec => []NobodyIsStranded
<1>1. StrandIInv => NobodyIsStranded
  BY DEF StrandIInv
<1> QED BY <1>1, StrandInit, StrandStep, PTL DEF Spec
-----------------------------------------------------------------------------
(* What ScheduledTasks and Automations assume holds of their instances.     *)
LEMMA SchedulerConstants ==
    /\ Scheduler!TasksAssumption /\ Scheduler!NullAssumption
    /\ Scheduler!BoundsAssumption /\ Scheduler!RecordsAssumption
<1>1. Scheduler!TasksAssumption
  BY SchedulerAssumption DEF Scheduler!TasksAssumption
<1>2. Scheduler!NullAssumption
  BY SchedulerAssumption DEF Scheduler!NullAssumption
<1>3. Scheduler!BoundsAssumption
  BY SchedulerAssumption, BoundsAssumption DEF Scheduler!BoundsAssumption
<1>4. Scheduler!RecordsAssumption
  BY SchedulerAssumption DEF Scheduler!RecordsAssumption
<1> QED  BY <1>1, <1>2, <1>3, <1>4

LEMMA EventsConstants == Events!Constants
<1>1. Null \notin Nat
  BY SchedulerAssumption
<1>2. Null \notin Events!Row \cup Events!Call \cup Events!Fire \cup Events!Run \cup Nat
  BY <1>1, EventsAssumption
<1>3. Events!IsFiniteSet(Fires)
  BY EventsAssumption DEF IsFiniteSet, Events!IsFiniteSet
<1> QED  BY <1>2, <1>3, EventsAssumption DEF Events!Constants

(* The side that moves is chosen at the start, and behaves as its module    *)
(* says.                                                                    *)
LEMMA TasksSide == SideSpec /\ side = "tasks" => Scheduler!Spec
<1>1. SideInit /\ side = "tasks" => Scheduler!Init
  BY DEF SideInit
<1>2. side = "tasks" /\ [SideNext]_<<side, vars, tasks, automations>>
      => (side = "tasks")' /\ [Scheduler!Next]_(Scheduler!vars)
  BY DEF SideNext, RunMoves, TasksMove, AutomationsMove, tasks, Scheduler!vars
<1> QED  BY <1>1, <1>2, PTL DEF SideSpec, Scheduler!Spec

LEMMA EventsSide == SideSpec /\ side = "automations" => Events!Spec
<1>1. SideInit /\ side = "automations" => Events!Init
  BY DEF SideInit
<1>2. side = "automations" /\ [SideNext]_<<side, vars, tasks, automations>>
      => (side = "automations")' /\ [Events!Next]_(Events!vars)
  BY DEF SideNext, RunMoves, TasksMove, AutomationsMove, automations, Events!vars
<1> QED  BY <1>1, <1>2, PTL DEF SideSpec, Events!Spec

LEMMA SideStays ==
    /\ SideSpec /\ ~(side = "tasks") => []~(side = "tasks")
    /\ SideSpec /\ ~(side = "automations") => []~(side = "automations")
<1>1. ~(side = "tasks") /\ [SideNext]_<<side, vars, tasks, automations>> => (~(side = "tasks"))'
  BY DEF SideNext, RunMoves, TasksMove, AutomationsMove
<1>2. ~(side = "automations") /\ [SideNext]_<<side, vars, tasks, automations>>
      => (~(side = "automations"))'
  BY DEF SideNext, RunMoves, TasksMove, AutomationsMove
<1> QED  BY <1>1, <1>2, PTL DEF SideSpec

(* An instant at which a task is due is claimed once, by however many       *)
(* replicas that tick, crash and find statements failing                    *)
(* (app/scheduled_tasks/repository.py, claim_due_tasks).                    *)
THEOREM InstantFiresOnce == SideSpec => []OneFirePerInstant
<1>1. Scheduler!Spec => []Scheduler!OneFirePerInstant
  BY SchedulerConstants, Scheduler!MatchFiresOnce
<1>2. Scheduler!OneFirePerInstant => OneFirePerInstant
  BY DEF OneFirePerInstant
<1>3. ~(side = "tasks") => OneFirePerInstant
  BY DEF OneFirePerInstant
<1> QED  BY <1>1, <1>2, <1>3, TasksSide, SideStays, PTL

(* A one-shot that was posted and has no fire on its way is off the         *)
(* schedule, also when its fires overlapped                                 *)
(* (app/scheduled_tasks/repository.py, record_fire_finished).               *)
THEOREM OneShotStaysOff == SideSpec => []OneShotDisarmed
<1>1. Scheduler!Spec => []Scheduler!OneShotDisarmed
  BY SchedulerConstants, Scheduler!OneShotIsOff
<1>2. Scheduler!OneShotDisarmed => OneShotDisarmed
  BY DEF OneShotDisarmed
<1>3. ~(side = "tasks") => OneShotDisarmed
  BY DEF OneShotDisarmed
<1> QED  BY <1>1, <1>2, <1>3, TasksSide, SideStays, PTL

(* Until a crash or a failed statement a task that shows "running" has a    *)
(* fire on its way, also when its fires overlap and each records its        *)
(* outcome on the row it read (app/scheduled_tasks/repository.py,           *)
(* record_fire_finished).                                                   *)
THEOREM RunningStaysTrue == SideSpec => []RunningMeansRunning
<1>1. Scheduler!Spec => []Scheduler!RunningMeansRunning
  BY SchedulerConstants, Scheduler!RunningIsTrue
<1>2. Scheduler!RunningMeansRunning => RunningMeansRunning
  BY DEF RunningMeansRunning
<1>3. ~(side = "tasks") => RunningMeansRunning
  BY DEF RunningMeansRunning
<1> QED  BY <1>1, <1>2, <1>3, TasksSide, SideStays, PTL

(* A live trigger has an automation or a call that will bind or delete it,  *)
(* unless its removal failed, however the calls of different members        *)
(* overlap (app/automations/agent_tools.py).                                *)
THEOREM EveryTriggerIsHeld == SideSpec => []NoOrphanTrigger
<1>1. Events!Spec => []Events!NoOrphanTrigger
  BY EventsConstants, Events!TriggersHaveHolders
<1>2. Events!NoOrphanTrigger => NoOrphanTrigger
  BY DEF NoOrphanTrigger
<1>3. ~(side = "automations") => NoOrphanTrigger
  BY DEF NoOrphanTrigger
<1> QED  BY <1>1, <1>2, <1>3, EventsSide, SideStays, PTL

(* The row of a run has the prompt its task executes, and is "running" only *)
(* while the task lives, after a fault or after the automation is deleted   *)
(* (app/automations/router.py).                                             *)
THEOREM RunRowsStayTrue == SideSpec => []RunRowIsTrue
<1>1. Events!Spec => []Events!RunRowIsTrue
  BY EventsConstants, Events!RunRowsAreTrue
<1>2. Events!RunRowIsTrue => RunRowIsTrue
  BY DEF RunRowIsTrue
<1>3. ~(side = "automations") => RunRowIsTrue
  BY DEF RunRowIsTrue
<1> QED  BY <1>1, <1>2, <1>3, EventsSide, SideStays, PTL

(* An automation counts no fire that did not finish, although the second    *)
(* session of a fire writes a count that it read earlier                    *)
(* (app/automations/router.py).                                             *)
THEOREM BooksStayTrue == SideSpec => []BooksAgree
<1>1. Events!Spec => []Events!BooksAgree
  BY EventsConstants, Events!BooksNeverOvercount
<1>2. Events!BooksAgree => BooksAgree
  BY DEF BooksAgree
<1>3. ~(side = "automations") => BooksAgree
  BY DEF BooksAgree
<1> QED  BY <1>1, <1>2, <1>3, EventsSide, SideStays, PTL
=============================================================================
