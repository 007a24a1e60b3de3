------------------------------ MODULE AgentRun ------------------------------
(***************************************************************************)
(* One agent run: the graph of app/agent/graph.py on its LangGraph          *)
(* checkpoint, and resume_run of app/agent/runner.py, which goes on with it *)
(* after a button or a finished connection.                                 *)
(*                                                                          *)
(* Every invocation of the graph works on the copy it loaded and stores a   *)
(* checkpoint after each node.  A node that interrupts is executed again,   *)
(* from its start, by the invocation that resumes it.  The button carries   *)
(* the run and not the gate it was posted for.                              *)
(***************************************************************************)
EXTENDS Naturals, Sequences, FiniteSets

CONSTANTS
    Calls,        \* tool calls the model may make, name and input together
    Risky,        \* calls whose tool is risky, or whose risky_check says so
    Connects,     \* calls of request_integration
    Cap,          \* agent_max_iterations
    ProjectCap,   \* agent_max_iterations_project
    RepeatLimit,  \* LOOP_REPETITION_LIMIT
    Invocations,  \* slots for concurrent calls of ainvoke and resume_run
    Null,
    MaxPresses,   \* bound: presses of buttons and reports of connections
    MaxCrashes    \* bound: process crashes

ASSUME CallsAssumption ==
    /\ Risky \subseteq Calls
    /\ Connects \subseteq Calls \ Risky
ASSUME CapAssumption ==
    /\ {Cap, ProjectCap, RepeatLimit} \subseteq Nat \ {0}
    /\ Cap <= ProjectCap
ASSUME BoundsAssumption == {MaxPresses, MaxCrashes} \subseteq Nat

VARIABLES
    saved,   \* the checkpoint: turns, results of the last one, next node
    inv,     \* per invocation, its copy of the state and where it is
    gates,   \* approval gates and connect links posted, in order
    done,    \* per turn and call, executions of the tool's handler
    raised,  \* an invocation failed
    pressed, crashes

vars == <<saved, inv, gates, done, raised, pressed, crashes>>
-----------------------------------------------------------------------------
Turns == 1..ProjectCap

State == [turns : Seq(SUBSET Calls), answered : SUBSET Calls]

Nodes == {"agent", "tools", "end"}

Decisions == {"approve", "deny", "connected"}

Places == {"agent", "tools", "results", "post", "check", "load"}

Checkpoint == [state : State, next : Nodes]

Invocation == [state : State, at : Places, cap : {Cap, ProjectCap},
               decision : Decisions \cup {Null}]

Gate == [turn : Turns, calls : SUBSET Calls, presses : Nat,
         decided : SUBSET Decisions]

ASSUME NullAssumption == Null \notin Checkpoint \cup Invocation \cup Decisions

Empty == [turns |-> <<>>, answered |-> {}]

LastTurn(s) == s.turns[Len(s.turns)]

At(i, place) == inv[i] # Null /\ inv[i].at = place

GoTo(i, state, at, decision) ==
    inv' = [inv EXCEPT ![i] =
        [state |-> state, at |-> at, cap |-> @.cap, decision |-> decision]]

Leave(i) == inv' = [inv EXCEPT ![i] = Null]

Save(state, next) == saved' = [state |-> state, next |-> next]

Init ==
    /\ saved = Null
    /\ inv = [i \in Invocations |-> Null]
    /\ gates = <<>>
    /\ done = [k \in Turns |-> [c \in Calls |-> 0]]
    /\ raised = FALSE
    /\ pressed = 0
    /\ crashes = 0

(* Mutant: an override of 0 is taken for a cap. *)
StartWithoutDefault(i) ==
    /\ saved = Null
    /\ Save(Empty, "agent")
    /\ \E cap \in {0, ProjectCap} :
          inv' = [inv EXCEPT ![i] =
              [state |-> Empty, at |-> "agent", cap |-> cap, decision |-> Null]]
    /\ UNCHANGED <<gates, done, raised, pressed, crashes>>

(* _run_agent_impl: a project-style prompt gets the higher cap. *)
Start(i) ==
    /\ saved = Null
    /\ Save(Empty, "agent")
    /\ \E cap \in {Cap, ProjectCap} :
          inv' = [inv EXCEPT ![i] =
              [state |-> Empty, at |-> "agent", cap |-> cap, decision |-> Null]]
    /\ UNCHANGED <<gates, done, raised, pressed, crashes>>
-----------------------------------------------------------------------------
(* Mutant: the turn that reaches the cap still goes to the tools. *)
RouteAtCap(state, cap) ==
    IF LastTurn(state) # {} /\ Len(state.turns) <= cap THEN "tools" ELSE "end"

(* _route_after_agent. *)
Route(state, cap) ==
    IF LastTurn(state) # {} /\ Len(state.turns) < cap THEN "tools" ELSE "end"

(* _agent_node and the edge behind it: one turn of the model. *)
AgentNode(i) ==
    /\ At(i, "agent")
    /\ \E turn \in SUBSET Calls :
          LET state == [turns |-> Append(inv[i].state.turns, turn), answered |-> {}]
              next == Route(state, inv[i].cap)
          IN  /\ Save(state, next)
              /\ IF next = "end" THEN Leave(i) ELSE GoTo(i, state, next, Null)
    /\ UNCHANGED <<gates, done, raised, pressed, crashes>>

(* The model, the database or Slack fails: an apology is posted, or not even *)
(* that, and the checkpoint stays.                                          *)
Raises(i) ==
    /\ inv[i] # Null
    /\ Leave(i)
    /\ raised' = TRUE
    /\ UNCHANGED <<saved, gates, done, pressed, crashes>>
-----------------------------------------------------------------------------
(* _tools_node                                                              *)
Turn(i) == LastTurn(inv[i].state)

Connecting(i) == Turn(i) \cap Connects

Gated(i) == IF Connecting(i) # {} THEN {} ELSE Turn(i) \cap Risky

(* request_integration goes first and is all the node answers: connected or *)
(* asked for already, or, on resume, past the interrupt.                    *)
AnswerConnect(i) ==
    /\ At(i, "tools")
    /\ \E c \in Connecting(i) :
          LET state == [inv[i].state EXCEPT !.answered = {c}]
          IN  /\ Save(state, "agent")
              /\ GoTo(i, state, "agent", Null)
    /\ UNCHANGED <<gates, done, raised, pressed, crashes>>

(* _drive posts the gate or the connect link. *)
PostGate(i) ==
    /\ At(i, "post")
    /\ gates' = Append(gates,
          [turn |-> Len(inv[i].state.turns), presses |-> 0, decided |-> {},
           calls |-> IF Connecting(i) # {} THEN Connecting(i) ELSE Gated(i)])
    /\ Leave(i)
    /\ UNCHANGED <<saved, done, raised, pressed, crashes>>

(* start_connect posts no link: connected meanwhile, or none to be had.      *)
NoLink(i) ==
    /\ At(i, "post")
    /\ Connecting(i) # {}
    /\ Leave(i)
    /\ UNCHANGED <<saved, gates, done, raised, pressed, crashes>>

(* Mutant: the current turn is not counted. *)
LoopingLate(state, c) ==
    LET n == Len(state.turns) IN
    n > RepeatLimit /\ \A k \in (n - RepeatLimit)..n : c \in state.turns[k]

(* _recent_repeat_count: the call is in each of the last turns. *)
Looping(state, c) ==
    LET n == Len(state.turns) IN
    n >= RepeatLimit /\ \A k \in (n - RepeatLimit + 1)..n : c \in state.turns[k]

(* Mutant: a rejected call is executed as well. *)
AllowedIfDecided(i, c) ==
    /\ c \in Risky => inv[i].decision # Null
    /\ ~Looping(inv[i].state, c)

(* The handler of a call is executed: not rejected, not a loop. *)
Allowed(i, c) ==
    /\ c \in Risky => inv[i].decision = "approve"
    /\ ~Looping(inv[i].state, c)

(* Mutant: the harmless calls of the turn are executed before the interrupt. *)
InterruptAfterHarmless(i) ==
    /\ At(i, "tools")
    /\ inv[i].decision = Null
    /\ Connecting(i) # {} \/ Gated(i) # {}
    /\ done' = [done EXCEPT ![Len(inv[i].state.turns)] = [c \in Calls |->
                   IF c \in Turn(i) \ (Risky \cup Connects)
                   THEN @[c] + 1 ELSE @[c]]]
    /\ GoTo(i, inv[i].state, "post", Null)
    /\ UNCHANGED <<saved, gates, raised, pressed, crashes>>

(* Mutant: a gate is posted once for a run. *)
InterruptOncePerRun(i) ==
    /\ At(i, "tools")
    /\ inv[i].decision = Null
    /\ Connecting(i) # {} \/ Gated(i) # {}
    /\ IF gates = <<>> THEN GoTo(i, inv[i].state, "post", Null) ELSE Leave(i)
    /\ UNCHANGED <<saved, gates, done, raised, pressed, crashes>>

(* interrupt(): the graph returns, with the node still to be done. *)
Interrupt(i) ==
    /\ At(i, "tools")
    /\ inv[i].decision = Null
    /\ Connecting(i) # {} \/ Gated(i) # {}
    /\ GoTo(i, inv[i].state, "post", Null)
    /\ UNCHANGED <<saved, gates, done, raised, pressed, crashes>>

Execute(i) ==
    /\ At(i, "tools")
    /\ Connecting(i) = {}
    /\ Gated(i) # {} => inv[i].decision # Null
    /\ done' = [done EXCEPT ![Len(inv[i].state.turns)] = [c \in Calls |->
                   IF c \in Turn(i) /\ Allowed(i, c) THEN @[c] + 1 ELSE @[c]]]
    /\ GoTo(i, inv[i].state, "results", inv[i].decision)
    /\ UNCHANGED <<saved, gates, raised, pressed, crashes>>

(* Mutant: a rejected or refused call gets no result. *)
ResultsOfExecuted(i) ==
    LET state == [inv[i].state EXCEPT !.answered = {c \in Turn(i) : Allowed(i, c)}] IN
    /\ At(i, "results")
    /\ Save(state, "agent")
    /\ GoTo(i, state, "agent", Null)
    /\ UNCHANGED <<gates, done, raised, pressed, crashes>>

(* The node returns one result per call, and the checkpoint is stored. *)
Results(i) ==
    LET state == [inv[i].state EXCEPT !.answered = Turn(i)] IN
    /\ At(i, "results")
    /\ Save(state, "agent")
    /\ GoTo(i, state, "agent", Null)
    /\ UNCHANGED <<gates, done, raised, pressed, crashes>>
-----------------------------------------------------------------------------
Pressed(gate, d) ==
    [turn |-> gate.turn, calls |-> gate.calls,
     presses |-> gate.presses + 1, decided |-> gate.decided \cup {d}]

(* A button of a gate is pressed, or the connection of a link reported.     *)
Press(i, g) ==
    /\ inv[i] = Null
    /\ pressed < MaxPresses
    /\ pressed' = pressed + 1
    /\ \E d \in Decisions :
          /\ d = "connected" <=> gates[g].calls \subseteq Connects
          /\ gates' = [gates EXCEPT ![g] = Pressed(@, d)]
          /\ inv' = [inv EXCEPT ![i] =
              [state |-> Empty, at |-> "check", cap |-> Cap, decision |-> d]]
    /\ UNCHANGED <<saved, done, raised, crashes>>

(* aget_state: a run with no next node is left alone. *)
ResumeCheck(i) ==
    /\ At(i, "check")
    /\ IF saved.next = "end" THEN Leave(i)
       ELSE GoTo(i, Empty, "load", inv[i].decision)
    /\ UNCHANGED <<saved, gates, done, raised, pressed, crashes>>

(* ainvoke(Command(resume)): from the next node of the checkpoint as it is  *)
(* now.  Only an interrupt of that node takes the decision; a finished run  *)
(* is returned as it is.                                                    *)
ResumeInvoke(i) ==
    /\ At(i, "load")
    /\ IF saved.next = "end" THEN Leave(i)
       ELSE GoTo(i, saved.state, saved.next,
                 IF saved.next = "tools" THEN inv[i].decision ELSE Null)
    /\ UNCHANGED <<saved, gates, done, raised, pressed, crashes>>

Crash ==
    /\ crashes < MaxCrashes
    /\ crashes' = crashes + 1
    /\ inv' = [i \in Invocations |-> Null]
    /\ UNCHANGED <<saved, gates, done, raised, pressed>>
-----------------------------------------------------------------------------
ToolsStep(i) ==
    \/ AnswerConnect(i) \/ Interrupt(i) \/ PostGate(i) \/ NoLink(i)
    \/ Execute(i) \/ Results(i)

Next ==
    \/ Crash
    \/ \E i \in Invocations :
          \/ Start(i)
          \/ AgentNode(i) \/ Raises(i)
          \/ ToolsStep(i)
          \/ \E g \in DOMAIN gates : Press(i, g)
          \/ ResumeCheck(i) \/ ResumeInvoke(i)

Spec == Init /\ [][Next]_vars
-----------------------------------------------------------------------------
(* Type correctness of every variable. *)
TypeOK ==
    /\ saved \in Checkpoint \cup {Null}
    /\ inv \in [Invocations -> Invocation \cup {Null}]
    /\ gates \in Seq(Gate)
    /\ done \in [Turns -> [Calls -> Nat]]
    /\ raised \in BOOLEAN
    /\ pressed \in 0..MaxPresses
    /\ crashes \in 0..MaxCrashes

PressedOnce == \A g \in DOMAIN gates : gates[g].presses <= 1

(* A risky call is executed only after a gate that showed that very call of *)
(* that very turn was approved.                                             *)
ShownAndApproved(k, c) ==
    \E g \in DOMAIN gates : /\ gates[g].turn = k /\ c \in gates[g].calls
                            /\ "approve" \in gates[g].decided

(* While no button is pressed twice, nothing risky runs without its own     *)
(* approval, whichever turns pause, crash and resume in between.            *)
RiskyIsApproved ==
    PressedOnce =>
        \A k \in Turns, c \in Risky : done[k][c] > 0 => ShownAndApproved(k, c)

(* While no button is pressed twice, a resumed node does not repeat what it *)
(* did: each call of each turn is executed at most once, also when the      *)
(* process dies between a tool's effect and the checkpoint.                 *)
ExecutedAtMostOnce ==
    PressedOnce => \A k \in Turns, c \in Calls : done[k][c] <= 1

(* The run never makes more model calls than the larger cap, across pauses  *)
(* that forget which cap it had, and runs no tools at its last one.         *)
CapHolds ==
    /\ saved # Null => Len(saved.state.turns) <= ProjectCap
    /\ \A c \in Calls : done[ProjectCap][c] = 0

(* A call repeated turn after turn is executed in fewer than RepeatLimit    *)
(* turns in a row.                                                          *)
LoopIsBroken ==
    PressedOnce =>
        \A c \in Calls, k \in RepeatLimit..ProjectCap :
            \E j \in (k - RepeatLimit + 1)..k : done[j][c] = 0

(* The model is called with a result for every call of its last turn, where *)
(* that turn asked for no connection.                                       *)
CallsAreAnswered ==
    \A i \in Invocations :
        At(i, "agent") /\ inv[i].state.turns # <<>> /\ Connecting(i) = {}
            => inv[i].state.answered = Turn(i)

(* With no crash and no failed invocation, a run nobody is working on is    *)
(* over, or asked for a connection, or waits at a gate posted for its last  *)
(* turn and not yet pressed.                                                *)
NobodyIsStranded ==
    /\ ~raised /\ crashes = 0 /\ PressedOnce
    /\ saved # Null
    /\ \A i \in Invocations : inv[i] = Null
    => \/ saved.next = "end"
       \/ LastTurn(saved.state) \cap Connects # {}
       \/ \E g \in DOMAIN gates : /\ gates[g].turn = Len(saved.state.turns)
                                  /\ gates[g].presses = 0

(* Claimed by resume_run: repeated clicks are covered by the check for a    *)
(* pending step, so a decision reaches no gate but the one it was made for. *)
DecisionsStayWithTheirGate ==
    \A k \in Turns, c \in Risky : done[k][c] > 0 => ShownAndApproved(k, c)

=============================================================================
