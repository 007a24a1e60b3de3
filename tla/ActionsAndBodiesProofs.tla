------------------------ MODULE ActionsAndBodiesProofs ------------------------
(***************************************************************************)
(* What IntegrationActions promises, for any members, accounts, windows of  *)
(* time and changes; and then what SkillBodies promises, as `Bodies` of     *)
(* MCActionsAndBodies, for any writers, facts, versions and faults.         *)
(***************************************************************************)
EXTENDS MCActionsAndBodies, TLAPS

-----------------------------------------------------------------------------
(* The inductive invariant                                                  *)

(* The steps at which a call holds a row. *)
Holding == {"provider", "validate", "spec", "waiting", "locked", "send", "direct", "attach"}

(* A call that holds a row holds its caller's or the team's. *)
HoldsOwn(c, k) ==
    k.at \in Holding => k.row \in [place : {c, "team", "labelled"}, account : Accounts]

(* Who waits has asked before. *)
AskedBefore(k) == k.at \in {"waiting", "locked"} => k.asked \in 0..now

(* The windows a sweep has left behind, and what it answers. *)
Swept(k) ==
    /\ k.at = "idle" => k.window = 0
    /\ k.needle \cap 1..(k.window - 1) \subseteq k.failed
    /\ k.at # "done" => k.failed \subseteq 1..(k.window - 1)
    /\ k.at = "done" /\ k.window > 0 =>
          /\ k.answer = "hit" => k.window \in k.needle \ k.failed
          /\ k.answer = "none" => k.needle \subseteq k.failed

CallInv == \A c \in Callers : HoldsOwn(c, call[c]) /\ AskedBefore(call[c]) /\ Swept(call[c])

(* What is cached was the schema when it was put there. *)
CacheWasTrue ==
    cache # Null =>
        /\ cache.version <= schema /\ cache.at <= now
        /\ until[cache.version] = Null \/ cache.at <= until[cache.version]

SchemaInv ==
    /\ now <= changes
    /\ \A v \in Version : v >= schema => until[v] = Null
    /\ CacheWasTrue

IInv == TypeOK /\ CallInv /\ SchemaInv

(* When the caller asked for the schema, or asks now. *)
AskedAt(k) == IF k.at = "spec" THEN now ELSE k.asked

(* What SchemaLags and OthersCredentials say of one step of one call. *)
LagOf(c) ==
    LET v == call'[c].spec IN
    call[c].spec = Null /\ v # Null => until[v] = Null \/ AskedAt(call[c]) - until[v] < Lifetime

OthersOf(c) ==
    call[c].creds = Null /\ call'[c].creds \in Members \ {c} => call[c].row.place \notin Found

LagStep == \A c \in Callers : LagOf(c) /\ OthersOf(c)
-----------------------------------------------------------------------------
(* What a step of a call writes                                             *)

(* The fields of a call. *)
LEMMA CallShape ==
    ASSUME NEW k \in Called
    PROVE  /\ k.at \in Steps /\ k.row \in [place : Places, account : Accounts] \cup {Null}
           /\ k.provider \in Providers \cup {Null} /\ k.spec \in Version \cup {Null}
           /\ k.asked \in (0..MaxChanges) \cup {Null} /\ k.window \in 0..MaxWindows
           /\ k.needle \in SUBSET (1..MaxWindows) /\ k.failed \in SUBSET (1..MaxWindows)
           /\ k.answer \in Answers \cup {Null}
  BY DEF Called

(* A call that is not running is a call. *)
LEMMA IdleIsCall == Idle \in Called
<1>1. 0 \in 0..MaxWindows
  BY BoundsAssumption
<1> QED  BY <1>1 DEF Idle, Called, Steps

(* An invariant that speaks of each call by itself needs a look at the one  *)
(* that moves.                                                              *)
LEMMA OneCallMoves ==
    ASSUME IInv, NEW c \in Callers,
           UNCHANGED <<rows, account, schema, now, until, changes>>,
           call' \in [Callers -> Called],
           \A d \in Callers \ {c} : call'[d] = call[d],
           HoldsOwn(c, call'[c]), AskedBefore(call'[c]), Swept(call'[c]),
           cache' \in [version : Version, at : 0..MaxChanges] \cup {Null},
           CacheWasTrue',
           \A d \in Callers : call'[d].at = "locked" <=> lock' = d
    PROVE  IInv'
<1>1. TypeOK'
  BY DEF IInv, TypeOK
<1>2. CallInv'
  <2> SUFFICES ASSUME NEW d \in Callers
               PROVE  (HoldsOwn(d, call[d]) /\ AskedBefore(call[d]) /\ Swept(call[d]))'
    BY DEF CallInv
  <2>1. CASE d = c
    BY <2>1 DEF HoldsOwn, AskedBefore
  <2>2. CASE d # c
    BY <2>2 DEF IInv, CallInv, HoldsOwn, AskedBefore
  <2> QED  BY <2>1, <2>2
<1>3. SchemaInv'
  BY DEF IInv, SchemaInv
<1> QED  BY <1>1, <1>2, <1>3 DEF IInv

(* A step of one call is answered for by that call. *)
LEMMA OneCallAnswers ==
    ASSUME NEW c \in Callers, \A d \in Callers \ {c} : call'[d] = call[d], LagOf(c), OthersOf(c)
    PROVE  LagStep
  BY NullAssumption DEF LagStep, LagOf, OthersOf

(* The three records a return may write. *)
LEMMA AnswerShape ==
    ASSUME NEW k \in Called, k.window = 0, k.needle = {}, k.failed = {}, k.creds = Null,
           k.spec = Null, NEW answer \in Answers
    PROVE  LET new == [k EXCEPT !.at = "done", !.answer = answer] IN
           new \in Called /\ new.at = "done" /\ new.creds = Null /\ new.spec = Null /\ Swept(new)
<1> DEFINE new == [k EXCEPT !.at = "done", !.answer = answer]
<1>1. /\ new \in Called /\ new.at = "done" /\ new.creds = Null /\ new.spec = Null
      /\ new.window = 0 /\ new.needle = {} /\ new.failed = {}
  BY DEF Called, Steps
<1> HIDE DEF new
<1>2. Swept(new)
  BY <1>1 DEF Swept
<1> QED  BY <1>1, <1>2 DEF new

LEMMA EndShape ==
    ASSUME NEW k \in Called, k.creds = Null, k.spec = Null, NEW answer \in {"hit", "none"},
           k.needle \cap 1..(k.window - 1) \subseteq k.failed,
           answer = "hit" => k.window \in k.needle \ k.failed,
           answer = "none" => k.needle \subseteq k.failed
    PROVE  LET new == [k EXCEPT !.at = "done", !.answer = answer] IN
           new \in Called /\ new.at = "done" /\ new.creds = Null /\ new.spec = Null /\ Swept(new)
<1> DEFINE new == [k EXCEPT !.at = "done", !.answer = answer]
<1>1. /\ new \in Called /\ new.at = "done" /\ new.creds = Null /\ new.spec = Null
      /\ new.window = k.window /\ new.needle = k.needle /\ new.failed = k.failed
      /\ new.answer = answer
  BY DEF Called, Steps, Answers
<1> HIDE DEF new
<1>2. Swept(new)
  BY <1>1 DEF Swept
<1> QED  BY <1>1, <1>2 DEF new

LEMMA NextWindowShape ==
    ASSUME NEW k \in Called, k.creds = Null, k.spec = Null, k.window + 1 \in 0..MaxWindows,
           k.needle \cap 1..((k.window + 1) - 1) \subseteq k.failed,
           k.failed \subseteq 1..((k.window + 1) - 1)
    PROVE  LET new == [k EXCEPT !.at = "connection", !.window = @ + 1] IN
           new \in Called /\ new.at = "connection" /\ new.creds = Null /\ new.spec = Null /\ Swept(new)
<1> DEFINE window == k.window + 1
           new == [k EXCEPT !.at = "connection", !.window = window]
<1>1. window \in 0..MaxWindows
  OBVIOUS
<1> HIDE DEF window
<1>2. /\ new \in Called /\ new.at = "connection" /\ new.creds = Null /\ new.spec = Null
      /\ new.window = window /\ new.needle = k.needle /\ new.failed = k.failed
  BY <1>1 DEF Called, Steps
<1>3. new = [k EXCEPT !.at = "connection", !.window = @ + 1]
  BY DEF window
<1> HIDE DEF new
<1>4. Swept(new)
  BY <1>2 DEF Swept, window
<1> QED  BY <1>2, <1>3, <1>4

(* run_action returns, or the next window of the sweep begins. *)
LEMMA ReturnWrites ==
    ASSUME IInv, NEW c \in Callers, call[c].at # "done",
           NEW answer \in Answers \ {"hit", "none"}, Return(c, answer)
    PROVE  /\ call' \in [Callers -> Called]
           /\ \A d \in Callers \ {c} : call'[d] = call[d]
           /\ call'[c].at \in {"done", "connection"}
           /\ call'[c].creds = Null /\ call'[c].spec = Null /\ Swept(call'[c])
<1> DEFINE k == call[c]
           found == answer = "ok" /\ k.window \in k.needle
           failed == IF answer = "ok" THEN k.failed ELSE k.failed \cup {k.window}
           swept == [Idle EXCEPT !.window = k.window, !.needle = k.needle, !.failed = failed]
           Good(w) == /\ w \in Called /\ w.at \in {"done", "connection"}
                      /\ w.creds = Null /\ w.spec = Null /\ Swept(w)
<1>1. call \in [Callers -> Called] /\ k \in Called /\ Swept(k)
  BY DEF IInv, TypeOK, CallInv
<1>2. k.window \in 0..MaxWindows /\ k.needle \subseteq 1..MaxWindows
      /\ k.failed \subseteq 1..MaxWindows
  BY <1>1, CallShape
<1>3. MaxWindows \in Nat
  BY BoundsAssumption
<1>4. k.needle \cap 1..(k.window - 1) \subseteq k.failed /\ k.failed \subseteq 1..(k.window - 1)
  BY <1>1 DEF Swept
<1>5. ASSUME NEW w, Good(w), call' = [call EXCEPT ![c] = w]
      PROVE  /\ call' \in [Callers -> Called]
             /\ \A d \in Callers \ {c} : call'[d] = call[d]
             /\ call'[c].at \in {"done", "connection"}
             /\ call'[c].creds = Null /\ call'[c].spec = Null /\ Swept(call'[c])
  BY <1>1, <1>5
<1>6. CASE k.window = 0 \/ answer = "raised"
  <2>1. call' = [call EXCEPT ![c] = [Idle EXCEPT !.at = "done", !.answer = answer]]
    BY <1>6 DEF Return, Done
  <2>2. Good([Idle EXCEPT !.at = "done", !.answer = answer])
    <3>1. /\ Idle \in Called /\ Idle.window = 0 /\ Idle.needle = {} /\ Idle.failed = {}
          /\ Idle.creds = Null /\ Idle.spec = Null
      BY IdleIsCall DEF Idle
    <3> QED  BY <3>1, AnswerShape
  <2> HIDE DEF Good
  <2> QED  BY <1>5, <2>1, <2>2
<1>7. CASE ~(k.window = 0 \/ answer = "raised")
  <2>1. call' = [call EXCEPT ![c] =
          IF found THEN [swept EXCEPT !.at = "done", !.answer = "hit"]
          ELSE IF k.window = MaxWindows THEN [swept EXCEPT !.at = "done", !.answer = "none"]
          ELSE [swept EXCEPT !.at = "connection", !.window = @ + 1]]
    BY <1>7 DEF Return
  <2>2. failed \subseteq 1..MaxWindows /\ k.window \in 0..MaxWindows
    BY <1>2, <1>3, <1>7
  <2>3. /\ swept \in Called /\ swept.creds = Null /\ swept.spec = Null
        /\ swept.window = k.window /\ swept.needle = k.needle /\ swept.failed = failed
    <3>1. Idle \in Called /\ Idle.answer = Null /\ Idle.creds = Null /\ Idle.spec = Null
      BY IdleIsCall DEF Idle
    <3> DEFINE window == k.window
               needle == k.needle
               new == [Idle EXCEPT !.window = window, !.needle = needle, !.failed = failed]
    <3>2. /\ window \in 0..MaxWindows /\ needle \in SUBSET (1..MaxWindows)
          /\ failed \in SUBSET (1..MaxWindows)
      BY <1>2, <2>2
    <3> HIDE DEF failed, window, needle
    <3>3. /\ new \in Called /\ new.creds = Null /\ new.spec = Null
          /\ new.window = window /\ new.needle = needle /\ new.failed = failed
      BY <3>1, <3>2 DEF Called
    <3> QED  BY <3>3 DEF window, needle
  <2>4. CASE found
    <3>1. k.window \in k.needle \ failed /\ k.needle \cap 1..(k.window - 1) \subseteq failed
      BY <1>2, <1>3, <1>4, <2>4
    <3>2. Good([swept EXCEPT !.at = "done", !.answer = "hit"])
      <4> HIDE DEF swept, k, failed
      <4> QED  BY <2>3, <3>1, EndShape
    <3> HIDE DEF Good, swept
    <3> QED  BY <1>5, <2>1, <2>4, <3>2
  <2>5. CASE ~found /\ k.window = MaxWindows
    <3>1. k.needle \subseteq failed /\ k.needle \cap 1..(k.window - 1) \subseteq failed
      BY <1>2, <1>3, <1>4, <2>5
    <3>2. Good([swept EXCEPT !.at = "done", !.answer = "none"])
      <4> HIDE DEF swept, k, failed
      <4> QED  BY <2>3, <3>1, EndShape
    <3> HIDE DEF Good, swept
    <3> QED  BY <1>5, <2>1, <2>5, <3>2
  <2>6. CASE ~found /\ k.window # MaxWindows
    <3>1. /\ k.window + 1 \in 0..MaxWindows /\ failed \subseteq 1..((k.window + 1) - 1)
          /\ k.needle \cap 1..((k.window + 1) - 1) \subseteq failed
      BY <1>2, <1>3, <1>4, <1>7, <2>6
    <3>2. Good([swept EXCEPT !.at = "connection", !.window = @ + 1])
      <4> HIDE DEF swept, k, failed
      <4> QED  BY <2>3, <3>1, NextWindowShape
    <3> HIDE DEF Good, swept
    <3> QED  BY <1>5, <2>1, <2>6, <3>2
  <2> QED  BY <2>4, <2>5, <2>6
<1> HIDE DEF k
<1> QED  BY <1>6, <1>7

(* A call that goes on to a later step stays in its window. *)
LEMMA GoesOn ==
    ASSUME IInv, NEW c \in Callers, call[c].at # "done",
           NEW k \in Called, call' = [call EXCEPT ![c] = k],
           k.at \notin {"done", "idle"}, k.window = call[c].window, k.needle = call[c].needle,
           k.failed = call[c].failed
    PROVE  /\ call' \in [Callers -> Called] /\ call'[c] = k
           /\ \A d \in Callers \ {c} : call'[d] = call[d]
           /\ Swept(call'[c])
<1>1. call \in [Callers -> Called] /\ Swept(call[c])
  BY DEF IInv, TypeOK, CallInv
<1>2. call'[c] = k
  BY <1>1
<1>3. Swept(k)
  BY <1>1 DEF Swept
<1> QED  BY <1>1, <1>2, <1>3

(* A call that returns holds no row and no lock. *)
LEMMA ReturnKeeps ==
    ASSUME IInv, NEW c \in Callers, call[c].at \notin {"done", "locked"},
           NEW answer \in Answers \ {"hit", "none"}, Return(c, answer),
           UNCHANGED <<rows, account, schema, now, until, cache, lock, changes>>
    PROVE  IInv' /\ LagStep
<1>1. /\ call' \in [Callers -> Called]
      /\ \A d \in Callers \ {c} : call'[d] = call[d]
      /\ call'[c].at \in {"done", "connection"}
      /\ call'[c].creds = Null /\ call'[c].spec = Null /\ Swept(call'[c])
  BY ReturnWrites
<1>2. HoldsOwn(c, call'[c]) /\ AskedBefore(call'[c])
  BY <1>1 DEF HoldsOwn, AskedBefore, Holding
<1>3. /\ cache' \in [version : Version, at : 0..MaxChanges] \cup {Null}
      /\ CacheWasTrue'
  BY DEF IInv, TypeOK, SchemaInv, CacheWasTrue
<1>4. \A d \in Callers : call'[d].at = "locked" <=> lock' = d
  BY <1>1 DEF IInv, TypeOK
<1>5. IInv'
  BY <1>1, <1>2, <1>3, <1>4, OneCallMoves
<1>6. LagStep
  BY <1>1, OneCallAnswers, NullAssumption DEF LagOf, OthersOf
<1> QED  BY <1>5, <1>6

(* What the model is told of an error is advice. *)
LEMMA AdviceIsAnswer == \A advised : Advice(advised) \in Answers \ {"hit", "none"}
  BY DEF Advice, Answers, Advices
(* A step that moves a call to a later step and leaves the schema alone. *)
LEMMA GoesOnKeeps ==
    ASSUME IInv, NEW c \in Callers, call[c].at \notin {"done", "locked"},
           NEW k \in Called, call' = [call EXCEPT ![c] = k],
           k.at \notin {"done", "idle", "locked"}, k.window = call[c].window,
           k.needle = call[c].needle, k.failed = call[c].failed,
           HoldsOwn(c, k), AskedBefore(k),
           k.spec = call[c].spec, k.creds # call[c].creds => OthersOf(c),
           UNCHANGED <<rows, account, schema, now, until, cache, lock, changes>>
    PROVE  IInv' /\ LagStep
<1>1. /\ call' \in [Callers -> Called] /\ call'[c] = k
      /\ \A d \in Callers \ {c} : call'[d] = call[d]
      /\ Swept(call'[c])
  BY GoesOn
<1>2. /\ cache' \in [version : Version, at : 0..MaxChanges] \cup {Null}
      /\ CacheWasTrue'
  BY DEF IInv, TypeOK, SchemaInv, CacheWasTrue
<1>3. \A d \in Callers : call'[d].at = "locked" <=> lock' = d
  BY <1>1 DEF IInv, TypeOK
<1>4. IInv'
  BY <1>1, <1>2, <1>3, OneCallMoves
<1>5. LagStep
  BY <1>1, OneCallAnswers, NullAssumption DEF LagOf, OthersOf
<1> QED  BY <1>4, <1>5
-----------------------------------------------------------------------------
(* The steps of a call *)

LEMMA BeginKeeps ==
    ASSUME IInv, NEW c \in Callers, Begin(c)
    PROVE  IInv' /\ LagStep
<1>1. call \in [Callers -> Called] /\ call[c] \in Called
  BY DEF IInv, TypeOK
<1>2. call[c].at = "idle" /\ HoldsOwn(c, call[c]) /\ AskedBefore(call[c]) /\ Swept(call[c])
  BY DEF Begin, IInv, CallInv
<1>4. UNCHANGED <<rows, account, schema, now, until, cache, lock, changes>>
  BY DEF Begin
<1>5. CASE Go(c, "connection")
  <2> DEFINE k == [call[c] EXCEPT !.at = "connection"]
  <2>1. call' = [call EXCEPT ![c] = k]
    BY <1>5, <1>1 DEF Go
  <2>2. /\ k \in Called /\ k.at = "connection" /\ k.creds = call[c].creds
        /\ k.window = call[c].window /\ k.needle = call[c].needle
        /\ k.failed = call[c].failed /\ k.spec = call[c].spec
    BY <1>1 DEF Called, Steps
  <2> HIDE DEF k
  <2>3. HoldsOwn(c, k) /\ AskedBefore(k)
    BY <2>2 DEF HoldsOwn, AskedBefore, Holding
  <2> QED  BY <1>2, <1>4, <2>1, <2>2, <2>3, GoesOnKeeps
<1>6. ASSUME NEW needle \in SUBSET (1..MaxWindows),
             call' = [call EXCEPT ![c].at = "connection", ![c].window = 1, ![c].needle = needle]
      PROVE  IInv' /\ LagStep
  <2> DEFINE k == [call[c] EXCEPT !.at = "connection", !.window = 1, !.needle = needle]
  <2>1. call' = [call EXCEPT ![c] = k]
    BY <1>6, <1>1
  <2>2. 1 \in 0..MaxWindows
    BY BoundsAssumption
  <2>3. /\ k \in Called /\ k.at = "connection" /\ k.creds = call[c].creds
        /\ k.window = 1 /\ k.needle = needle
        /\ k.failed = call[c].failed /\ k.spec = call[c].spec
    BY <1>1, <2>2 DEF Called, Steps
  <2> HIDE DEF k
  <2>4. call' \in [Callers -> Called] /\ call'[c] = k
        /\ \A d \in Callers \ {c} : call'[d] = call[d]
    BY <1>1, <2>1, <2>3
  <2>5. HoldsOwn(c, k) /\ AskedBefore(k)
    BY <2>3 DEF HoldsOwn, AskedBefore, Holding
  <2>6. Swept(k)
    <3>1. k.failed \subseteq 1..(0 - 1)
      BY <1>2, <2>3 DEF Swept
    <3>2. k.failed = {} /\ needle \cap 1..(1 - 1) = {} /\ 1..(1 - 1) = {}
      BY <3>1
    <3> QED  BY <2>3, <3>2 DEF Swept
  <2>7. /\ cache' \in [version : Version, at : 0..MaxChanges] \cup {Null}
        /\ CacheWasTrue'
    BY <1>4 DEF IInv, TypeOK, SchemaInv, CacheWasTrue
  <2>8. \A d \in Callers : call'[d].at = "locked" <=> lock' = d
    BY <1>2, <1>4, <2>3, <2>4 DEF IInv, TypeOK
  <2>9. IInv'
    BY <1>4, <2>4, <2>5, <2>6, <2>7, <2>8, OneCallMoves
  <2>10. LagStep
    BY <2>3, <2>4, OneCallAnswers, NullAssumption DEF LagOf, OthersOf
  <2> QED  BY <2>9, <2>10
<1> QED  BY <1>4, <1>5, <1>6 DEF Begin

(* The row of the connection is the caller's own or the team's. *)
LEMMA ConnectionIsOwn ==
    ASSUME NEW c, Connection(c) # Null
    PROVE  Connection(c) \in {c, "team", "labelled"} /\ Connection(c) \in Connected
  BY DEF Connection

LEMMA PickConnectionKeeps ==
    ASSUME IInv, NEW c \in Callers, PickConnection(c)
    PROVE  IInv' /\ LagStep
<1> DEFINE place == Connection(c)
<1>1. call[c].at = "connection" /\ call[c] \in Called
  BY DEF PickConnection, IInv, TypeOK, CallInv, AskedBefore
<1>2. UNCHANGED <<rows, account, schema, now, until, cache, lock, changes>>
  BY DEF PickConnection
<1>3. CASE place = Null
  <2>1. Return(c, "not connected")
    BY <1>3 DEF PickConnection
  <2> QED  BY <1>1, <1>2, <2>1, ReturnKeeps DEF Answers
<1>4. CASE place # Null /\ rows[place].account = Null
  <2>1. Return(c, "reconnect")
    BY <1>4 DEF PickConnection
  <2> QED  BY <1>1, <1>2, <2>1, ReturnKeeps DEF Answers, Advices
<1>5. CASE place # Null /\ rows[place].account # Null
  <2>1. /\ place \in {c, "team", "labelled"} /\ place \in Places
        /\ rows[place] # Null /\ rows[place] \in Row
    BY <1>5, ConnectionIsOwn DEF Connected, Found, IInv, TypeOK
  <2> DEFINE row == [place |-> place, account |-> rows[place].account]
             k == [call[c] EXCEPT !.at = "provider", !.row = row]
  <2>2. rows[place].account \in Accounts
    BY <1>5, <2>1 DEF Row
  <2>3. /\ row \in [place : Places, account : Accounts]
        /\ row \in [place : {c, "team", "labelled"}, account : Accounts]
    <3> HIDE DEF place
    <3> QED  BY <2>1, <2>2
  <2>4. call' = [call EXCEPT ![c] = k]
    BY <1>5 DEF PickConnection, IInv, TypeOK
  <2> HIDE DEF row
  <2>5. /\ k \in Called /\ k.at = "provider" /\ k.row = row
        /\ k.creds = call[c].creds /\ k.window = call[c].window
        /\ k.needle = call[c].needle /\ k.failed = call[c].failed /\ k.spec = call[c].spec
    BY <1>1, <2>3 DEF Called, Steps
  <2> HIDE DEF k
  <2>6. HoldsOwn(c, k) /\ AskedBefore(k)
    BY <1>1, <2>3, <2>5 DEF HoldsOwn, AskedBefore
  <2> QED  BY <1>1, <1>2, <2>4, <2>5, <2>6, GoesOnKeeps
<1> QED  BY <1>3, <1>4, <1>5

LEMMA PickProviderKeeps ==
    ASSUME IInv, NEW c \in Callers, PickProvider(c)
    PROVE  IInv' /\ LagStep
<1>1. /\ call[c].at = "provider" /\ call[c] \in Called
      /\ HoldsOwn(c, call[c])
  BY DEF PickProvider, IInv, TypeOK, CallInv, AskedBefore
<1>2. UNCHANGED <<rows, account, schema, now, until, cache, lock, changes>>
  BY DEF PickProvider
<1>3. CASE Return(c, "raised")
  BY <1>1, <1>2, <1>3, ReturnKeeps DEF Answers
<1>4. ASSUME NEW at \in Providers,
             call' = [call EXCEPT ![c].at = "validate", ![c].provider = at]
      PROVE  IInv' /\ LagStep
  <2> DEFINE k == [call[c] EXCEPT !.at = "validate", !.provider = at]
  <2>1. call' = [call EXCEPT ![c] = k]
    BY <1>4 DEF IInv, TypeOK
  <2>2. /\ k \in Called /\ k.at = "validate" /\ k.row = call[c].row
        /\ k.creds = call[c].creds /\ k.window = call[c].window
        /\ k.needle = call[c].needle /\ k.failed = call[c].failed /\ k.spec = call[c].spec
    BY <1>1 DEF Called, Steps
  <2> HIDE DEF k
  <2>3. HoldsOwn(c, k) /\ AskedBefore(k)
    BY <1>1, <2>2 DEF HoldsOwn, AskedBefore, Holding
  <2> QED  BY <1>1, <1>2, <2>1, <2>2, <2>3, GoesOnKeeps
<1>5. \A p \in Found : rows[p].provider \in Providers
  BY DEF Found, Row, IInv, TypeOK
<1> QED  BY <1>3, <1>4, <1>5 DEF PickProvider

LEMMA ValidateKeeps ==
    ASSUME IInv, NEW c \in Callers, Validate(c)
    PROVE  IInv' /\ LagStep
<1>1. /\ call[c].at = "validate" /\ call[c] \in Called
      /\ HoldsOwn(c, call[c])
  BY DEF Validate, IInv, TypeOK, CallInv, AskedBefore
<1>2. UNCHANGED <<rows, account, schema, now, until, cache, lock, changes>>
  BY DEF Validate
<1>3. ASSUME NEW advised, Return(c, Advice(advised))
      PROVE  IInv' /\ LagStep
  BY <1>1, <1>2, <1>3, AdviceIsAnswer, ReturnKeeps
<1>4. CASE Go(c, "spec")
  <2> DEFINE k == [call[c] EXCEPT !.at = "spec"]
  <2>1. call' = [call EXCEPT ![c] = k]
    BY <1>4 DEF Go, IInv, TypeOK
  <2>2. /\ k \in Called /\ k.at = "spec" /\ k.row = call[c].row
        /\ k.creds = call[c].creds /\ k.window = call[c].window
        /\ k.needle = call[c].needle /\ k.failed = call[c].failed /\ k.spec = call[c].spec
    BY <1>1 DEF Called, Steps
  <2> HIDE DEF k
  <2>3. HoldsOwn(c, k) /\ AskedBefore(k)
    BY <1>1, <2>2 DEF HoldsOwn, AskedBefore, Holding
  <2> QED  BY <1>1, <1>2, <2>1, <2>2, <2>3, GoesOnKeeps
<1>5. CASE Return(c, "raised")
  BY <1>1, <1>2, <1>5, ReturnKeeps DEF Answers
<1> QED  BY <1>3, <1>4, <1>5 DEF Validate

(* What a fresh entry of the cache says lags by less than its lifetime. *)
LEMMA FreshLags ==
    ASSUME IInv, NEW asked \in 0..now, Fresh(asked)
    PROVE  /\ cache.version \in Version
           /\ until[cache.version] = Null \/ asked - until[cache.version] < Lifetime
<1>1. cache \in [version : Version, at : 0..MaxChanges]
  BY DEF Fresh, IInv, TypeOK
<1>2. Lifetime \in Nat /\ MaxChanges \in Nat /\ now \in Nat /\ asked \in Nat
  BY BoundsAssumption DEF IInv, TypeOK
<1>3. cache.version \in Version /\ cache.at \in 0..MaxChanges
  BY <1>1
<1>4. until[cache.version] = Null \/ until[cache.version] \in 0..MaxChanges
  BY <1>3 DEF IInv, TypeOK
<1>5. CASE until[cache.version] = Null
  BY <1>3, <1>5
<1>6. CASE until[cache.version] # Null
  <2> DEFINE was == until[cache.version]
             put == cache.at
  <2>1. was \in Nat /\ put \in Nat /\ asked - put < Lifetime /\ put <= was
    BY <1>2, <1>3, <1>4, <1>6 DEF Fresh, IInv, SchemaInv, CacheWasTrue
  <2> HIDE DEF was, put
  <2>2. asked - was < Lifetime
    BY <1>2, <2>1
  <2> QED  BY <1>3, <2>2 DEF was
<1> QED  BY <1>5, <1>6

(* The version at the provider has not been replaced. *)
LEMMA NewestLags ==
    ASSUME IInv
    PROVE  schema \in Version /\ until[schema] = Null
  BY BoundsAssumption DEF IInv, TypeOK, SchemaInv, Version

(* The parameters are checked against a version that is the action's, or   *)
(* was less than a lifetime before the caller asked: the call goes on, or   *)
(* is answered.                                                             *)
LEMMA CheckWrites ==
    ASSUME IInv, NEW c \in Callers, call[c].at \in {"spec", "waiting", "locked"},
           NEW version \in Version \cup {Null}, Check(c, version),
           version = Null \/ until[version] = Null
             \/ AskedAt(call[c]) - until[version] < Lifetime
    PROVE  /\ call' \in [Callers -> Called]
           /\ \A d \in Callers \ {c} : call'[d] = call[d]
           /\ call'[c].at # "locked" /\ Swept(call'[c])
           /\ HoldsOwn(c, call'[c]) /\ AskedBefore(call'[c])
           /\ LagStep
<1>1. /\ call \in [Callers -> Called] /\ call[c] \in Called
      /\ HoldsOwn(c, call[c])
  BY DEF IInv, TypeOK, CallInv
<1>2. CASE Return(c, "invalid")
  <2>1. /\ call' \in [Callers -> Called]
        /\ \A d \in Callers \ {c} : call'[d] = call[d]
        /\ call'[c].at \in {"done", "connection"}
        /\ call'[c].creds = Null /\ call'[c].spec = Null /\ Swept(call'[c])
    BY <1>2, ReturnWrites DEF Answers
  <2>2. LagStep
    BY <2>1, OneCallAnswers, NullAssumption DEF LagOf, OthersOf
  <2> QED  BY <2>1, <2>2 DEF HoldsOwn, AskedBefore, Holding
<1>3. CASE call' = [call EXCEPT ![c].at = "send", ![c].asked = Null, ![c].spec = version]
  <2> DEFINE k == [call[c] EXCEPT !.at = "send", !.asked = Null, !.spec = version]
  <2>1. call' = [call EXCEPT ![c] = k]
    BY <1>1, <1>3
  <2>2. /\ k \in Called /\ k.at = "send" /\ k.row = call[c].row
        /\ k.creds = call[c].creds
        /\ k.window = call[c].window /\ k.needle = call[c].needle
        /\ k.failed = call[c].failed /\ k.spec = version
    BY <1>1 DEF Called, Steps
  <2> HIDE DEF k
  <2>3. /\ call' \in [Callers -> Called] /\ call'[c] = k
        /\ \A d \in Callers \ {c} : call'[d] = call[d] /\ Swept(call'[c])
    BY <2>1, <2>2, GoesOn
  <2>4. HoldsOwn(c, k) /\ AskedBefore(k)
    BY <1>1, <2>2 DEF HoldsOwn, AskedBefore, Holding
  <2>5. LagStep
    BY <2>2, <2>3, OneCallAnswers, NullAssumption DEF LagOf, OthersOf
  <2> QED  BY <2>2, <2>3, <2>4, <2>5, GoesOn, <2>1 DEF AskedBefore
<1> QED  BY <1>2, <1>3 DEF Check

(* A look at the cache under or before the lock, from which the call goes   *)
(* on with a schema, or is answered.                                        *)
LEMMA CheckKeeps ==
    ASSUME IInv, NEW c \in Callers, call[c].at \in {"spec", "waiting", "locked"},
           NEW version \in Version \cup {Null}, Check(c, version),
           version = Null \/ until[version] = Null
             \/ AskedAt(call[c]) - until[version] < Lifetime,
           UNCHANGED <<rows, account, schema, now, until, changes>>,
           lock' = IF call[c].at = "locked" THEN Null ELSE lock,
           cache' \in [version : Version, at : 0..MaxChanges] \cup {Null}, CacheWasTrue'
    PROVE  IInv' /\ LagStep
<1>1. /\ call' \in [Callers -> Called]
      /\ \A d \in Callers \ {c} : call'[d] = call[d]
      /\ call'[c].at # "locked" /\ Swept(call'[c])
      /\ HoldsOwn(c, call'[c]) /\ AskedBefore(call'[c])
      /\ LagStep
  BY CheckWrites
<1>2. \A d \in Callers : call'[d].at = "locked" <=> lock' = d
  BY <1>1, NullAssumption DEF IInv, TypeOK, Callers
<1> QED  BY <1>1, <1>2, OneCallMoves

(* A call that waits for the lock, or takes it, knows when it asked. *)
LEMMA WaitKeeps ==
    ASSUME IInv, NEW c \in Callers, call[c].at \in {"spec", "waiting"}, NEW k \in Called,
           call' = [call EXCEPT ![c] = k], k.at \in {"waiting", "locked"}, k.asked \in 0..now,
           k.row = call[c].row, k.creds = call[c].creds, k.window = call[c].window,
           k.needle = call[c].needle, k.failed = call[c].failed, k.spec = call[c].spec,
           UNCHANGED <<rows, account, schema, now, until, cache, changes>>,
           k.at = "locked" => lock = Null /\ lock' = c,
           k.at = "waiting" => lock' = lock
    PROVE  IInv' /\ LagStep
<1>1. HoldsOwn(c, call[c])
  BY DEF IInv, CallInv
<1>2. /\ call' \in [Callers -> Called] /\ call'[c] = k
      /\ \A d \in Callers \ {c} : call'[d] = call[d]
      /\ Swept(call'[c])
  BY GoesOn
<1>3. HoldsOwn(c, k) /\ AskedBefore(k)
  BY <1>1 DEF HoldsOwn, AskedBefore, Holding
<1>4. \A d \in Callers : call'[d].at = "locked" <=> lock' = d
  <2>1. CASE k.at = "locked"
    <3>1. \A d \in Callers : call[d].at # "locked"
      BY <2>1, NullAssumption DEF IInv, TypeOK, Callers
    <3> QED  BY <1>2, <2>1, <3>1
  <2>2. CASE k.at = "waiting"
    BY <1>2, <2>2 DEF IInv, TypeOK
  <2> QED  BY <2>1, <2>2
<1>5. /\ cache' \in [version : Version, at : 0..MaxChanges] \cup {Null}
      /\ CacheWasTrue'
  BY DEF IInv, TypeOK, SchemaInv, CacheWasTrue
<1>6. LagStep
  BY <1>2, OneCallAnswers, NullAssumption DEF LagOf, OthersOf
<1> QED  BY <1>2, <1>3, <1>4, <1>5, <1>6, OneCallMoves

LEMMA ReadSpecKeeps ==
    ASSUME IInv, NEW c \in Callers, ReadSpec(c)
    PROVE  IInv' /\ LagStep
<1>1. /\ call[c].at = "spec" /\ call \in [Callers -> Called] /\ call[c] \in Called
      /\ UNCHANGED <<rows, account, schema, now, until, cache, lock, changes>>
  BY DEF ReadSpec, IInv, TypeOK
<1>2. /\ cache' \in [version : Version, at : 0..MaxChanges] \cup {Null}
      /\ CacheWasTrue'
  BY <1>1 DEF IInv, TypeOK, SchemaInv, CacheWasTrue
<1>3. now \in 0..now /\ now \in 0..MaxChanges
  BY BoundsAssumption DEF IInv, TypeOK
<1>4. CASE Fresh(now) /\ Check(c, cache.version)
  <2>1. AskedAt(call[c]) = now
    BY <1>1 DEF AskedAt
  <2> QED  BY <1>1, <1>2, <1>3, <1>4, <2>1, FreshLags, CheckKeeps
<1>5. CASE call' = [call EXCEPT ![c].at = "waiting", ![c].asked = now]
  <2> DEFINE k == [call[c] EXCEPT !.at = "waiting", !.asked = now]
  <2>1. call' = [call EXCEPT ![c] = k]
    BY <1>1, <1>5
  <2>2. /\ k \in Called /\ k.at = "waiting" /\ k.asked = now /\ k.row = call[c].row
        /\ k.creds = call[c].creds /\ k.window = call[c].window
        /\ k.needle = call[c].needle /\ k.failed = call[c].failed /\ k.spec = call[c].spec
    BY <1>1, <1>3 DEF Called, Steps
  <2> HIDE DEF k
  <2> QED  BY <1>1, <1>3, <2>1, <2>2, WaitKeeps
<1> QED  BY <1>4, <1>5 DEF ReadSpec

LEMMA TakeLockKeeps ==
    ASSUME IInv, NEW c \in Callers, TakeLock(c)
    PROVE  IInv' /\ LagStep
<1>1. /\ call[c].at = "waiting" /\ call \in [Callers -> Called] /\ call[c] \in Called
      /\ lock = Null /\ call[c].asked \in 0..now
      /\ UNCHANGED <<rows, account, schema, now, until, cache, changes>>
  BY DEF TakeLock, IInv, TypeOK, CallInv, AskedBefore
<1>2. /\ cache' \in [version : Version, at : 0..MaxChanges] \cup {Null}
      /\ CacheWasTrue'
  BY <1>1 DEF IInv, TypeOK, SchemaInv, CacheWasTrue
<1>3. CASE Fresh(call[c].asked) /\ Check(c, cache.version) /\ UNCHANGED lock
  <2>1. AskedAt(call[c]) = call[c].asked
    BY <1>1 DEF AskedAt
  <2> QED  BY <1>1, <1>2, <1>3, <2>1, FreshLags, CheckKeeps
<1>4. CASE lock' = c /\ Go(c, "locked")
  <2> DEFINE k == [call[c] EXCEPT !.at = "locked"]
  <2>1. call' = [call EXCEPT ![c] = k]
    BY <1>1, <1>4 DEF Go
  <2>2. /\ k \in Called /\ k.at = "locked" /\ k.asked = call[c].asked /\ k.row = call[c].row
        /\ k.creds = call[c].creds /\ k.window = call[c].window
        /\ k.needle = call[c].needle /\ k.failed = call[c].failed /\ k.spec = call[c].spec
    BY <1>1 DEF Called, Steps
  <2> HIDE DEF k
  <2> QED  BY <1>1, <1>4, <2>1, <2>2, WaitKeeps
<1> QED  BY <1>3, <1>4 DEF TakeLock

LEMMA FetchSpecKeeps ==
    ASSUME IInv, NEW c \in Callers, FetchSpec(c)
    PROVE  IInv' /\ LagStep
<1>1. /\ call[c].at = "locked" /\ lock' = Null /\ call[c].asked \in 0..now
      /\ UNCHANGED <<rows, account, schema, now, until, changes>>
  BY DEF FetchSpec, IInv, CallInv, AskedBefore
<1>2. CASE Check(c, schema) /\ cache' = [version |-> schema, at |-> call[c].asked]
  <2>1. cache' \in [version : Version, at : 0..MaxChanges] \cup {Null}
    BY <1>1, <1>2, BoundsAssumption DEF IInv, TypeOK
  <2>2. CacheWasTrue'
    BY <1>1, <1>2, NewestLags, BoundsAssumption DEF CacheWasTrue, IInv, TypeOK, Version
  <2> QED  BY <1>1, <1>2, <2>1, <2>2, NewestLags, CheckKeeps
<1>3. CASE Check(c, Null) /\ UNCHANGED cache
  <2>1. /\ cache' \in [version : Version, at : 0..MaxChanges] \cup {Null}
        /\ CacheWasTrue'
    BY <1>1, <1>3 DEF IInv, TypeOK, SchemaInv, CacheWasTrue
  <2> QED  BY <1>1, <1>3, <2>1, CheckKeeps
<1> QED  BY <1>2, <1>3 DEF FetchSpec

LEMMA SendKeeps ==
    ASSUME IInv, NEW c \in Callers, SendComposio(c) \/ SendPipedream(c) \/ SendDirect(c)
    PROVE  IInv' /\ LagStep
<1>1. /\ call[c].at \in {"send", "direct"} /\ call[c] \in Called
      /\ HoldsOwn(c, call[c])
      /\ UNCHANGED <<rows, account, schema, now, until, cache, lock, changes>>
  BY DEF SendComposio, SendPipedream, SendDirect, IInv, TypeOK, CallInv
<1>2. ASSUME NEW answer \in Answers \ {"hit", "none"}, Return(c, answer)
      PROVE  IInv' /\ LagStep
  BY <1>1, <1>2, ReturnKeeps
<1>3. Rendered \cup {"raised"} \subseteq Answers \ {"hit", "none"}
  BY DEF Rendered, Answers
<1>4. CASE Go(c, "attach")
  <2> DEFINE k == [call[c] EXCEPT !.at = "attach"]
  <2>1. call' = [call EXCEPT ![c] = k]
    BY <1>4 DEF Go, IInv, TypeOK
  <2>2. /\ k \in Called /\ k.at = "attach" /\ k.row = call[c].row
        /\ k.creds = call[c].creds /\ k.window = call[c].window
        /\ k.needle = call[c].needle /\ k.failed = call[c].failed /\ k.spec = call[c].spec
    BY <1>1 DEF Called, Steps
  <2> HIDE DEF k
  <2>3. HoldsOwn(c, k) /\ AskedBefore(k)
    BY <1>1, <2>2 DEF HoldsOwn, AskedBefore, Holding
  <2> QED  BY <1>1, <2>1, <2>2, <2>3, GoesOnKeeps
<1>5. CASE SendComposio(c)
  BY <1>2, <1>3, <1>5, AdviceIsAnswer DEF SendComposio
<1>6. CASE SendPipedream(c)
  BY <1>2, <1>3, <1>6, AdviceIsAnswer DEF SendPipedream
<1>7. CASE SendDirect(c)
  BY <1>2, <1>3, <1>4, <1>7, AdviceIsAnswer DEF SendDirect
<1> QED  BY <1>5, <1>6, <1>7

(* The credentials that are read are the settings' or those of the one row; *)
(* if that is another member's, it is not the row the call had found.       *)
LEMMA ReadCredentialsKeeps ==
    ASSUME IInv, NEW c \in Callers, ReadCredentials(c)
    PROVE  IInv' /\ LagStep
<1>1. /\ call[c].at = "send" /\ call[c] \in Called /\ HoldsOwn(c, call[c])
      /\ UNCHANGED <<rows, account, schema, now, until, cache, lock, changes>>
  BY DEF ReadCredentials, IInv, TypeOK, CallInv
<1>2. CASE Return(c, "raised")
  BY <1>1, <1>2, ReturnKeeps DEF Answers
<1>3. ASSUME ~Several, NEW held \in Found \cup {"settings"},
             call' = [call EXCEPT ![c].at = "direct", ![c].creds = held]
      PROVE  IInv' /\ LagStep
  <2> DEFINE k == [call[c] EXCEPT !.at = "direct", !.creds = held]
  <2>1. call' = [call EXCEPT ![c] = k]
    BY <1>3 DEF IInv, TypeOK
  <2>2. /\ k \in Called /\ k.at = "direct" /\ k.row = call[c].row
        /\ k.creds = held /\ k.window = call[c].window
        /\ k.needle = call[c].needle /\ k.failed = call[c].failed /\ k.spec = call[c].spec
    BY <1>1 DEF Called, Steps, Found
  <2> HIDE DEF k
  <2>3. HoldsOwn(c, k) /\ AskedBefore(k)
    BY <1>1, <2>2 DEF HoldsOwn, AskedBefore, Holding
  <2>4. OthersOf(c)
    <3> SUFFICES ASSUME call'[c].creds \in Members \ {c}
                 PROVE  call[c].row.place \notin Found
      BY DEF OthersOf
    <3>1. call'[c].creds = held
      BY <2>1, <2>2 DEF IInv, TypeOK
    <3>2. held \in Found /\ held \notin {c, "team", "labelled"}
      BY <1>3, <3>1, PlacesAssumption
    <3>3. call[c].row.place \in {c, "team", "labelled"}
      BY <1>1 DEF HoldsOwn, Holding
    <3> QED  BY <1>3, <3>2, <3>3 DEF Several
  <2> QED  BY <1>1, <2>1, <2>2, <2>3, <2>4, GoesOnKeeps
<1> QED  BY <1>2, <1>3 DEF ReadCredentials

LEMMA AttachKeeps ==
    ASSUME IInv, NEW c \in Callers, Attach(c)
    PROVE  IInv' /\ LagStep
<1>1. /\ call[c].at = "attach"
      /\ UNCHANGED <<rows, account, schema, now, until, cache, lock, changes>>
  BY DEF Attach
<1>2. PICK answer \in Answers \ {"hit", "none"} : Return(c, answer)
  BY AdviceIsAnswer DEF Attach, Answers
<1> QED  BY <1>1, <1>2, ReturnKeeps

LEMMA EndKeeps ==
    ASSUME IInv, NEW c \in Callers, End(c)
    PROVE  IInv' /\ LagStep
<1>1. /\ call[c].at = "done" /\ call' = [call EXCEPT ![c] = Idle]
      /\ UNCHANGED <<rows, account, schema, now, until, cache, lock, changes>>
  BY DEF End
<1>2. /\ call' \in [Callers -> Called] /\ call'[c] = Idle
      /\ \A d \in Callers \ {c} : call'[d] = call[d]
  BY <1>1, IdleIsCall DEF IInv, TypeOK
<1>3. Idle.at = "idle" /\ Idle.spec = Null
  BY DEF Idle
<1>4. HoldsOwn(c, Idle) /\ AskedBefore(Idle) /\ Swept(Idle)
  BY DEF Idle, HoldsOwn, AskedBefore, Swept, Holding
<1>5. /\ cache' \in [version : Version, at : 0..MaxChanges] \cup {Null}
      /\ CacheWasTrue'
  BY <1>1 DEF IInv, TypeOK, SchemaInv, CacheWasTrue
<1>6. \A d \in Callers : call'[d].at = "locked" <=> lock' = d
  BY <1>1, <1>2, <1>3 DEF IInv, TypeOK
<1>7. LagStep
  BY <1>2, <1>3, OneCallAnswers, NullAssumption DEF LagOf, OthersOf, Idle
<1> QED  BY <1>1, <1>2, <1>4, <1>5, <1>6, <1>7, OneCallMoves
-----------------------------------------------------------------------------
(* What else happens *)

(* Every change counts. *)
LEMMA OneMoreChange ==
    ASSUME IInv, Changed
    PROVE  changes' \in 0..MaxChanges /\ changes' = changes + 1 /\ now + 1 <= changes'
           /\ now <= changes'
  BY BoundsAssumption DEF Changed, IInv, TypeOK, SchemaInv

(* A step of no call asks for nothing. *)
LEMMA NoCallAnswers ==
    ASSUME UNCHANGED call
    PROVE  LagStep
  BY NullAssumption DEF LagStep, LagOf, OthersOf

(* A change that leaves the schema, the cache and the calls alone. *)
LEMMA RowsChange ==
    ASSUME IInv, Changed, UNCHANGED <<schema, now, until, cache, lock, call>>,
           rows' \in [Places -> Row \cup {Null}],
           account' \in [Accounts -> [at : Providers, state : {"new", "active", "broken"}]]
    PROVE  IInv' /\ LagStep
<1>1. TypeOK'
  BY OneMoreChange DEF IInv, TypeOK
<1>2. CallInv'
  BY DEF IInv, CallInv, HoldsOwn, AskedBefore, Swept
<1>3. SchemaInv'
  BY OneMoreChange DEF IInv, SchemaInv, CacheWasTrue
<1> QED  BY <1>1, <1>2, <1>3, NoCallAnswers DEF IInv

(* A change that leaves the rows, the accounts and the calls alone. *)
LEMMA SchemaChanges ==
    ASSUME IInv, UNCHANGED <<rows, account, cache, lock, call>>,
           changes' \in 0..MaxChanges, schema' \in Version, now' \in 0..MaxChanges, now <= now',
           until' \in [Version -> (0..MaxChanges) \cup {Null}], SchemaInv'
    PROVE  IInv' /\ LagStep
<1>1. TypeOK'
  BY DEF IInv, TypeOK
<1>2. CallInv'
  <2>1. 0..now \subseteq 0..now'
    BY BoundsAssumption DEF IInv, TypeOK
  <2> QED  BY <2>1 DEF IInv, CallInv, HoldsOwn, AskedBefore, Swept
<1> QED  BY <1>1, <1>2, NoCallAnswers DEF IInv

LEMMA TickKeeps ==
    ASSUME IInv, Tick
    PROVE  IInv' /\ LagStep
<1>1. now' = now + 1 /\ now \in Nat /\ changes' \in 0..MaxChanges /\ now' <= changes'
  BY OneMoreChange, BoundsAssumption DEF Tick, IInv, TypeOK
<1>2. now' \in 0..MaxChanges
  BY <1>1, BoundsAssumption
<1>3. CacheWasTrue'
  <2> SUFFICES ASSUME cache # Null
               PROVE  /\ cache.version <= schema /\ cache.at <= now + 1
                      /\ until[cache.version] = Null \/ cache.at <= until[cache.version]
    BY <1>1 DEF Tick, CacheWasTrue
  <2>1. /\ cache.version <= schema /\ cache.at <= now
        /\ until[cache.version] = Null \/ cache.at <= until[cache.version]
    BY DEF IInv, SchemaInv, CacheWasTrue
  <2>2. cache \in [version : Version, at : 0..MaxChanges]
    BY DEF IInv, TypeOK
  <2>3. cache.at \in 0..MaxChanges
    BY <2>2
  <2>4. cache.at <= now + 1
    BY <2>1, <2>3, <1>1, BoundsAssumption
  <2> QED  BY <2>1, <2>4
<1>4. SchemaInv'
  BY <1>1, <1>3 DEF Tick, SchemaInv, IInv
<1> QED  BY <1>1, <1>2, <1>4, SchemaChanges DEF Tick, IInv, TypeOK

LEMMA NewSchemaKeeps ==
    ASSUME IInv, NewSchema
    PROVE  IInv' /\ LagStep
<1>1. /\ schema \in Version /\ schema' = schema + 1 /\ schema < MaxSchema
      /\ until' = [until EXCEPT ![schema] = now] /\ now' = now /\ now \in 0..MaxChanges
      /\ until \in [Version -> (0..MaxChanges) \cup {Null}]
      /\ cache' = cache
  BY DEF NewSchema, IInv, TypeOK
<1>2. schema' \in Version /\ schema < schema' /\ schema \in Nat /\ Version \subseteq Nat
  BY <1>1, BoundsAssumption DEF Version
<1>3. until' \in [Version -> (0..MaxChanges) \cup {Null}]
  BY <1>1
<1>4. \A v \in Version : v >= schema' => until'[v] = Null
  <2> SUFFICES ASSUME NEW v \in Version, v >= schema'
               PROVE  until'[v] = Null
    OBVIOUS
  <2>1. v >= schema /\ v # schema
    BY <1>1, <1>2
  <2> QED  BY <2>1, <1>1 DEF IInv, SchemaInv
<1>5. CacheWasTrue'
  <2> SUFFICES ASSUME cache # Null
               PROVE  /\ cache.version <= schema' /\ cache.at <= now
                      /\ until'[cache.version] = Null \/ cache.at <= until'[cache.version]
    BY <1>1 DEF CacheWasTrue
  <2>1. /\ cache.version <= schema /\ cache.at <= now
        /\ until[cache.version] = Null \/ cache.at <= until[cache.version]
    BY DEF IInv, SchemaInv, CacheWasTrue
  <2>2. cache \in [version : Version, at : 0..MaxChanges]
    BY DEF IInv, TypeOK
  <2>3. cache.version \in Version
    BY <2>2
  <2>4. cache.version <= schema'
    <3>1. \A v \in Nat : v <= schema => v <= schema + 1
      BY <1>2
    <3>2. cache.version \in Nat /\ schema' = schema + 1
      BY <2>3, <1>1, <1>2
    <3> QED  BY <3>1, <3>2, <2>1
  <2>5. until'[cache.version] = IF cache.version = schema THEN now ELSE until[cache.version]
    BY <2>3, <1>1
  <2> QED  BY <2>1, <2>4, <2>5
<1>6. changes' \in 0..MaxChanges /\ now <= changes'
  BY OneMoreChange DEF NewSchema
<1>7. SchemaInv'
  BY <1>1, <1>4, <1>5, <1>6 DEF SchemaInv
<1> QED  BY <1>1, <1>2, <1>3, <1>6, <1>7, SchemaChanges DEF NewSchema

LEMMA AccountChangesKeeps ==
    ASSUME IInv, NEW a \in Accounts, AccountChanges(a)
    PROVE  IInv' /\ LagStep
<1> DEFINE Account == [at : Providers, state : {"new", "active", "broken"}]
           broken == [account[a] EXCEPT !.state = "broken"]
<1>1. account \in [Accounts -> Account] /\ rows \in [Places -> Row \cup {Null}]
  BY DEF IInv, TypeOK
<1>2. broken \in Account /\ account' = [account EXCEPT ![a] = broken]
  BY <1>1 DEF AccountChanges
<1> HIDE DEF broken
<1>3. account' \in [Accounts -> Account]
  BY <1>1, <1>2
<1> QED  BY <1>1, <1>3, RowsChange DEF AccountChanges

LEMMA DisconnectsKeeps ==
    ASSUME IInv, NEW p \in Places, Disconnects(p)
    PROVE  IInv' /\ LagStep
<1>1. p \in Found /\ rows[p] \in Row /\ rows \in [Places -> Row \cup {Null}]
  BY DEF Disconnects, Connected, Found, IInv, TypeOK
<1> DEFINE off == [rows[p] EXCEPT !.connected = FALSE]
<1>2. off \in Row /\ rows' \in {[rows EXCEPT ![p] = off], [rows EXCEPT ![p] = Null]}
  BY <1>1 DEF Row, Disconnects
<1> HIDE DEF off
<1>3. rows' \in [Places -> Row \cup {Null}]
  BY <1>1, <1>2
<1> QED  BY <1>3, RowsChange DEF Disconnects, IInv, TypeOK

LEMMA SetCredentialsKeeps ==
    ASSUME IInv, SetCredentials
    PROVE  IInv' /\ LagStep
<1>1. rows \in [Places -> Row \cup {Null}] /\ "team" \in Places
  BY DEF IInv, TypeOK, Places
<1> DEFINE new == [connected |-> TRUE, account |-> Null, provider |-> "composio",
                   creds |-> TRUE]
           given(p) == [rows[p] EXCEPT !.connected = TRUE, !.creds = TRUE]
<1>2. new \in Row /\ \A p \in Found : given(p) \in Row
  BY <1>1 DEF Row, Providers, Found
<1>3. \/ rows' = [rows EXCEPT !["team"] = new]
      \/ rows' = [p \in Places |-> IF p \in Found THEN given(p) ELSE Null]
  BY DEF SetCredentials
<1> HIDE DEF new, given
<1>4. rows' \in [Places -> Row \cup {Null}]
  BY <1>1, <1>2, <1>3
<1> QED  BY <1>4, RowsChange DEF SetCredentials, IInv, TypeOK

LEMMA ConnectsKeeps ==
    ASSUME IInv, NEW p \in Places, Connects(p)
    PROVE  IInv' /\ LagStep
<1> DEFINE Account == [at : Providers, state : {"new", "active", "broken"}]
           keeps == p \in Found /\ rows[p].creds
<1>1. account \in [Accounts -> Account] /\ rows \in [Places -> Row \cup {Null}]
  BY DEF IInv, TypeOK
<1>2. PICK a \in NextNew, at \in Providers :
          /\ account' = [account EXCEPT ![a] = [at |-> at, state |-> "active"]]
          /\ rows' = [rows EXCEPT ![p] = [connected |-> TRUE, account |-> a, provider |-> at,
                                          creds |-> keeps]]
  BY DEF Connects
<1>3. a \in Accounts
  BY DEF NextNew
<1>4. keeps \in BOOLEAN
  OBVIOUS
<1> HIDE DEF keeps
<1> DEFINE row == [connected |-> TRUE, account |-> a, provider |-> at, creds |-> keeps]
           new == [at |-> at, state |-> "active"]
<1>5. row \in Row /\ new \in Account
  BY <1>3, <1>4 DEF Row
<1>6. account' = [account EXCEPT ![a] = new] /\ rows' = [rows EXCEPT ![p] = row]
  BY <1>2
<1> HIDE DEF row, new
<1>7. account' \in [Accounts -> Account] /\ rows' \in [Places -> Row \cup {Null}]
  BY <1>1, <1>3, <1>5, <1>6
<1> QED  BY <1>7, RowsChange DEF Connects
-----------------------------------------------------------------------------
(* The theorems *)

LEMMA InitKeeps == Init => IInv
<1> SUFFICES ASSUME Init PROVE IInv
  OBVIOUS
<1>1. rows \in [Places -> Row \cup {Null}]
  BY DEF Init
<1>2. account \in [Accounts -> [at : Providers, state : {"new", "active", "broken"}]]
  BY DEF Init, Providers
<1>3. 1 \in Version /\ 0 \in 0..MaxChanges
  BY BoundsAssumption DEF Version
<1>4. \A c \in Callers : call[c] = Idle /\ Idle.at = "idle"
  BY DEF Init, Idle
<1>5. TypeOK
  BY <1>1, <1>2, <1>3, <1>4, IdleIsCall, NullAssumption DEF Init, TypeOK, Version, Callers
<1>6. CallInv
  <2>1. \A c \in Callers : HoldsOwn(c, Idle) /\ AskedBefore(Idle) /\ Swept(Idle)
    BY DEF Idle, HoldsOwn, AskedBefore, Swept, Holding
  <2> QED  BY <1>4, <2>1 DEF CallInv
<1>7. SchemaInv
  BY DEF Init, SchemaInv, CacheWasTrue, Version
<1> QED  BY <1>5, <1>6, <1>7 DEF IInv

(* Every step keeps the invariant, and goes on with a schema that lags by   *)
(* less than the cache's lifetime.                                          *)
LEMMA StepKeeps == IInv /\ [Next]_vars => IInv' /\ LagStep
<1> SUFFICES ASSUME IInv, [Next]_vars PROVE IInv' /\ LagStep
  OBVIOUS
<1>1. ASSUME NEW c \in Callers, Begin(c) \/ CallStep(c) \/ End(c)
      PROVE  IInv' /\ LagStep
  BY <1>1, BeginKeeps, PickConnectionKeeps, PickProviderKeeps, ValidateKeeps, ReadSpecKeeps,
     TakeLockKeeps, FetchSpecKeeps, SendKeeps, ReadCredentialsKeeps, AttachKeeps, EndKeeps
     DEF CallStep
<1>2. ASSUME NEW a \in Accounts, AccountChanges(a)
      PROVE  IInv' /\ LagStep
  BY <1>2, AccountChangesKeeps
<1>3. ASSUME NEW p \in Places, Disconnects(p) \/ Connects(p)
      PROVE  IInv' /\ LagStep
  BY <1>3, DisconnectsKeeps, ConnectsKeeps
<1>4. CASE UNCHANGED vars
  <2>1. TypeOK'
    BY <1>4 DEF vars, IInv, TypeOK
  <2>2. CallInv' /\ SchemaInv'
    BY <1>4 DEF vars, IInv, CallInv, HoldsOwn, AskedBefore, Swept, SchemaInv, CacheWasTrue
  <2>3. LagStep
    BY <1>4, NoCallAnswers DEF vars
  <2> QED  BY <2>1, <2>2, <2>3 DEF IInv
<1> QED  BY <1>1, <1>2, <1>3, <1>4, TickKeeps, NewSchemaKeeps, SetCredentialsKeeps DEF Next

LEMMA IInvAlways == Spec => []IInv
  BY InitKeeps, StepKeeps, PTL DEF Spec

(* Every variable keeps its shape, and the lock of the cache of schemas is  *)
(* held by the one call that fetches (app/integrations/gateway.py).         *)
THEOREM TypeCorrect == Spec => []TypeOK
<1>1. IInv => TypeOK
  BY DEF IInv
<1> QED  BY <1>1, IInvAlways, PTL

(* find_in_action's answer is true of the windows it could read. *)
THEOREM SweepsAreTrue == Spec => []SweepIsTrue
<1>1. ASSUME IInv, NEW c \in Callers, call[c].at = "done", call[c].window > 0
      PROVE  /\ call[c].answer = "hit" => call[c].window \in call[c].needle \ call[c].failed
             /\ call[c].needle \cap 1..(call[c].window - 1) \subseteq call[c].failed
             /\ call[c].answer = "none" => call[c].needle \subseteq call[c].failed
  BY <1>1 DEF IInv, CallInv, Swept
<1>2. IInv => SweepIsTrue
  BY <1>1 DEF SweepIsTrue
<1> QED  BY <1>2, IInvAlways, PTL

(* By the time at which its caller asked, a call goes on with a schema that *)
(* was the action's less than the lifetime of a cache entry ago, whoever    *)
(* fetched it and however long the lock was waited for (get_action_props).  *)
THEOREM SchemaLagIsBounded == Spec => SchemaLags
<1>1. IInv /\ [Next]_vars => [\A c \in Callers :
          LET v == call'[c].spec
              asked == IF call[c].at = "spec" THEN now ELSE call[c].asked
          IN
          call[c].spec = Null /\ v # Null =>
              until[v] = Null \/ asked - until[v] < Lifetime]_vars
  BY StepKeeps DEF LagStep, LagOf, AskedAt
<1> QED  BY <1>1, IInvAlways, PTL DEF Spec, SchemaLags

(* Only when the row it had found is gone is a call made with the           *)
(* credentials of another member's row (get_direct_credentials, which asks  *)
(* for no owner, and _connection, which does).                              *)
THEOREM OthersCredentialsOnlyLate == Spec => OthersCredentials
<1>1. IInv /\ [Next]_vars => [\A c \in Callers :
          /\ call[c].creds = Null
          /\ call'[c].creds \in Members \ {c}
          => call[c].row.place \notin Found]_vars
  BY StepKeeps DEF LagStep, OthersOf
<1> QED  BY <1>1, IInvAlways, PTL DEF Spec, OthersCredentials
-----------------------------------------------------------------------------
(* The text of a skill                                                      *)

(* Who looks at the row again before writing. *)
Sure == {"append", "compact"}

(* The arguments a writer has at each of its places; its fact is in the     *)
(* text it will write.                                                      *)
WriterShaped(k) ==
    /\ k.at \in {"look", "check"} => k.op \in Sure
    /\ k.at # "look" => k.version \in Bodies!Versions
    /\ k.at \in {"look", "load", "check"} /\ k.op \in Sure => ~k.late
    /\ k.at \in {"check", "get", "put", "commit"} /\ k.fact # Null => k.fact \in Bodies!All(k.body)
    /\ k.op \in {"append", "note"} <=> k.fact # Null

TextTypes ==
    /\ skill \in Bodies!Versions \cup {0, Null} /\ r2 \in Bodies!Body \cup {Null}
    /\ body \in [Bodies!Versions -> Bodies!Body \cup {Null}]
    /\ writer \in [Writers -> Bodies!Call \cup {Null}]
    /\ acked \subseteq Facts /\ raced \in BOOLEAN
    /\ \A w \in Writers : writer[w] # Null => WriterShaped(writer[w])
    /\ Bodies!Present => r2 # Null
    /\ skill = 0 => \A w \in Writers : writer[w] = Null
    /\ ~Bodies!Present => acked = {}

(* Both texts that the next turn may read hold what was reported. *)
TextKept ==
    /\ acked \subseteq Bodies!All(r2)
    /\ body[skill] # Null => acked \subseteq Bodies!All(body[skill])

(* What a writer may rely on, at each of its places. *)
Knows(k) ==
    /\ k.at \in {"load", "check"} => k.version <= skill
    /\ k.at = "load" /\ k.op \notin Sure /\ ~k.late => k.version = skill
    /\ k.at = "check" /\ k.version = skill => acked \subseteq Bodies!All(k.body)
    /\ k.at \in {"get", "put"} /\ ~k.late /\ k.op # "edit" => acked \subseteq Bodies!All(k.body)
    /\ k.at \in {"put", "commit"} /\ (k.at = "put" => ~k.late) => k.version = skill + 1
    /\ k.at = "commit" =>
          r2 = k.body /\ acked \subseteq Bodies!All(k.body) /\ body[k.version] \in {Null, k.body}

WritersKnow ==
    /\ \A w \in Writers : writer[w] # Null => Knows(writer[w])
    /\ \A v, w \in Writers : Bodies!At(v, "commit") /\ Bodies!At(w, "commit") => v = w

BodiesInv == TextTypes /\ (Bodies!Present /\ ~raced => TextKept /\ WritersKnow)
-----------------------------------------------------------------------------
Stations == {"look", "load", "check", "get", "put", "commit"}

LEMMA WriterShape ==
    ASSUME BodiesInv, NEW w \in Writers, writer[w] # Null
    PROVE  /\ writer[w] \in Bodies!Call /\ WriterShaped(writer[w])
           /\ writer[w].op \in Bodies!Ops.memory \cup Bodies!Ops.catalog
           /\ writer[w].at \in Stations
           /\ writer[w].fact \in Facts \cup {Null}
           /\ writer[w].version \in Bodies!Versions \cup {Null}
           /\ writer[w].body \in Bodies!Body /\ writer[w].tries \in 1..Attempts
           /\ writer[w].late \in BOOLEAN
           /\ Bodies!Present /\ ~raced => Knows(writer[w])
  BY DEF BodiesInv, TextTypes, WritersKnow, Bodies!Call, Stations

(* A writer moves; the text stays, but for what the cache takes from it.    *)
LEMMA WriterMoves ==
    ASSUME BodiesInv, NEW w \in Writers, NEW new \in Bodies!Call \cup {Null}, Bodies!Become(w, new),
           UNCHANGED <<skill, r2, acked, raced>>,
           body' \in [Bodies!Versions -> Bodies!Body \cup {Null}],
           skill = 0 => new = Null,
           Bodies!Present /\ ~raced =>
               /\ body'[skill] # Null => acked \subseteq Bodies!All(body'[skill])
               /\ \A v \in Bodies!Versions : v > skill => body'[v] = body[v],
           new # Null => WriterShaped(new),
           new # Null /\ Bodies!Present /\ ~raced => Knows(new) /\ new.at # "commit"
    PROVE  BodiesInv'
<1>1. /\ writer'[w] = new /\ writer' \in [Writers -> Bodies!Call \cup {Null}]
      /\ \A v \in Writers \ {w} : writer'[v] = writer[v]
  BY DEF Bodies!Become, BodiesInv, TextTypes
<1>2. TextTypes'
  BY <1>1 DEF BodiesInv, TextTypes, WriterShaped, Bodies!All, Bodies!Present
<1>3. ASSUME Bodies!Present, ~raced
      PROVE  TextKept' /\ WritersKnow'
  <2>1. TextKept'
    BY <1>3 DEF BodiesInv, TextKept, Bodies!All
  <2>2. ASSUME NEW v \in Writers, writer'[v] # Null
        PROVE  Knows(writer[v])'
    <3>1. CASE v = w
      BY <1>1, <1>3, <2>2, <3>1 DEF Knows, Bodies!All
    <3>2. CASE v # w
      <4>1. writer'[v] = writer[v] /\ Knows(writer[v]) /\ writer[v] # Null
        BY <1>1, <1>3, <2>2, <3>2 DEF BodiesInv, WritersKnow
      <4>2. writer[v].at = "commit" =>
                  writer[v].version \in Bodies!Versions /\ writer[v].version > skill
        BY <1>3, <4>1, WriterShape DEF WriterShaped, Knows, Bodies!Present, Bodies!Versions
      <4> QED  BY <1>3, <4>1, <4>2 DEF Knows, Bodies!All
    <3> QED  BY <3>1, <3>2
  <2>3. \A v \in Writers : Bodies!At(v, "commit")' => v # w /\ Bodies!At(v, "commit")
    BY <1>1, <1>3 DEF Bodies!At
  <2> QED  BY <1>3, <2>1, <2>2, <2>3 DEF BodiesInv, WritersKnow
<1> QED  BY <1>2, <1>3 DEF BodiesInv, Bodies!Present

(* A writer gives up. *)
LEMMA WriterEnds ==
    ASSUME BodiesInv, NEW w \in Writers, Bodies!End(w), UNCHANGED <<skill, r2, body, acked, raced>>
    PROVE  BodiesInv'
<1>1. body' \in [Bodies!Versions -> Bodies!Body \cup {Null}] /\ Bodies!Become(w, Null)
  BY DEF BodiesInv, TextTypes, Bodies!End
<1>2. Bodies!Present /\ ~raced => (body'[skill] # Null => acked \subseteq Bodies!All(body'[skill]))
  BY DEF BodiesInv, TextKept, Bodies!All
<1> QED  BY <1>1, <1>2, WriterMoves

(* The cache loses texts, or gets under the row's version the one that is   *)
(* read under it.                                                           *)
LEMMA CacheMoves ==
    ASSUME BodiesInv, UNCHANGED <<skill, r2, acked, raced, writer>>,
           body' \in [Bodies!Versions -> Bodies!Body \cup {Null}],
           Bodies!Present /\ ~raced =>
               /\ body'[skill] # Null => acked \subseteq Bodies!All(body'[skill])
               /\ \A v \in Bodies!Versions : v > skill => body'[v] \in {Null, body[v]}
    PROVE  BodiesInv'
<1>1. TextTypes'
  BY DEF BodiesInv, TextTypes, WriterShaped, Bodies!All, Bodies!Present
<1>2. ASSUME Bodies!Present, ~raced
      PROVE  TextKept' /\ WritersKnow'
  <2>1. TextKept'
    BY <1>2 DEF BodiesInv, TextKept, Bodies!All
  <2>2. ASSUME NEW v \in Writers, writer[v] # Null
        PROVE  Knows(writer[v])'
    <3>1. Knows(writer[v])
      BY <1>2, <2>2 DEF BodiesInv, WritersKnow
    <3>2. writer[v].at = "commit" =>
                writer[v].version \in Bodies!Versions /\ writer[v].version > skill
      BY <1>2, <2>2, <3>1, WriterShape DEF WriterShaped, Knows, Bodies!Present, Bodies!Versions
    <3> QED  BY <1>2, <3>1, <3>2 DEF Knows, Bodies!All
  <2> QED  BY <1>2, <2>1, <2>2 DEF BodiesInv, WritersKnow, Bodies!At
<1> QED  BY <1>1, <1>2 DEF BodiesInv, Bodies!Present
-----------------------------------------------------------------------------
LEMMA DownloadIs ==
    ASSUME BodiesInv, NEW version \in Bodies!Versions
    PROVE  /\ Bodies!Download(version) \in Bodies!Body \cup {Null}
           /\ Bodies!Present /\ ~raced /\ version = skill =>
                 Bodies!Download(version) # Null
                    /\ acked \subseteq Bodies!All(Bodies!Download(version))
  BY DEF BodiesInv, TextTypes, TextKept, Bodies!Download

LEMMA CreatedSound ==
    ASSUME BodiesInv, Bodies!Created
    PROVE  BodiesInv'
<1>1. /\ skill = 0 /\ skill' = 1 /\ r2' = Bodies!Empty /\ body' = [body EXCEPT ![1] = Bodies!Empty]
      /\ UNCHANGED <<writer, acked, raced>> /\ \A w \in Writers : writer[w] = Null
  BY DEF Bodies!Created, BodiesInv, TextTypes
<1>2. Bodies!Empty \in Bodies!Body /\ 1 \in Bodies!Versions /\ 0 \notin Bodies!Versions
         /\ Bodies!Empty # Null
  BY BodiesAssumption DEF Bodies!Empty, Bodies!Body, Bodies!Versions
<1>3. acked = {}
  BY <1>1, <1>2 DEF BodiesInv, TextTypes, Bodies!Present
<1>4. TextTypes'
  BY <1>1, <1>2, <1>3 DEF BodiesInv, TextTypes, Bodies!Present
<1>5. (TextKept /\ WritersKnow)'
  BY <1>1, <1>3 DEF TextKept, WritersKnow, Bodies!At
<1> QED  BY <1>4, <1>5 DEF BodiesInv

LEMMA ServedSound ==
    ASSUME BodiesInv, Bodies!Served
    PROVE  BodiesInv'
<1>1. /\ skill \in Bodies!Versions /\ body' = [body EXCEPT ![skill] = Bodies!Download(skill)]
      /\ UNCHANGED <<skill, r2, writer, acked, raced>>
  BY DEF Bodies!Served, Bodies!Present
<1>2. /\ Bodies!Download(skill) \in Bodies!Body \cup {Null}
      /\ Bodies!Present /\ ~raced => acked \subseteq Bodies!All(Bodies!Download(skill))
  BY <1>1, DownloadIs
<1>3. /\ body \in [Bodies!Versions -> Bodies!Body \cup {Null}]
      /\ body'[skill] = Bodies!Download(skill)
      /\ \A v \in Bodies!Versions \ {skill} : body'[v] = body[v]
  BY <1>1 DEF BodiesInv, TextTypes
<1>4. body' \in [Bodies!Versions -> Bodies!Body \cup {Null}]
  BY <1>1, <1>2, <1>3
<1>5. \A v \in Bodies!Versions : v > skill => body'[v] \in {Null, body[v]}
  BY <1>1, <1>3 DEF Bodies!Versions
<1> QED  BY <1>1, <1>2, <1>3, <1>4, <1>5, CacheMoves

LEMMA DeleteSound ==
    ASSUME BodiesInv, Bodies!Delete
    PROVE  BodiesInv'
<1>1. /\ skill' = Null /\ body' = [v \in Bodies!Versions |-> Null] /\ r2' \in {Null, r2}
      /\ acked' = {}
      /\ UNCHANGED <<writer, raced>>
  BY DEF Bodies!Delete
<1>2. Null \notin Bodies!Versions /\ Null # 0
  BY BodiesAssumption DEF Bodies!Versions
<1> QED  BY <1>1, <1>2 DEF BodiesInv, TextTypes, Bodies!Present, WriterShaped, Bodies!All

LEMMA EvictSound ==
    ASSUME BodiesInv, Bodies!Evict
    PROVE  BodiesInv'
<1>1. /\ body' = [v \in Bodies!Versions |-> Null]
      /\ UNCHANGED <<skill, r2, writer, acked, raced>>
  BY DEF Bodies!Evict
<1> QED  BY <1>1, CacheMoves DEF Bodies!Present

LEMMA RestartSound ==
    ASSUME BodiesInv, Bodies!Restart
    PROVE  BodiesInv'
<1>1. /\ body' = [v \in Bodies!Versions |-> Null] /\ writer' = [w \in Writers |-> Null]
      /\ UNCHANGED <<skill, r2, acked, raced>>
  BY DEF Bodies!Restart
<1>2. TextTypes'
  BY <1>1 DEF BodiesInv, TextTypes, Bodies!Present
<1>3. Bodies!Present /\ ~raced => (TextKept /\ WritersKnow)'
  BY <1>1 DEF BodiesInv, TextKept, WritersKnow, Bodies!Present, Bodies!At, Bodies!All
<1> QED  BY <1>1, <1>2, <1>3 DEF BodiesInv, Bodies!Present

LEMMA BeginSound ==
    ASSUME BodiesInv, NEW w \in Writers, NEW op \in Bodies!Ops.memory \cup Bodies!Ops.catalog,
           NEW facts \in SUBSET (Facts \cup {Null}), Bodies!Begin(w, op, facts),
           \A fact \in facts : op \in {"append", "note"} <=> fact # Null
    PROVE  BodiesInv'
<1>1. PICK fact \in facts :
         Bodies!Become(w, [op |-> op, at |-> "load", fact |-> fact, version |-> skill,
                    body |-> Bodies!Empty, tries |-> 1, late |-> FALSE])
  BY DEF Bodies!Begin
<1> DEFINE new == [op |-> op, at |-> "load", fact |-> fact, version |-> skill,
                   body |-> Bodies!Empty, tries |-> 1, late |-> FALSE]
<1>2. /\ skill \in Bodies!Versions /\ UNCHANGED <<skill, r2, body, acked, raced>>
  BY DEF Bodies!Begin, Bodies!Present
<1>3. Bodies!Empty \in Bodies!Body /\ 1 \in 1..Attempts
  BY BodiesAssumption DEF Bodies!Empty, Bodies!Body
<1>4. new \in Bodies!Call
  BY <1>1, <1>2, <1>3 DEF Bodies!Call
<1>5. WriterShaped(new) /\ Knows(new) /\ new.at # "commit"
  BY <1>2 DEF WriterShaped, Knows, Bodies!Versions
<1>6. Bodies!Become(w, new)
  BY <1>1
<1> HIDE DEF new
<1>7. /\ body' \in [Bodies!Versions -> Bodies!Body \cup {Null}] /\ skill # 0
      /\ Bodies!Present /\ ~raced =>
            (body'[skill] # Null => acked \subseteq Bodies!All(body'[skill]))
  BY <1>2 DEF BodiesInv, TextTypes, TextKept, Bodies!Versions, Bodies!All
<1> QED  BY <1>2, <1>4, <1>5, <1>6, <1>7, WriterMoves

(* The text of a writer holds what it read, unless an admin edits it, and   *)
(* its fact.                                                                *)
LEMMA RewrittenHolds ==
    ASSUME BodiesInv, NEW w \in Writers, writer[w] # Null, NEW read \in Bodies!Body,
           NEW text \in Bodies!Rewritten(w, read)
    PROVE  /\ text \in Bodies!Body
           /\ writer[w].op # "edit" => Bodies!All(read) \subseteq Bodies!All(text)
           /\ writer[w].fact # Null => writer[w].fact \in Bodies!All(text)
<1>1. /\ writer[w].op \in Bodies!Ops.memory \cup Bodies!Ops.catalog /\ WriterShaped(writer[w])
      /\ writer[w].fact \in Facts \cup {Null}
  BY WriterShape
<1>2. read.curated \in SUBSET Facts /\ read.log \in SUBSET Facts
  BY DEF Bodies!Body
<1>3. CASE writer[w].op \in {"append", "note"}
  <2>1. writer[w].fact \in Facts /\ text = [read EXCEPT !.log = @ \cup {writer[w].fact}]
    BY <1>1, <1>3 DEF Bodies!Rewritten, Bodies!Noted, Bodies!Appended, Bodies!Logged, WriterShaped
  <2>2. text \in Bodies!Body /\ text.curated = read.curated
           /\ text.log = read.log \cup {writer[w].fact}
    BY <2>1 DEF Bodies!Body
  <2> QED  BY <2>2 DEF Bodies!All
<1>4. CASE writer[w].op = "compact"
  <2>1. text = [curated |-> Bodies!All(read), log |-> {}]
    BY <1>4 DEF Bodies!Rewritten, Bodies!Compacted
  <2> QED  BY <1>1, <1>2, <1>4, <2>1 DEF Bodies!Body, Bodies!All, WriterShaped
<1>5. CASE writer[w].op = "refresh"
  BY <1>1, <1>5 DEF Bodies!Rewritten, Bodies!Refreshed, WriterShaped
<1>6. CASE writer[w].op = "edit"
  BY <1>1, <1>2, <1>6 DEF Bodies!Rewritten, Bodies!Edited, WriterShaped, Bodies!Empty, Bodies!Body
<1> QED  BY <1>1, <1>3, <1>4, <1>5, <1>6 DEF Bodies!Ops

LEMMA BeginsSound ==
    ASSUME BodiesInv, NEW w \in Writers,
           \/ Bodies!Remember(w) \/ Bodies!ScanChannel(w) \/ Bodies!ScanLists(w)
           \/ Bodies!ScanHistory(w) \/ Bodies!PostPass(w)
           \/ Bodies!Compaction(w) \/ Bodies!Improve(w) \/ Bodies!Refresh(w) \/ Bodies!Edit(w)
    PROVE  BodiesInv'
<1>1. PICK op \in Bodies!Ops.memory \cup Bodies!Ops.catalog, facts \in {Bodies!NewFacts, {Null}} :
         /\ Bodies!Begin(w, op, facts)
         /\ op \in {"append", "note"} <=> facts = Bodies!NewFacts
         /\ facts \in {Bodies!NewFacts, {Null}}
  <2>1. Bodies!Ops.memory \cup Bodies!Ops.catalog = {"append", "compact", "edit", "note", "refresh"}
    BY DEF Bodies!Ops
  <2>2. CASE Bodies!Begin(w, "append", Bodies!NewFacts)
    BY <2>1, <2>2
  <2>3. CASE Bodies!Begin(w, "note", Bodies!NewFacts)
    BY <2>1, <2>3
  <2>4. Bodies!NewFacts # {Null}
    BY BodiesAssumption DEF Bodies!NewFacts
  <2>5. CASE \E op \in {"compact", "refresh", "edit"} : Bodies!Begin(w, op, {Null})
    BY <2>1, <2>4, <2>5
  <2> QED  BY <2>2, <2>3, <2>5 DEF Bodies!Remember, Bodies!ScanChannel, Bodies!ScanLists,
              Bodies!ScanHistory, Bodies!PostPass, Bodies!Compaction, Bodies!Improve,
              Bodies!Refresh, Bodies!Edit, Bodies!FromTurn, Bodies!FromHistory, Bodies!FromCalls
<1>2. Bodies!NewFacts \in SUBSET Facts /\ Null \notin Bodies!NewFacts
  BY BodiesAssumption DEF Bodies!NewFacts
<1>3. facts \in SUBSET (Facts \cup {Null})
  BY <1>1, <1>2
<1>4. \A fact \in facts : op \in {"append", "note"} <=> fact # Null
  BY <1>1, <1>2
<1> QED  BY <1>1, <1>3, <1>4, BeginSound
-----------------------------------------------------------------------------
(* The steps of a writer                                                    *)

(* A writer does not find itself before there is a row. *)
LEMMA WriterIsLater ==
    ASSUME BodiesInv, NEW w \in Writers, writer[w] # Null
    PROVE  skill # 0
  BY DEF BodiesInv, TextTypes

LEMMA LookSound ==
    ASSUME BodiesInv, NEW w \in Writers, Bodies!Look(w)
    PROVE  BodiesInv'
<1>1. UNCHANGED <<skill, r2, body, acked, raced>> /\ writer[w] # Null /\ writer[w].at = "look"
  BY DEF Bodies!Look, Bodies!At
<1>2. CASE Bodies!End(w)
  BY <1>1, <1>2, WriterEnds
<1>3. CASE Bodies!Present /\ Bodies!Become(w, [writer[w] EXCEPT !.at = "load", !.version = skill])
  <2> DEFINE new == [writer[w] EXCEPT !.at = "load", !.version = skill]
  <2>1. skill \in Bodies!Versions
    BY <1>3 DEF Bodies!Present
  <2>2. /\ new \in Bodies!Call /\ new.at = "load" /\ new.version = skill /\ new.op = writer[w].op
        /\ new.fact = writer[w].fact /\ new.late = writer[w].late
    BY <1>1, <2>1, WriterShape DEF Bodies!Call
  <2> HIDE DEF new
  <2>3. WriterShaped(new) /\ Knows(new)
    BY <1>1, <2>1, <2>2, WriterShape DEF WriterShaped, Knows, Bodies!Versions
  <2>4. /\ body' \in [Bodies!Versions -> Bodies!Body \cup {Null}]
        /\ Bodies!Present /\ ~raced =>
              (body'[skill] # Null => acked \subseteq Bodies!All(body'[skill]))
    BY <1>1 DEF BodiesInv, TextTypes, TextKept, Bodies!All
  <2> QED  BY <1>1, <1>3, <2>2, <2>3, <2>4, WriterIsLater, WriterMoves DEF new
<1> QED  BY <1>2, <1>3 DEF Bodies!Look

(* What is read under the version of a writer is what is written back.      *)
LEMMA LoadSound ==
    ASSUME BodiesInv, NEW w \in Writers, Bodies!Load(w)
    PROVE  BodiesInv'
<1>1. /\ UNCHANGED <<skill, r2, acked, raced>> /\ writer[w] # Null /\ writer[w].at = "load"
      /\ skill # 0 /\ writer[w] \in Bodies!Call /\ writer[w].version \in Bodies!Versions
      /\ Bodies!Present /\ ~raced => Knows(writer[w])
  BY WriterIsLater, WriterShape DEF Bodies!Load, Bodies!At, WriterShaped
<1>2. PICK read \in Bodies!Body \cup {Null} : read = Bodies!Download(writer[w].version)
  BY <1>1, DownloadIs
<1>3. PICK next \in {"check", "get"} :
         next = IF writer[w].op \in {"append", "compact"} THEN "check" ELSE "get"
  OBVIOUS
<1>4. CASE UNCHANGED body /\ Bodies!End(w)
  BY <1>1, <1>4, WriterEnds
<1>5. CASE /\ UNCHANGED body /\ writer[w].op = "refresh"
           /\ Bodies!Become(w, [writer[w] EXCEPT !.at = "get", !.late = TRUE])
  <2> DEFINE new == [writer[w] EXCEPT !.at = "get", !.late = TRUE]
  <2>1. /\ new \in Bodies!Call /\ new.at = "get" /\ new.late = TRUE /\ new.op = writer[w].op
        /\ new.fact = writer[w].fact /\ new.version = writer[w].version
    BY <1>1 DEF Bodies!Call
  <2> HIDE DEF new
  <2>2. WriterShaped(new) /\ Knows(new)
    BY <1>1, <1>5, <2>1, WriterShape DEF WriterShaped, Knows
  <2>3. /\ body' \in [Bodies!Versions -> Bodies!Body \cup {Null}]
        /\ Bodies!Present /\ ~raced =>
              (body'[skill] # Null => acked \subseteq Bodies!All(body'[skill]))
    BY <1>5 DEF BodiesInv, TextTypes, TextKept, Bodies!All
  <2> QED  BY <1>1, <1>5, <2>1, <2>2, <2>3, WriterMoves DEF new
<1>6. ASSUME body' = [body EXCEPT ![writer[w].version] = read]
      PROVE  /\ body' \in [Bodies!Versions -> Bodies!Body \cup {Null}]
             /\ Bodies!Present /\ ~raced =>
                   /\ body'[skill] # Null => acked \subseteq Bodies!All(body'[skill])
                   /\ \A v \in Bodies!Versions : v > skill => body'[v] = body[v]
  <2>1. /\ body' \in [Bodies!Versions -> Bodies!Body \cup {Null}]
        /\ body'[writer[w].version] = read
        /\ \A v \in Bodies!Versions \ {writer[w].version} : body'[v] = body[v]
    BY <1>1, <1>6 DEF BodiesInv, TextTypes
  <2> SUFFICES ASSUME Bodies!Present, ~raced
               PROVE  /\ body'[skill] # Null => acked \subseteq Bodies!All(body'[skill])
                      /\ \A v \in Bodies!Versions : v > skill => body'[v] = body[v]
    BY <2>1
  <2>2. writer[w].version <= skill /\ skill \in Bodies!Versions
    BY <1>1 DEF Knows, Bodies!Present
  <2>3. body[skill] # Null => acked \subseteq Bodies!All(body[skill])
    BY DEF BodiesInv, TextKept
  <2>4. writer[w].version = skill => acked \subseteq Bodies!All(read)
    BY <1>1, <1>2, DownloadIs
  <2>5. body'[skill] # Null => acked \subseteq Bodies!All(body'[skill])
    BY <2>1, <2>2, <2>3, <2>4
  <2> QED  BY <1>1, <2>1, <2>2, <2>5 DEF Bodies!Versions
<1>7. CASE body' = [body EXCEPT ![writer[w].version] = read] /\ Bodies!End(w)
  BY <1>1, <1>6, <1>7, WriterMoves DEF Bodies!End
<1>8. ASSUME body' = [body EXCEPT ![writer[w].version] = read], read # Null,
             NEW text \in Bodies!Rewritten(w, read),
             Bodies!Become(w, [writer[w] EXCEPT !.at = next, !.body = text])
      PROVE  BodiesInv'
  <2> DEFINE new == [writer[w] EXCEPT !.at = next, !.body = text]
  <2>1. /\ text \in Bodies!Body
        /\ writer[w].op # "edit" => Bodies!All(read) \subseteq Bodies!All(text)
        /\ writer[w].fact # Null => writer[w].fact \in Bodies!All(text)
    BY <1>1, <1>2, <1>8, RewrittenHolds
  <2>2. /\ new \in Bodies!Call /\ new.at = next /\ new.body = text /\ new.op = writer[w].op
        /\ new.fact = writer[w].fact /\ new.version = writer[w].version /\ new.late = writer[w].late
    BY <1>1, <2>1 DEF Bodies!Call
  <2>3. Bodies!Become(w, new)
    BY <1>8
  <2> HIDE DEF new
  <2>4. WriterShaped(new)
    BY <1>1, <1>3, <2>1, <2>2, WriterShape DEF WriterShaped, Sure
  <2>5. ASSUME Bodies!Present, ~raced
        PROVE  Knows(new)
    <3>1. writer[w].version = skill => acked \subseteq Bodies!All(read)
      BY <1>1, <1>2, <2>5, DownloadIs
    <3>2. next = "check" <=> writer[w].op \in Sure
      BY <1>3 DEF Sure
    <3>3. next = "get" /\ ~writer[w].late => writer[w].version = skill
      BY <1>1, <2>5, <3>2 DEF Knows
    <3>4. writer[w].version <= skill
      BY <1>1, <2>5 DEF Knows
    <3> QED  BY <1>3, <2>1, <2>2, <3>1, <3>2, <3>3, <3>4 DEF Knows, Sure
  <2> QED  BY <1>1, <1>3, <1>6, <1>8, <2>2, <2>3, <2>4, <2>5, WriterMoves
<1> QED  BY <1>2, <1>3, <1>4, <1>5, <1>7, <1>8 DEF Bodies!Load

LEMMA CheckSound ==
    ASSUME BodiesInv, NEW w \in Writers, Bodies!Check(w)
    PROVE  BodiesInv'
<1>1. /\ UNCHANGED <<skill, r2, body, acked, raced>> /\ writer[w] # Null /\ writer[w].at = "check"
      /\ skill # 0 /\ writer[w] \in Bodies!Call /\ WriterShaped(writer[w])
      /\ Bodies!Present /\ ~raced => Knows(writer[w])
  BY WriterIsLater, WriterShape DEF Bodies!Check, Bodies!At
<1>2. /\ body' \in [Bodies!Versions -> Bodies!Body \cup {Null}]
      /\ Bodies!Present /\ ~raced =>
            (body'[skill] # Null => acked \subseteq Bodies!All(body'[skill]))
  BY <1>1 DEF BodiesInv, TextTypes, TextKept, Bodies!All
<1>3. CASE Bodies!End(w)
  BY <1>1, <1>3, WriterEnds
<1>4. CASE Bodies!Present /\ skill = writer[w].version
         /\ Bodies!Become(w, [writer[w] EXCEPT !.at = "get"])
  <2> DEFINE new == [writer[w] EXCEPT !.at = "get"]
  <2>1. /\ new \in Bodies!Call /\ new.at = "get" /\ new.body = writer[w].body
        /\ new.op = writer[w].op
        /\ new.fact = writer[w].fact /\ new.version = writer[w].version
    BY <1>1 DEF Bodies!Call
  <2> HIDE DEF new
  <2>2. WriterShaped(new) /\ (Bodies!Present /\ ~raced => Knows(new))
    BY <1>1, <1>4, <2>1 DEF WriterShaped, Knows
  <2> QED  BY <1>1, <1>2, <1>4, <2>1, <2>2, WriterMoves DEF new
<1>5. CASE /\ writer[w].op = "append" /\ writer[w].tries < Attempts
           /\ Bodies!Become(w, [writer[w] EXCEPT !.at = "look", !.version = Null,
                                        !.body = Bodies!Empty, !.tries = @ + 1])
  <2> DEFINE new == [writer[w] EXCEPT !.at = "look", !.version = Null,
                                    !.body = Bodies!Empty, !.tries = @ + 1]
  <2>1. Bodies!Empty \in Bodies!Body /\ writer[w].tries + 1 \in 1..Attempts
    BY <1>1, <1>5, WriterShape, BodiesAssumption DEF Bodies!Empty, Bodies!Body
  <2>2. /\ new \in Bodies!Call /\ new.at = "look" /\ new.op = writer[w].op
        /\ new.fact = writer[w].fact /\ new.late = writer[w].late
    BY <1>1, <2>1 DEF Bodies!Call
  <2> HIDE DEF new
  <2>3. WriterShaped(new) /\ Knows(new)
    BY <1>1, <2>2 DEF WriterShaped, Knows
  <2> QED  BY <1>1, <1>2, <1>5, <2>2, <2>3, WriterMoves DEF new
<1> QED  BY <1>3, <1>4, <1>5 DEF Bodies!Check

LEMMA GetSound ==
    ASSUME BodiesInv, NEW w \in Writers, Bodies!Get(w)
    PROVE  BodiesInv'
<1>1. /\ UNCHANGED <<skill, r2, body, acked, raced>> /\ writer[w] # Null /\ writer[w].at = "get"
      /\ skill # 0 /\ writer[w] \in Bodies!Call /\ WriterShaped(writer[w])
      /\ Bodies!Present /\ ~raced => Knows(writer[w])
  BY WriterIsLater, WriterShape DEF Bodies!Get, Bodies!At
<1>2. /\ body' \in [Bodies!Versions -> Bodies!Body \cup {Null}]
      /\ Bodies!Present /\ ~raced =>
            (body'[skill] # Null => acked \subseteq Bodies!All(body'[skill]))
  BY <1>1 DEF BodiesInv, TextTypes, TextKept, Bodies!All
<1>3. CASE Bodies!End(w)
  BY <1>1, <1>3, WriterEnds
<1>4. CASE /\ Bodies!Present /\ skill < MaxVersion
           /\ Bodies!Become(w, [writer[w] EXCEPT !.at = "put", !.version = skill + 1])
  <2> DEFINE new == [writer[w] EXCEPT !.at = "put", !.version = skill + 1]
  <2>1. skill + 1 \in Bodies!Versions
    BY <1>4, BodiesAssumption DEF Bodies!Present, Bodies!Versions
  <2>2. /\ new \in Bodies!Call /\ new.at = "put" /\ new.body = writer[w].body
        /\ new.op = writer[w].op
        /\ new.fact = writer[w].fact /\ new.version = skill + 1 /\ new.late = writer[w].late
    BY <1>1, <2>1 DEF Bodies!Call
  <2> HIDE DEF new
  <2>3. WriterShaped(new) /\ (Bodies!Present /\ ~raced => Knows(new))
    BY <1>1, <2>1, <2>2 DEF WriterShaped, Knows
  <2> QED  BY <1>1, <1>2, <1>4, <2>2, <2>3, WriterMoves DEF new
<1> QED  BY <1>3, <1>4 DEF Bodies!Get

(* An upload that overwrites nothing unseen leaves the row's texts as they  *)
(* are but for R2's, and is the only one that waits for its commit.         *)
LEMMA PutSound ==
    ASSUME BodiesInv, NEW w \in Writers, Bodies!Put(w)
    PROVE  BodiesInv'
<1>1. /\ writer[w] # Null /\ writer[w].at = "put" /\ skill # 0 /\ writer[w] \in Bodies!Call
      /\ WriterShaped(writer[w]) /\ writer[w].version \in Bodies!Versions
      /\ writer[w].body \in Bodies!Body
      /\ Bodies!Present /\ ~raced => Knows(writer[w])
  BY WriterIsLater, WriterShape DEF Bodies!Put, Bodies!At, WriterShaped
<1>2. CASE Bodies!End(w) /\ UNCHANGED <<r2, body, acked, raced, skill>>
  BY <1>2, WriterEnds
<1>3. ASSUME NEW k \in Bodies!Call, k = writer[w],
             r2' = k.body, acked' = IF k.op = "edit" THEN acked \cap Bodies!All(k.body) ELSE acked,
             raced' = (raced \/ Bodies!Overwrites(w)), body' = [body EXCEPT ![k.version] = k.body],
             Bodies!Become(w, [k EXCEPT !.at = "commit"]), skill' = skill
      PROVE  BodiesInv'
  <2> DEFINE new == [k EXCEPT !.at = "commit"]
  <2>1. /\ new \in Bodies!Call /\ new.at = "commit" /\ new.body = k.body /\ new.op = k.op
        /\ new.fact = k.fact /\ new.version = k.version /\ new.late = k.late
    BY <1>3 DEF Bodies!Call
  <2>2. Bodies!Become(w, new) /\ new # Null
    BY <1>3, <2>1, BodiesAssumption
  <2> HIDE DEF new
  <2>3. /\ writer'[w] = new /\ writer' \in [Writers -> Bodies!Call \cup {Null}]
        /\ \A v \in Writers \ {w} : writer'[v] = writer[v]
    BY <2>1, <2>2 DEF Bodies!Become, BodiesInv, TextTypes
  <2>4. /\ body' \in [Bodies!Versions -> Bodies!Body \cup {Null}] /\ body'[k.version] = k.body
        /\ \A v \in Bodies!Versions \ {k.version} : body'[v] = body[v]
        /\ k.version \in Bodies!Versions /\ k.body \in Bodies!Body
    BY <1>1, <1>3 DEF BodiesInv, TextTypes
  <2>5. WriterShaped(new)
    BY <1>1, <1>3, <2>1 DEF WriterShaped
  <2>6. r2' # Null /\ acked' \subseteq acked
    BY <1>3, <2>4, BodiesAssumption
  <2>7. TextTypes'
    <3>1. raced' \in BOOLEAN
      BY <1>3 DEF BodiesInv, TextTypes, Bodies!Overwrites
    <3>2. \A v \in Writers : writer'[v] # Null => WriterShaped(writer'[v])
      BY <2>3, <2>5 DEF BodiesInv, TextTypes
    <3> QED  BY <1>1, <1>3, <2>3, <2>4, <2>6, <3>1, <3>2
             DEF BodiesInv, TextTypes, Bodies!Present, WriterShaped, Bodies!All
  <2>8. ASSUME Bodies!Present', ~raced'
        PROVE  TextKept' /\ WritersKnow'
    <3>1. /\ Bodies!Present /\ ~raced /\ ~k.late
          /\ \A v \in Writers \ {w} : ~Bodies!At(v, "commit")
      BY <1>3, <2>8 DEF Bodies!Present, Bodies!Overwrites, BodiesInv, TextTypes
    <3>2. k.version = skill + 1 /\ acked' \subseteq Bodies!All(k.body) /\ skill \in Bodies!Versions
      BY <1>1, <1>3, <3>1 DEF Knows, Bodies!Present
    <3>3. body'[skill] = body[skill]
      BY <2>4, <3>2 DEF Bodies!Versions
    <3>4. TextKept'
      BY <1>3, <2>6, <3>1, <3>2, <3>3 DEF BodiesInv, TextKept, Bodies!All
    <3>5. ASSUME NEW v \in Writers, writer'[v] # Null
          PROVE  Knows(writer[v])'
      <4>1. CASE v = w
        BY <1>3, <2>1, <2>3, <2>4, <3>2, <4>1 DEF Knows, Bodies!All
      <4>2. CASE v # w
        <5>1. writer'[v] = writer[v] /\ Knows(writer[v]) /\ writer[v].at # "commit"
          BY <2>3, <3>1, <3>5, <4>2 DEF BodiesInv, WritersKnow, Bodies!At
        <5> QED  BY <1>3, <2>6, <5>1 DEF Knows, Bodies!All
      <4> QED  BY <4>1, <4>2
    <3>6. \A v \in Writers : Bodies!At(v, "commit")' => v = w
      BY <2>3, <3>1 DEF Bodies!At
    <3> QED  BY <3>4, <3>5, <3>6 DEF WritersKnow
  <2> QED  BY <2>7, <2>8 DEF BodiesInv
<1> QED  BY <1>1, <1>2, <1>3 DEF Bodies!Put

(* A commit makes the uploaded text the row's; whoever read before it is    *)
(* late, or will find that the version is another.                          *)
LEMMA CommitSound ==
    ASSUME BodiesInv, NEW w \in Writers, Bodies!Commit(w)
    PROVE  BodiesInv'
<1>1. /\ writer[w] # Null /\ writer[w].at = "commit" /\ skill # 0 /\ writer[w] \in Bodies!Call
      /\ WriterShaped(writer[w]) /\ writer[w].version \in Bodies!Versions
      /\ writer[w].body \in Bodies!Body
      /\ writer[w].fact \in Facts \cup {Null} /\ UNCHANGED <<r2, body, raced>>
      /\ Bodies!Present /\ ~raced => Knows(writer[w])
  BY WriterIsLater, WriterShape DEF Bodies!Commit, Bodies!At, WriterShaped
<1>2. CASE Bodies!End(w) /\ UNCHANGED <<skill, acked>>
  BY <1>1, <1>2, WriterEnds
<1>3. ASSUME NEW k \in Bodies!Call, k = writer[w], Bodies!Present,
             skill' = k.version, acked' = acked \cup ({k.fact} \ {Null}),
             writer' = [other \in Writers |->
                        IF other = w THEN Null
                        ELSE IF Bodies!Exposed(other) THEN [writer[other] EXCEPT !.late = TRUE]
                        ELSE writer[other]]
      PROVE  BodiesInv'
  <2>1. /\ skill' \in Bodies!Versions /\ Null \notin Bodies!Versions /\ 0 \notin Bodies!Versions
        /\ k.version \in Bodies!Versions /\ k.body \in Bodies!Body
    BY <1>1, <1>3, BodiesAssumption DEF Bodies!Versions
  <2>2. /\ writer'[w] = Null
        /\ \A v \in Writers \ {w} :
              writer'[v] = IF Bodies!Exposed(v) THEN [writer[v] EXCEPT !.late = TRUE] ELSE writer[v]
    BY <1>3
  <2>3. ASSUME NEW v \in Writers, writer'[v] # Null
        PROVE  /\ v # w /\ writer[v] # Null /\ writer[v] \in Bodies!Call
           /\ writer'[v] \in Bodies!Call
               /\ writer'[v].op = writer[v].op /\ writer'[v].at = writer[v].at
               /\ writer'[v].fact = writer[v].fact /\ writer'[v].version = writer[v].version
               /\ writer'[v].body = writer[v].body
               /\ writer'[v].late = (Bodies!Exposed(v) \/ writer[v].late)
               /\ WriterShaped(writer'[v])
    <3>1. v # w /\ writer[v] # Null
      BY <2>2, <2>3 DEF Bodies!Exposed
    <3>2. writer[v] \in Bodies!Call /\ WriterShaped(writer[v]) /\ writer[v].late \in BOOLEAN
      BY <3>1, WriterShape
    <3>3. CASE Bodies!Exposed(v)
      <4>1. writer'[v] = [writer[v] EXCEPT !.late = TRUE]
        BY <2>2, <3>1, <3>3
      <4>2. /\ writer'[v] \in Bodies!Call /\ writer'[v].late = TRUE
            /\ writer'[v].op = writer[v].op /\ writer'[v].at = writer[v].at
            /\ writer'[v].fact = writer[v].fact /\ writer'[v].version = writer[v].version
            /\ writer'[v].body = writer[v].body
        BY <3>2, <4>1 DEF Bodies!Call
      <4>3. WriterShaped(writer'[v])
        BY <3>2, <3>3, <4>2 DEF WriterShaped, Bodies!Exposed, Sure
      <4> QED  BY <3>1, <3>2, <3>3, <4>2, <4>3
    <3>4. CASE ~Bodies!Exposed(v)
      BY <2>2, <3>1, <3>2, <3>4
    <3> QED  BY <3>3, <3>4
  <2>4. writer' \in [Writers -> Bodies!Call \cup {Null}]
    <3>1. \A v \in Writers : writer'[v] \in Bodies!Call \cup {Null}
      BY <2>3
    <3>2. writer' = [v \in Writers |-> writer'[v]]
      BY <1>3
    <3> QED  BY <3>1, <3>2
  <2>5. TextTypes'
    <3>1. acked' \subseteq Facts /\ r2' # Null
      BY <1>1, <1>3 DEF BodiesInv, TextTypes
    <3>2. \A v \in Writers : writer'[v] # Null => WriterShaped(writer'[v])
      BY <2>3
    <3> QED  BY <1>1, <2>1, <2>4, <3>1, <3>2 DEF BodiesInv, TextTypes, Bodies!Present,
                  WriterShaped, Bodies!All
  <2>6. ASSUME ~raced'
        PROVE  TextKept' /\ WritersKnow'
    <3>1. /\ ~raced /\ skill \in Bodies!Versions /\ k.version = skill + 1 /\ r2 = k.body
          /\ acked \subseteq Bodies!All(k.body) /\ body[k.version] \in {Null, k.body}
      BY <1>1, <1>3, <2>6 DEF Knows, Bodies!Present
    <3>2. acked' \subseteq Bodies!All(k.body)
      BY <1>1, <1>3, <3>1 DEF WriterShaped
    <3>3. TextKept'
      BY <1>1, <1>3, <3>1, <3>2 DEF TextKept, Bodies!All
    <3>4. ASSUME NEW v \in Writers, writer'[v] # Null
          PROVE  Knows(writer[v])' /\ ~Bodies!At(v, "commit")'
      <4>1. writer[v] # Null /\ v # w /\ Knows(writer[v])
        BY <1>3, <2>3, <3>1, <3>4 DEF BodiesInv, WritersKnow
      <4>2. writer[v].at # "commit"
        BY <1>1, <1>3, <3>1, <4>1 DEF BodiesInv, WritersKnow, Bodies!At
      <4>3. CASE writer[v].at \in {"get", "put"}
        BY <2>3, <3>4, <4>1, <4>3 DEF Knows, Bodies!At, Bodies!Exposed
      <4>4. CASE writer[v].at = "load"
        <5>1. writer[v].version <= skill' /\ writer[v].version \in Bodies!Versions
          BY <1>3, <3>1, <4>1, <4>4, WriterShape DEF Knows, Bodies!Versions, WriterShaped
        <5>2. writer[v].op \notin Sure => Bodies!Exposed(v)
          BY <4>1, <4>4 DEF Bodies!Exposed, Sure
        <5> QED  BY <2>3, <3>4, <4>4, <5>1, <5>2 DEF Knows, Bodies!At
      <4>5. CASE writer[v].at = "check"
        <5>1. writer[v].version < skill' /\ writer[v].version \in Bodies!Versions
          BY <1>3, <3>1, <4>1, <4>5, WriterShape DEF Knows, Bodies!Versions, WriterShaped
        <5> QED  BY <2>1, <2>3, <3>4, <4>5, <5>1 DEF Knows, Bodies!At, Bodies!Versions
      <4>6. CASE writer[v].at = "look"
        BY <2>3, <3>4, <4>6 DEF Knows, Bodies!At
      <4> QED  BY <4>1, <4>2, <4>3, <4>4, <4>5, <4>6, WriterShape DEF Stations
    <3> QED  BY <3>3, <3>4 DEF WritersKnow, Bodies!At
  <2> QED  BY <2>5, <2>6 DEF BodiesInv
<1> QED  BY <1>1, <1>2, <1>3 DEF Bodies!Commit

LEMMA BodiesInitSound ==
    ASSUME Bodies!Init
    PROVE  BodiesInv
<1>1. Null \notin Bodies!Versions /\ 0 \notin Bodies!Versions
  BY BodiesAssumption DEF Bodies!Versions
<1> QED  BY <1>1 DEF Bodies!Init, BodiesInv, TextTypes, Bodies!Present

LEMMA BodiesNextSound ==
    ASSUME BodiesInv, [Bodies!Next]_(Bodies!vars)
    PROVE  BodiesInv'
<1>1. CASE Bodies!SeedWorkspace \/ Bodies!SeedUser \/ Bodies!SeedChannel \/ Bodies!Upsert
  BY <1>1, CreatedSound DEF Bodies!SeedWorkspace, Bodies!SeedUser, Bodies!SeedChannel, Bodies!Upsert
<1>2. CASE Bodies!ShowMemory \/ Bodies!ShowInstalled \/ Bodies!LoadSkill
  BY <1>2, ServedSound DEF Bodies!ShowMemory, Bodies!ShowInstalled, Bodies!LoadSkill
<1>3. CASE Bodies!Delete \/ Bodies!Evict \/ Bodies!Restart
  BY <1>3, DeleteSound, EvictSound, RestartSound
<1>4. ASSUME NEW w \in Writers,
             \/ Bodies!Remember(w) \/ Bodies!ScanChannel(w) \/ Bodies!ScanLists(w)
             \/ Bodies!ScanHistory(w) \/ Bodies!PostPass(w)
             \/ Bodies!Compaction(w) \/ Bodies!Improve(w) \/ Bodies!Refresh(w) \/ Bodies!Edit(w)
      PROVE  BodiesInv'
  BY <1>4, BeginsSound
<1>5. ASSUME NEW w \in Writers,
             Bodies!Look(w) \/ Bodies!Load(w) \/ Bodies!Check(w) \/ Bodies!Get(w)
                \/ Bodies!Put(w) \/ Bodies!Commit(w)
      PROVE  BodiesInv'
  BY <1>5, LookSound, LoadSound, CheckSound, GetSound, PutSound, CommitSound
<1>6. CASE UNCHANGED Bodies!vars
  <2>1. /\ UNCHANGED <<skill, r2, acked, raced, writer, body>>
        /\ body' \in [Bodies!Versions -> Bodies!Body \cup {Null}]
    BY <1>6 DEF Bodies!vars, BodiesInv, TextTypes
  <2> QED  BY <2>1, CacheMoves DEF BodiesInv, TextKept, Bodies!All
<1> QED  BY <1>1, <1>2, <1>3, <1>4, <1>5, <1>6 DEF Bodies!Next
-----------------------------------------------------------------------------
(* SkillBodies' invariant, whenever that side moves. *)
SideInv == side = "bodies" => BodiesInv

LEMMA SideInvAlways == SideSpec => []SideInv
<1>1. SideInit => SideInv
  BY BodiesInitSound DEF SideInit, SideInv
<1>2. SideInv /\ [CallsMove \/ BodiesMove]_<<side, vars, bodies>> => SideInv'
  <2> SUFFICES ASSUME BodiesInv, side = "bodies", [CallsMove \/ BodiesMove]_<<side, vars, bodies>>
               PROVE  BodiesInv'
    BY DEF SideInv, CallsMove, BodiesMove
  <2>1. CASE BodiesMove
    BY <2>1, BodiesNextSound DEF BodiesMove
  <2>2. CASE UNCHANGED bodies
    BY <2>2, BodiesNextSound DEF bodies, Bodies!vars
  <2> QED  BY <2>1, <2>2 DEF CallsMove
<1> QED  BY <1>1, <1>2, PTL DEF SideSpec

(* What was reported as written is in the text the next turn reads, from    *)
(* the cache or from R2, whatever appends, compactions, refreshes, edits,   *)
(* deletions, evictions, failures and restarts interleave, as long as no    *)
(* writer uploads over a text it has not seen (app/memory/append.py).       *)
THEOREM ReportedIsRemembered == SideSpec => []Remembered
<1>1. SideInv => Remembered
  <2> SUFFICES ASSUME BodiesInv, Bodies!Present, ~raced
               PROVE  acked \subseteq Bodies!All(Bodies!Download(skill))
    BY DEF SideInv, Remembered, Bodies!Remembered
  <2> QED  BY DownloadIs DEF Bodies!Present
<1> QED  BY <1>1, SideInvAlways, PTL
=============================================================================
