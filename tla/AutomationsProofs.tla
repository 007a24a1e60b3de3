--------------------------- MODULE AutomationsProofs ---------------------------
(***************************************************************************)
(* What Automations promises, for any number of members, names, events,     *)
(* ids, secrets and faults.                                                 *)
(***************************************************************************)
EXTENDS Automations, FiniteSetTheorems, TLAPS

-----------------------------------------------------------------------------
(* The constants and the inductive invariant                                *)

(* Null is no record and no number, and finitely many events are accepted. *)
Constants ==
    /\ MaxIds \in Nat /\ MaxSecrets \in Nat
    /\ IsFiniteSet(Fires)
    /\ Null \notin Row \cup Call \cup Fire \cup Run \cup Nat

TypeInv ==
    /\ rows \in [Ids -> Row \cup {Null}]
    /\ trigger \in [Ids -> {"none", "live", "deleted"}]
    /\ call \in [Users -> Call \cup {Null}]
    /\ fire \in [Fires -> Fire \cup {Null}]
    /\ run \in [Fires -> Run \cup {Null}]
    /\ used \in Nat /\ secrets \in Nat /\ faults \in Nat

(* An id in use was issued, so that an id issued now is nobody's. *)
Issued ==
    /\ \A id \in Ids : rows[id] # Null => id <= used
    /\ \A f \in Fires : (fire[f] # Null => fire[f].row <= used)
    /\ \A f \in Fires : (run[f] # Null => run[f].row <= used)
    /\ \A id \in Ids : rows[id] # Null /\ rows[id].trigger # Null => rows[id].trigger <= used
    /\ \A u \in Users : call[u] # Null /\ call[u].trigger # Null => call[u].trigger <= used

(* A call has a trigger once it provisioned one, and what it has is live. *)
CallHolds(c) ==
    c # Null =>
        /\ c.trigger # Null => trigger[c.trigger] = "live"
        /\ c.at \in {"pipedream", "composio"} => c.trigger = Null
        /\ c.at = "cleanup" => c.trigger # Null

(* The trigger of a row or of a call is live and has no other holder. *)
Holders ==
    /\ \A a \in Ids : rows[a] # Null /\ rows[a].trigger # Null => trigger[rows[a].trigger] = "live"
    /\ \A u \in Users : CallHolds(call[u])
    /\ \A a, b \in Ids : rows[a] # Null /\ rows[b] # Null /\ rows[a].trigger # Null
                         /\ rows[a].trigger = rows[b].trigger => a = b
    /\ \A u, v \in Users : call[u] # Null /\ call[v] # Null /\ call[u].trigger # Null
                           /\ call[u].trigger = call[v].trigger => u = v
    /\ \A u \in Users, a \in Ids : call[u] # Null /\ rows[a] # Null /\ call[u].trigger # Null
                                   => rows[a].trigger # call[u].trigger

NamesAreUnique ==
    \A a, b \in Ids : rows[a] # Null /\ rows[b] # Null /\ rows[a].name = rows[b].name => a = b

(* The row of a run and the task that is to finish it agree. *)
RunAgrees(f) ==
    /\ fire[f] # Null /\ fire[f].at = "spawned" => run[f] = Null
    /\ fire[f] # Null /\ fire[f].at # "spawned" =>
          /\ run[f] # Null /\ run[f].status = "running"
          /\ run[f].row = fire[f].row /\ run[f].prompt = fire[f].prompt
    /\ run[f] # Null /\ run[f].status = "running" =>
          fire[f] # Null \/ faults > 0 \/ rows[run[f].row] = Null

Runs == \A f \in Fires : RunAgrees(f)

Ended(id) == {f \in Fires : run[f] # Null /\ run[f].row = id /\ run[f].status # "running"}

(* What a task read of the count is no more than what was finished then. *)
Measured ==
    \A f \in Fires : fire[f] # Null /\ fire[f].at = "write" /\ fire[f].count # Null =>
        fire[f].count <= Cardinality(Ended(fire[f].row))

Inv == TypeInv /\ Issued /\ Holders /\ NoOrphanTrigger /\ NamesAreUnique /\ Runs
       /\ BooksAgree /\ Measured
-----------------------------------------------------------------------------
(* What the invariant says of a step that leaves part of the state alone    *)

(* No id that was issued comes back to life. *)
NoneRevived == \A id \in Ids : id <= used /\ rows[id] = Null => rows'[id] = Null

LEMMA RunsStay ==
    ASSUME Inv, UNCHANGED <<fire, run>>, faults' \in Nat, faults' >= faults, NoneRevived
    PROVE  Runs'
<1> SUFFICES ASSUME NEW f \in Fires
             PROVE  RunAgrees(f)'
  BY DEF Runs
<1>1. RunAgrees(f) /\ faults \in Nat
  BY DEF Inv, Runs, TypeInv
<1>2. run[f] # Null => run[f].row \in Ids /\ run[f].row <= used
  BY DEF Inv, TypeInv, Issued, Run
<1> QED  BY <1>1, <1>2 DEF RunAgrees, NoneRevived

(* The books hold as long as no row counts more or shows another status. *)
LEMMA BooksStay ==
    ASSUME Inv, UNCHANGED <<fire, run>>,
           \A id \in Ids : rows'[id] # Null =>
               \/ rows[id] # Null /\ rows'[id].count = rows[id].count
                                  /\ rows'[id].last = rows[id].last
               \/ rows'[id].count = 0 /\ rows'[id].last = "none",
           Constants
    PROVE  BooksAgree' /\ Measured'
<1>1. \A id : Ended(id)' = Ended(id) /\ Cardinality(Ended(id)) \in Nat
  <2> TAKE id
  <2>1. IsFiniteSet(Ended(id))
    BY FS_Subset DEF Ended, Constants
  <2> QED  BY <2>1, FS_CardinalityType DEF Ended
<1>2. BooksAgree'
  <2> SUFFICES ASSUME NEW id \in Ids, rows'[id] # Null
               PROVE  /\ rows'[id].count <= Cardinality(Ended(id)')
                      /\ rows'[id].last # "none" =>
                            \E f \in Ended(id)' : run'[f].status = rows'[id].last
    BY DEF BooksAgree, Ended, Live
  <2>1. CASE rows[id] # Null /\ rows'[id].count = rows[id].count
                             /\ rows'[id].last = rows[id].last
    BY <1>1, <2>1 DEF Inv, BooksAgree, Ended, Live
  <2>2. CASE rows'[id].count = 0 /\ rows'[id].last = "none"
    BY <1>1, <2>2
  <2> QED  BY <2>1, <2>2
<1>3. Measured'
  BY <1>1 DEF Inv, Measured
<1> QED  BY <1>2, <1>3

(* What identifies a row does not change. *)
SameRows ==
    \A id \in Ids : /\ (rows'[id] # Null) <=> (rows[id] # Null)
                    /\ rows[id] # Null => /\ rows'[id].name = rows[id].name
                                          /\ rows'[id].trigger = rows[id].trigger

LEMMA HoldersStay ==
    ASSUME Inv, SameRows, UNCHANGED <<trigger, call, used, lost>>
    PROVE  Holders' /\ NoOrphanTrigger' /\ NamesAreUnique' /\ NoneRevived
<1>1. Holders'
  BY DEF Inv, Holders, CallHolds, SameRows
<1>2. NoOrphanTrigger'
  BY DEF Inv, NoOrphanTrigger, Held, Live, SameRows
<1>3. NamesAreUnique'
  BY DEF Inv, NamesAreUnique, SameRows
<1> QED  BY <1>1, <1>2, <1>3 DEF SameRows, NoneRevived
-----------------------------------------------------------------------------
(* The members' edits                                                       *)

(* A row is rewritten, what identifies it and its books kept. *)
LEMMA EditSound ==
    ASSUME Constants, Inv, NEW id \in Ids, rows[id] # Null, NEW new \in Row,
           new.name = rows[id].name, new.trigger = rows[id].trigger,
           new.count = rows[id].count, new.last = rows[id].last,
           rows' = [rows EXCEPT ![id] = new], secrets' \in Nat,
           UNCHANGED <<trigger, call, fire, run, used, lost, faults>>
    PROVE  Inv'
<1>1. /\ rows'[id] = new /\ new # Null
      /\ \A other \in Ids \ {id} : rows'[other] = rows[other]
  BY DEF Inv, TypeInv, Constants
<1>2. SameRows
  BY <1>1 DEF SameRows
<1>3. TypeInv'
  BY DEF Inv, TypeInv
<1>4. Issued'
  BY <1>2 DEF Inv, Issued, SameRows
<1>5. Holders' /\ NoOrphanTrigger' /\ NamesAreUnique' /\ NoneRevived
  BY <1>2, HoldersStay
<1>6. Runs'
  BY <1>5, RunsStay DEF Inv, TypeInv
<1>7. BooksAgree' /\ Measured'
  <2>1. \A other \in Ids : rows'[other] # Null =>
            rows[other] # Null /\ rows'[other].count = rows[other].count
                               /\ rows'[other].last = rows[other].last
    BY <1>1
  <2> QED  BY <2>1, BooksStay
<1> QED  BY <1>3, <1>4, <1>5, <1>6, <1>7 DEF Inv

LEMMA SetPausedSound ==
    ASSUME Constants, Inv, NEW u \in Users, NEW paused \in BOOLEAN, SetPaused(u, paused)
    PROVE  Inv'
<1>1. PICK id \in Live : rows' = [rows EXCEPT ![id].paused = paused]
  BY DEF SetPaused
<1> DEFINE new == [rows[id] EXCEPT !.paused = paused]
<1>2. id \in Ids /\ rows[id] # Null /\ rows[id] \in Row
  BY DEF Live, Inv, TypeInv
<1>3. /\ new \in Row /\ new.name = rows[id].name /\ new.trigger = rows[id].trigger
      /\ new.count = rows[id].count /\ new.last = rows[id].last
  BY <1>2 DEF Row
<1>4. rows' = [rows EXCEPT ![id] = new]
  BY <1>1
<1>5. UNCHANGED <<trigger, call, fire, run, used, lost, faults>> /\ secrets' \in Nat
  BY DEF SetPaused, Inv, TypeInv
<1> HIDE DEF new
<1> QED  BY <1>2, <1>3, <1>4, <1>5, EditSound

LEMMA UpdateSound ==
    ASSUME Constants, Inv, NEW u \in Users, Update(u)
    PROVE  Inv'
<1>1. PICK id \in Live : rows' = [rows EXCEPT ![id].prompt = "edited"]
  BY DEF Update
<1> DEFINE new == [rows[id] EXCEPT !.prompt = "edited"]
<1>2. id \in Ids /\ rows[id] # Null /\ rows[id] \in Row
  BY DEF Live, Inv, TypeInv
<1>3. /\ new \in Row /\ new.name = rows[id].name /\ new.trigger = rows[id].trigger
      /\ new.count = rows[id].count /\ new.last = rows[id].last
  BY <1>2 DEF Row, Prompts
<1>4. rows' = [rows EXCEPT ![id] = new]
  BY <1>1
<1>5. UNCHANGED <<trigger, call, fire, run, used, lost, faults>> /\ secrets' \in Nat
  BY DEF Update, Inv, TypeInv
<1> HIDE DEF new
<1> QED  BY <1>2, <1>3, <1>4, <1>5, EditSound

LEMMA RotateSound ==
    ASSUME Constants, Inv, NEW u \in Users, Rotate(u)
    PROVE  Inv'
<1>1. PICK id \in Live : rows' = [rows EXCEPT ![id].secret = secrets']
  BY DEF Rotate
<1> DEFINE new == [rows[id] EXCEPT !.secret = secrets']
<1>2. id \in Ids /\ rows[id] # Null /\ rows[id] \in Row
  BY DEF Live, Inv, TypeInv
<1>3. secrets' \in Secrets /\ secrets' \in Nat
  BY DEF Rotate, Inv, TypeInv, Secrets, Constants
<1>4. /\ new \in Row /\ new.name = rows[id].name /\ new.trigger = rows[id].trigger
      /\ new.count = rows[id].count /\ new.last = rows[id].last
  BY <1>2, <1>3 DEF Row
<1>5. rows' = [rows EXCEPT ![id] = new]
  BY <1>1
<1>6. UNCHANGED <<trigger, call, fire, run, used, lost, faults>>
  BY DEF Rotate
<1> HIDE DEF new
<1> QED  BY <1>2, <1>3, <1>4, <1>5, <1>6, EditSound
-----------------------------------------------------------------------------
(* Creation and deletion                                                    *)

(* A call moves on with the trigger it had, or ends without one. *)
LEMMA CallSound ==
    ASSUME Constants, Inv, NEW u \in Users, NEW new \in Call \cup {Null}, Become(u, new),
           CallHolds(new), new # Null => {new.trigger} \ {Null} = Held(u),
           new = Null => Held(u) = {},
           UNCHANGED <<rows, trigger, fire, run, used, secrets, lost>>,
           faults' \in Nat, faults' >= faults
    PROVE  Inv'
<1>1. /\ call'[u] = new
      /\ \A v \in Users \ {u} : call'[v] = call[v]
      /\ call' \in [Users -> Call \cup {Null}]
  BY DEF Become, Inv, TypeInv
<1>2. \A v \in Users : Held(v)' = Held(v)
  BY <1>1 DEF Held
<1>3. \A v \in Users : call'[v] # Null /\ call'[v].trigger # Null =>
          call[v] # Null /\ call[v].trigger = call'[v].trigger
  BY <1>2 DEF Held
<1>4. TypeInv'
  BY <1>1 DEF Inv, TypeInv
<1>5. Issued'
  BY <1>3 DEF Inv, Issued
<1>6. Holders'
  <2>1. \A v \in Users : CallHolds(call[v])'
    BY <1>1 DEF Inv, Holders, CallHolds
  <2> QED  BY <1>3, <2>1 DEF Inv, Holders
<1>7. NoOrphanTrigger'
  BY <1>2 DEF Inv, NoOrphanTrigger, Live
<1>8. NamesAreUnique'
  BY DEF Inv, NamesAreUnique
<1>9. Runs'
  BY RunsStay DEF NoneRevived
<1>10. BooksAgree' /\ Measured'
  BY BooksStay
<1> QED  BY <1>4, <1>5, <1>6, <1>7, <1>8, <1>9, <1>10 DEF Inv

LEMMA CreateSound ==
    ASSUME Constants, Inv, NEW u \in Users, Create(u)
    PROVE  Inv'
<1>1. PICK name \in Names, at \in {"pipedream", "composio", "check"} :
          Become(u, [at |-> at, name |-> name, trigger |-> Null])
  BY DEF Create
<1> DEFINE new == [at |-> at, name |-> name, trigger |-> Null]
<1>2. new \in Call /\ new.trigger = Null /\ CallHolds(new)
  BY DEF Call, CallHolds
<1>3. Held(u) = {} /\ {new.trigger} \ {Null} = {}
  BY <1>2 DEF Create, Held
<1>4. /\ UNCHANGED <<rows, trigger, fire, run, used, secrets, lost>>
      /\ faults' \in Nat /\ faults' >= faults
  BY DEF Create, Inv, TypeInv
<1> QED  BY <1>1, <1>2, <1>3, <1>4, CallSound DEF Constants

LEMMA CheckSound ==
    ASSUME Constants, Inv, NEW u \in Users, Check(u)
    PROVE  Inv'
<1>1. call[u] \in Call /\ call[u] # Null /\ call[u].at = "check" /\ CallHolds(call[u])
  BY DEF Check, At, Inv, TypeInv, Holders
<1>2. /\ UNCHANGED <<rows, trigger, fire, run, used, secrets, lost>>
      /\ faults' \in Nat /\ faults' >= faults
  BY DEF Check, Inv, TypeInv
<1>3. \A at \in {"insert", "cleanup"} :
          LET new == [call[u] EXCEPT !.at = at] IN
          /\ new \in Call /\ new # Null /\ new.trigger = call[u].trigger /\ new.at = at
  BY <1>1 DEF Call, Constants
<1>4. CASE Become(u, [call[u] EXCEPT !.at = "insert"])
  <2> DEFINE new == [call[u] EXCEPT !.at = "insert"]
  <2>1. new \in Call /\ new # Null /\ CallHolds(new) /\ {new.trigger} \ {Null} = Held(u)
    BY <1>1, <1>3 DEF CallHolds, Held
  <2> HIDE DEF new
  <2> QED  BY <1>2, <1>4, <2>1, CallSound DEF new
<1>5. CASE call[u].trigger = Null /\ Become(u, Null)
  BY <1>1, <1>2, <1>5, CallSound DEF Held, CallHolds
<1>6. CASE call[u].trigger # Null /\ Become(u, [call[u] EXCEPT !.at = "cleanup"])
  <2> DEFINE new == [call[u] EXCEPT !.at = "cleanup"]
  <2>1. new \in Call /\ new # Null /\ CallHolds(new) /\ {new.trigger} \ {Null} = Held(u)
    BY <1>1, <1>3, <1>6 DEF CallHolds, Held
  <2> HIDE DEF new
  <2> QED  BY <1>2, <1>6, <2>1, CallSound DEF new
<1> QED  BY <1>4, <1>5, <1>6 DEF Check

LEMMA RefusedSound ==
    ASSUME Constants, Inv, NEW u \in Users, At(u, "pipedream") \/ At(u, "composio"), Refused(u)
    PROVE  Inv'
<1>1. Held(u) = {} /\ CallHolds(Null)
  BY DEF Inv, Holders, CallHolds, Held, At
<1>2. /\ UNCHANGED <<rows, trigger, fire, run, used, secrets, lost>>
      /\ faults' \in Nat /\ faults' >= faults /\ Become(u, Null)
  BY DEF Refused, Fault, Inv, TypeInv
<1> QED  BY <1>1, <1>2, CallSound

(* A trigger is made with an id nothing uses, and is the call's or lost. *)
LEMMA ProvisionSound ==
    ASSUME Constants, Inv, NEW u \in Users, At(u, "pipedream") \/ At(u, "composio"),
           NEW new \in Call \cup {Null}, Become(u, new), used < MaxIds, used' = used + 1,
           trigger' = [trigger EXCEPT ![used + 1] = "live"],
           \/ new # Null /\ new.at = "check" /\ new.trigger = used + 1 /\ lost' = lost
           \/ new = Null /\ lost' = lost \cup {used + 1},
           UNCHANGED <<rows, fire, run, secrets>>, faults' \in Nat, faults' >= faults
    PROVE  Inv'
<1> DEFINE id == used + 1
<1>1. id \in Ids /\ id # Null /\ used \in Nat /\ used' \in Nat
  BY DEF Inv, TypeInv, Constants, Ids
<1>2. /\ trigger'[id] = "live" /\ trigger' \in [Ids -> {"none", "live", "deleted"}]
      /\ \A other \in Ids : other <= used => trigger'[other] = trigger[other]
      /\ \A other \in Ids : trigger'[other] = "live" /\ other # id => trigger[other] = "live"
  BY <1>1 DEF Inv, TypeInv, Ids
<1>3. /\ call'[u] = new
      /\ \A v \in Users \ {u} : call'[v] = call[v]
      /\ call' \in [Users -> Call \cup {Null}]
  BY DEF Become, Inv, TypeInv
<1>4. /\ \A a \in Ids : rows[a] # Null /\ rows[a].trigger # Null =>
             rows[a].trigger \in Ids /\ rows[a].trigger <= used
      /\ \A v \in Users : call[v] # Null /\ call[v].trigger # Null =>
             call[v].trigger \in Ids /\ call[v].trigger <= used
  BY DEF Inv, TypeInv, Issued, Row, Call
<1>5. Held(u) = {}
  BY DEF Inv, Holders, CallHolds, Held, At
<1> HIDE DEF id
<1>6. TypeInv'
  BY <1>1, <1>2, <1>3 DEF Inv, TypeInv
<1>7. Issued'
  <2>1. \A v \in Users : call'[v] # Null /\ call'[v].trigger # Null => call'[v].trigger <= used'
    BY <1>1, <1>3, <1>4 DEF Ids, Call
  <2>2. /\ \A a \in Ids : rows'[a] # Null => a <= used'
        /\ \A f \in Fires : (fire'[f] # Null => fire'[f].row <= used')
        /\ \A f \in Fires : (run'[f] # Null => run'[f].row <= used')
        /\ \A a \in Ids : rows'[a] # Null /\ rows'[a].trigger # Null => rows'[a].trigger <= used'
    BY <1>1, <1>4 DEF Inv, TypeInv, Issued, Ids, Fire, Run
  <2> QED  BY <2>1, <2>2 DEF Issued
<1>8. Holders'
  <2>1. \A v \in Users : CallHolds(call[v])'
    <3> SUFFICES ASSUME NEW v \in Users  PROVE CallHolds(call[v])'
      OBVIOUS
    <3>1. CASE v = u
      BY <1>2, <1>3, <3>1 DEF CallHolds, id
    <3>2. CASE v # u
      BY <1>2, <1>3, <1>4, <3>2 DEF CallHolds, Inv, Holders
    <3> QED  BY <3>1, <3>2
  <2>2. \A a \in Ids : rows'[a] # Null /\ rows'[a].trigger # Null =>
            trigger'[rows'[a].trigger] = "live"
    BY <1>2, <1>4 DEF Inv, Holders
  <2>3. \A v \in Users \ {u} : call[v] # Null /\ call[v].trigger # Null => call[v].trigger # id
    BY <1>1, <1>4 DEF id, Ids
  <2>4. \A a \in Ids : rows[a] # Null /\ rows[a].trigger # Null => rows[a].trigger # id
    BY <1>1, <1>4 DEF id, Ids
  <2>5. call'[u] # Null => call'[u].trigger = id
    BY <1>3 DEF id
  <2>6. \A v, w \in Users : call'[v] # Null /\ call'[w] # Null /\ call'[v].trigger # Null
                            /\ call'[v].trigger = call'[w].trigger => v = w
    BY <1>3, <2>3, <2>5 DEF Inv, Holders
  <2>7. \A v \in Users, a \in Ids : call'[v] # Null /\ rows'[a] # Null /\ call'[v].trigger # Null
                                    => rows'[a].trigger # call'[v].trigger
    BY <1>1, <1>3, <2>4, <2>5 DEF Inv, Holders
  <2> QED  BY <2>1, <2>2, <2>6, <2>7 DEF Inv, Holders
<1>9. NoOrphanTrigger'
  <2> SUFFICES ASSUME NEW other \in Ids, trigger'[other] = "live"
               PROVE  \/ other \in lost'
                      \/ \E v \in Users : other \in Held(v)'
                      \/ \E a \in Live' : rows'[a].trigger = other
    BY DEF NoOrphanTrigger
  <2>1. CASE other = id
    BY <1>1, <1>3, <2>1 DEF Held, id
  <2>2. CASE other # id
    <3>1. \A v \in Users \ {u} : Held(v)' = Held(v)
      BY <1>3 DEF Held
    <3>2. \/ other \in lost
          \/ \E v \in Users \ {u} : other \in Held(v)
          \/ \E a \in Live : rows[a].trigger = other
      BY <1>2, <1>5, <2>2 DEF Inv, NoOrphanTrigger
    <3> QED  BY <3>1, <3>2 DEF Live
  <2> QED  BY <2>1, <2>2
<1>10. NamesAreUnique'
  BY DEF Inv, NamesAreUnique
<1>11. Runs'
  BY RunsStay DEF NoneRevived
<1>12. BooksAgree' /\ Measured'
  BY BooksStay
<1> QED  BY <1>6, <1>7, <1>8, <1>9, <1>10, <1>11, <1>12 DEF Inv

LEMMA ProvisionedSound ==
    ASSUME Constants, Inv, NEW u \in Users, At(u, "pipedream") \/ At(u, "composio"),
           NEW id \in Ids, Provisioned(u, id)
    PROVE  Inv'
<1> DEFINE new == [call[u] EXCEPT !.at = "check", !.trigger = id]
<1>1. id = used + 1 /\ used < MaxIds /\ used' = used + 1 /\ lost' = lost
  BY DEF Provisioned
<1>2. call[u] \in Call
  BY DEF At, Inv, TypeInv
<1>3. new \in Call /\ new # Null /\ new.at = "check" /\ new.trigger = id
  BY <1>2 DEF Call, Constants
<1>4. /\ trigger' = [trigger EXCEPT ![used + 1] = "live"]
      /\ UNCHANGED <<rows, fire, run, secrets>> /\ faults' \in Nat /\ faults' >= faults
  BY <1>1 DEF Provisioned, Inv, TypeInv
<1>5. Become(u, new)
  BY DEF Provisioned
<1> HIDE DEF new
<1> QED  BY <1>1, <1>3, <1>4, <1>5, ProvisionSound

LEMMA ProvidersSound ==
    ASSUME Constants, Inv, NEW u \in Users, ProvisionComposio(u) \/ ProvisionPipedream(u)
    PROVE  Inv'
<1>1. (At(u, "pipedream") \/ At(u, "composio")) /\ Provision(u)
  BY DEF ProvisionComposio, ProvisionPipedream
<1>2. CASE \E id \in Ids : Provisioned(u, id)
  BY <1>1, <1>2, ProvisionedSound
<1>3. CASE Refused(u)
  BY <1>1, <1>3, RefusedSound
<1>4. CASE Unanswered(u)
  <2>1. faults' \in Nat /\ faults' >= faults
    BY <1>4 DEF Unanswered, Fault, Inv, TypeInv
  <2> QED  BY <1>1, <1>4, <2>1, ProvisionSound DEF Unanswered
<1> QED  BY <1>1, <1>2, <1>3, <1>4 DEF Provision

(* The row gets an id nothing uses, and the trigger of the call. *)
LEMMA RowInserted ==
    ASSUME Constants, Inv, NEW u \in Users, call[u] # Null, call[u].at = "insert", NEW row \in Row,
           Called(call[u].name) = {}, used < MaxIds, used' = used + 1, secrets' \in Nat,
           rows' = [rows EXCEPT ![used + 1] = row], Become(u, Null),
           row.name = call[u].name, row.trigger = call[u].trigger, row.count = 0,
           row.last = "none",
           UNCHANGED <<trigger, fire, run, lost, faults>>
    PROVE  Inv'
<1> DEFINE id == used + 1
<1>1. id \in Ids /\ used \in Nat /\ used' \in Nat /\ ~(id <= used) /\ id <= used'
  BY DEF Inv, TypeInv, Constants, Ids
<1>2. /\ rows'[id] = row /\ row # Null /\ rows' \in [Ids -> Row \cup {Null}]
      /\ \A other \in Ids \ {id} : rows'[other] = rows[other]
  BY <1>1 DEF Inv, TypeInv, Constants
<1>3. /\ call'[u] = Null /\ call' \in [Users -> Call \cup {Null}]
      /\ \A v \in Users \ {u} : call'[v] = call[v]
  BY DEF Become, Inv, TypeInv
<1>4. rows[id] = Null
  BY <1>1 DEF Inv, Issued
<1>5. row.trigger # Null => row.trigger \in Ids /\ row.trigger <= used
  BY DEF Inv, TypeInv, Issued, Call
<1> HIDE DEF id
<1>6. TypeInv'
  BY <1>1, <1>2, <1>3 DEF Inv, TypeInv
<1>7. Issued'
  <2>1. \A n \in Nat : n <= used => n <= used'
    BY <1>1
  <2>2. \A a \in Ids : rows'[a] # Null => a <= used'
    BY <1>1, <1>2, <2>1 DEF Inv, Issued, Ids
  <2>3. \A f \in Fires : (fire'[f] # Null => fire'[f].row <= used')
    BY <2>1 DEF Inv, TypeInv, Issued, Fire, Ids
  <2>4. \A f \in Fires : (run'[f] # Null => run'[f].row <= used')
    BY <2>1 DEF Inv, TypeInv, Issued, Run, Ids
  <2>5. \A a \in Ids : rows'[a] # Null /\ rows'[a].trigger # Null => rows'[a].trigger <= used'
    <3> SUFFICES ASSUME NEW a \in Ids, rows'[a] # Null, rows'[a].trigger # Null
                 PROVE  rows'[a].trigger <= used'
      OBVIOUS
    <3>1. CASE a = id
      BY <1>2, <1>5, <2>1, <3>1 DEF Ids
    <3>2. CASE a # id
      <4>1. rows[a].trigger \in Nat /\ rows[a].trigger <= used
        BY <1>2, <3>2 DEF Inv, TypeInv, Issued, Row, Ids
      <4> QED  BY <1>2, <2>1, <3>2, <4>1
    <3> QED  BY <3>1, <3>2
  <2>6. \A v \in Users : call'[v] # Null /\ call'[v].trigger # Null => call'[v].trigger <= used'
    BY <1>3, <2>1 DEF Inv, TypeInv, Issued, Call, Ids
  <2> QED  BY <2>2, <2>3, <2>4, <2>5, <2>6 DEF Issued
<1>8. Holders'
  <2>1. CallHolds(call[u])
    BY DEF Inv, Holders
  <2>2. \A v \in Users : CallHolds(call[v])'
    BY <1>3 DEF Inv, Holders, CallHolds
  <2>3. \A a \in Ids : rows'[a] # Null /\ rows'[a].trigger # Null =>
            trigger'[rows'[a].trigger] = "live"
    BY <1>2, <2>1 DEF Inv, Holders, CallHolds
  <2>4. \A a \in Ids : rows[a] # Null /\ row.trigger # Null => rows[a].trigger # row.trigger
    BY DEF Inv, Holders
  <2>5. \A v \in Users \ {u} : call[v] # Null /\ call[v].trigger # Null =>
            call[v].trigger # row.trigger
    BY DEF Inv, Holders
  <2>6. \A a, b \in Ids : rows'[a] # Null /\ rows'[b] # Null /\ rows'[a].trigger # Null
                          /\ rows'[a].trigger = rows'[b].trigger => a = b
    BY <1>2, <2>4 DEF Inv, Holders
  <2>7. \A v, w \in Users : call'[v] # Null /\ call'[w] # Null /\ call'[v].trigger # Null
                            /\ call'[v].trigger = call'[w].trigger => v = w
    BY <1>3 DEF Inv, Holders
  <2>8. \A v \in Users, a \in Ids : call'[v] # Null /\ rows'[a] # Null /\ call'[v].trigger # Null
                                    => rows'[a].trigger # call'[v].trigger
    BY <1>2, <1>3, <2>5 DEF Inv, Holders
  <2> QED  BY <2>2, <2>3, <2>6, <2>7, <2>8 DEF Holders
<1>9. NoOrphanTrigger'
  <2> SUFFICES ASSUME NEW other \in Ids, trigger'[other] = "live"
               PROVE  \/ other \in lost'
                      \/ \E v \in Users : other \in Held(v)'
                      \/ \E a \in Live' : rows'[a].trigger = other
    BY DEF NoOrphanTrigger
  <2>1. \/ other \in lost
        \/ \E v \in Users : other \in Held(v)
        \/ \E a \in Live : rows[a].trigger = other
    BY DEF Inv, NoOrphanTrigger
  <2>2. CASE other \in lost
    BY <2>2
  <2>3. CASE other \in Held(u)
    BY <1>1, <1>2, <2>3 DEF Held, Live
  <2>4. ASSUME NEW v \in Users \ {u}, other \in Held(v)
        PROVE  \E w \in Users : other \in Held(w)'
    BY <1>3, <2>4 DEF Held
  <2>5. ASSUME NEW a \in Live, rows[a].trigger = other
        PROVE  \E b \in Live' : rows'[b].trigger = other
    BY <1>2, <1>4, <2>5 DEF Live
  <2> QED  BY <2>1, <2>2, <2>3, <2>4, <2>5
<1>10. NamesAreUnique'
  <2>1. \A a \in Ids : rows[a] # Null => rows[a].name # row.name
    BY DEF Called, Live
  <2> QED  BY <1>2, <2>1 DEF Inv, NamesAreUnique
<1>11. Runs'
  <2>1. NoneRevived
    BY <1>1, <1>2 DEF NoneRevived
  <2> QED  BY <2>1, RunsStay DEF Inv, TypeInv
<1>12. BooksAgree' /\ Measured'
  BY <1>2, BooksStay
<1> QED  BY <1>6, <1>7, <1>8, <1>9, <1>10, <1>11, <1>12 DEF Inv

(* A call ends, and what it held is lost or deleted. *)
LEMMA CallEnds ==
    ASSUME Constants, Inv, NEW u \in Users, Become(u, Null),
           \/ trigger' = trigger /\ lost' = lost \cup Held(u)
           \/ lost' = lost /\ call[u] # Null /\ call[u].trigger # Null
                           /\ trigger' = [trigger EXCEPT ![call[u].trigger] = "deleted"],
           UNCHANGED <<rows, fire, run, used, secrets>>, faults' \in Nat, faults' >= faults
    PROVE  Inv'
<1>1. /\ call'[u] = Null /\ call' \in [Users -> Call \cup {Null}]
      /\ \A v \in Users \ {u} : call'[v] = call[v]
  BY DEF Become, Inv, TypeInv
<1>2. /\ trigger' \in [Ids -> {"none", "live", "deleted"}]
      /\ \A id \in Ids : trigger'[id] = "live" => trigger[id] = "live"
      /\ \A id \in Ids \ Held(u) : trigger'[id] = trigger[id]
      /\ \A id \in Ids \cap Held(u) : trigger'[id] = "live" => id \in lost'
      /\ lost \subseteq lost'
  BY DEF Inv, TypeInv, Held, Call
<1>3. TypeInv'
  BY <1>1, <1>2 DEF Inv, TypeInv
<1>4. Issued'
  BY <1>1 DEF Inv, Issued
<1>5. Holders'
  <2>1. \A v \in Users : CallHolds(call[v])'
    <3> SUFFICES ASSUME NEW v \in Users \ {u}, call[v] # Null, call[v].trigger # Null
                 PROVE  trigger'[call[v].trigger] = "live"
      BY <1>1 DEF Inv, Holders, CallHolds
    <3>1. call[v].trigger \in Ids \ Held(u) /\ trigger[call[v].trigger] = "live"
      BY DEF Inv, TypeInv, Holders, CallHolds, Held, Call
    <3> QED  BY <1>2, <3>1
  <2>2. \A a \in Ids : rows'[a] # Null /\ rows'[a].trigger # Null =>
            trigger'[rows'[a].trigger] = "live"
    <3> SUFFICES ASSUME NEW a \in Ids, rows[a] # Null, rows[a].trigger # Null
                 PROVE  trigger'[rows[a].trigger] = "live"
      OBVIOUS
    <3>1. rows[a].trigger \in Ids \ Held(u) /\ trigger[rows[a].trigger] = "live"
      BY DEF Inv, TypeInv, Holders, Held, Row
    <3> QED  BY <1>2, <3>1
  <2>3. \A v, w \in Users : call'[v] # Null /\ call'[w] # Null /\ call'[v].trigger # Null
                            /\ call'[v].trigger = call'[w].trigger => v = w
    BY <1>1 DEF Inv, Holders
  <2>4. \A v \in Users, a \in Ids : call'[v] # Null /\ rows'[a] # Null /\ call'[v].trigger # Null
                                    => rows'[a].trigger # call'[v].trigger
    BY <1>1 DEF Inv, Holders
  <2> QED  BY <2>1, <2>2, <2>3, <2>4 DEF Inv, Holders
<1>6. NoOrphanTrigger'
  <2>1. \A v \in Users \ {u} : Held(v)' = Held(v)
    BY <1>1 DEF Held
  <2> QED  BY <1>2, <2>1 DEF Inv, NoOrphanTrigger, Live
<1>7. NamesAreUnique'
  BY DEF Inv, NamesAreUnique
<1>8. Runs'
  BY RunsStay DEF NoneRevived
<1>9. BooksAgree' /\ Measured'
  BY BooksStay
<1> QED  BY <1>3, <1>4, <1>5, <1>6, <1>7, <1>8, <1>9 DEF Inv

LEMMA InsertSound ==
    ASSUME Constants, Inv, NEW u \in Users, Insert(u)
    PROVE  Inv'
<1>1. call[u] \in Call /\ call[u] # Null /\ call[u].at = "insert" /\ Become(u, Null)
  BY DEF Insert, At, Inv, TypeInv
<1>2. ASSUME NEW secret \in Secrets \cup {Null}
      PROVE  /\ NewRow(u, secret) \in Row
             /\ NewRow(u, secret).name = call[u].name
             /\ NewRow(u, secret).trigger = call[u].trigger
             /\ NewRow(u, secret).count = 0 /\ NewRow(u, secret).last = "none"
  BY <1>1 DEF NewRow, Row, Call, Prompts
<1>3. CASE Called(call[u].name) = {} /\ used < MaxIds /\ used' = used + 1 /\ lost' = lost
  <2>1. CASE /\ secrets < MaxSecrets /\ secrets' = secrets + 1
             /\ rows' = [rows EXCEPT ![used'] = NewRow(u, secrets')]
    <3>1. secrets' \in Secrets /\ secrets' \in Nat
      BY <2>1 DEF Inv, TypeInv, Constants, Secrets
    <3> QED  BY <1>1, <1>2, <1>3, <2>1, <3>1, RowInserted DEF Insert
  <2>2. CASE secrets' = secrets /\ rows' = [rows EXCEPT ![used'] = NewRow(u, Null)]
    <3>1. secrets' \in Nat
      BY <2>2 DEF Inv, TypeInv
    <3> QED  BY <1>1, <1>2, <1>3, <2>2, <3>1, RowInserted DEF Insert
  <2> QED  BY <1>3, <2>1, <2>2 DEF Insert
<1>4. CASE lost' = lost \cup Held(u) /\ UNCHANGED <<rows, used, secrets>>
  <2>1. trigger' = trigger /\ UNCHANGED <<fire, run>> /\ faults' \in Nat /\ faults' >= faults
    BY DEF Insert, Inv, TypeInv
  <2> QED  BY <1>1, <1>4, <2>1, CallEnds
<1> QED  BY <1>3, <1>4 DEF Insert

LEMMA StatementFailsSound ==
    ASSUME Constants, Inv, NEW u \in Users, StatementFails(u)
    PROVE  Inv'
<1>1. /\ Become(u, Null) /\ trigger' = trigger /\ lost' = lost \cup Held(u)
      /\ UNCHANGED <<rows, fire, run, used, secrets>>
      /\ faults' \in Nat /\ faults' >= faults
  BY DEF StatementFails, Fault, Inv, TypeInv
<1> QED  BY <1>1, CallEnds

LEMMA CleanupSound ==
    ASSUME Constants, Inv, NEW u \in Users, Cleanup(u)
    PROVE  Inv'
<1>1. call[u] # Null /\ call[u].trigger # Null /\ Become(u, Null)
  BY DEF Cleanup, At, Inv, Holders, CallHolds
<1>2. faults' \in Nat /\ faults' >= faults /\ UNCHANGED <<rows, fire, run, used, secrets>>
  BY DEF Cleanup, Fault, Inv, TypeInv
<1>3. \/ trigger' = trigger /\ lost' = lost \cup Held(u)
      \/ lost' = lost /\ trigger' = [trigger EXCEPT ![call[u].trigger] = "deleted"]
  BY DEF Cleanup
<1> QED  BY <1>1, <1>2, <1>3, CallEnds

(* A deletion hands the trigger of the row to the call that cleans it up. *)
LEMMA DeleteSound ==
    ASSUME Constants, Inv, NEW u \in Users, Delete(u)
    PROVE  Inv'
<1>1. PICK id \in Live :
         /\ rows' = [rows EXCEPT ![id] = Null]
         /\ Become(u, IF rows[id].trigger = Null THEN Null
                      ELSE [at |-> "cleanup", name |-> rows[id].name,
                            trigger |-> rows[id].trigger])
  BY DEF Delete
<1> DEFINE new == IF rows[id].trigger = Null THEN Null
                  ELSE [at |-> "cleanup", name |-> rows[id].name, trigger |-> rows[id].trigger]
<1>2. id \in Ids /\ rows[id] # Null /\ rows[id] \in Row /\ call[u] = Null
  BY DEF Live, Delete, Inv, TypeInv
<1>3. UNCHANGED <<trigger, fire, run, used, secrets, lost, faults>>
  BY DEF Delete
<1>4. /\ new \in Call \cup {Null}
      /\ new = Null <=> rows[id].trigger = Null
      /\ new # Null => new.at = "cleanup" /\ new.trigger = rows[id].trigger
  BY <1>2 DEF Row, Call, Constants
<1>5. /\ rows'[id] = Null /\ rows' \in [Ids -> Row \cup {Null}]
      /\ \A a \in Ids \ {id} : rows'[a] = rows[a]
  BY <1>1, <1>2 DEF Inv, TypeInv
<1>6. /\ call'[u] = new /\ call' \in [Users -> Call \cup {Null}]
      /\ \A v \in Users \ {u} : call'[v] = call[v]
  BY <1>1, <1>4 DEF Become, Inv, TypeInv
<1> HIDE DEF new
<1>7. TypeInv'
  BY <1>3, <1>5, <1>6 DEF Inv, TypeInv
<1>8. Issued'
  <2>1. \A v \in Users : call'[v] # Null /\ call'[v].trigger # Null => call'[v].trigger <= used'
    BY <1>2, <1>3, <1>4, <1>6 DEF Inv, Issued
  <2> QED  BY <1>3, <1>5, <2>1 DEF Inv, Issued
<1>9. Holders'
  <2>1. \A v \in Users : CallHolds(call[v])'
    BY <1>2, <1>3, <1>4, <1>6 DEF Inv, Holders, CallHolds
  <2>2. \A a \in Ids : rows'[a] # Null /\ rows'[a].trigger # Null =>
            trigger'[rows'[a].trigger] = "live"
    BY <1>3, <1>5 DEF Inv, Holders
  <2>3. \A a, b \in Ids : rows'[a] # Null /\ rows'[b] # Null /\ rows'[a].trigger # Null
                          /\ rows'[a].trigger = rows'[b].trigger => a = b
    BY <1>5 DEF Inv, Holders
  <2>4. \A v \in Users \ {u} : call[v] # Null /\ call[v].trigger # Null =>
            call[v].trigger # rows[id].trigger
    BY <1>2 DEF Inv, Holders
  <2>5. \A v, w \in Users : call'[v] # Null /\ call'[w] # Null /\ call'[v].trigger # Null
                            /\ call'[v].trigger = call'[w].trigger => v = w
    BY <1>4, <1>6, <2>4 DEF Inv, Holders
  <2>6. \A a \in Ids \ {id} : rows[a] # Null /\ rows[id].trigger # Null =>
            rows[a].trigger # rows[id].trigger
    BY <1>2 DEF Inv, Holders
  <2>7. \A v \in Users, a \in Ids : call'[v] # Null /\ rows'[a] # Null /\ call'[v].trigger # Null
                                    => rows'[a].trigger # call'[v].trigger
    BY <1>4, <1>5, <1>6, <2>6 DEF Inv, Holders
  <2> QED  BY <2>1, <2>2, <2>3, <2>5, <2>7 DEF Holders
<1>10. NoOrphanTrigger'
  <2> SUFFICES ASSUME NEW other \in Ids, trigger'[other] = "live"
               PROVE  \/ other \in lost'
                      \/ \E v \in Users : other \in Held(v)'
                      \/ \E a \in Live' : rows'[a].trigger = other
    BY DEF NoOrphanTrigger
  <2>1. Held(u) = {} /\ \A v \in Users \ {u} : Held(v)' = Held(v)
    BY <1>2, <1>6 DEF Held
  <2>2. CASE rows[id].trigger = other
    <3>1. other # Null
      BY DEF Ids, Constants
    <3>2. new # Null /\ new.trigger = other
      BY <1>4, <2>2, <3>1
    <3> QED  BY <1>6, <3>1, <3>2 DEF Held
  <2>3. CASE rows[id].trigger # other
    BY <1>3, <1>5, <2>1, <2>3 DEF Inv, NoOrphanTrigger, Live
  <2> QED  BY <2>2, <2>3
<1>11. NamesAreUnique'
  BY <1>5 DEF Inv, NamesAreUnique
<1>12. Runs'
  <2>1. NoneRevived
    BY <1>5 DEF NoneRevived
  <2> QED  BY <1>3, <2>1, RunsStay DEF Inv, TypeInv
<1>13. BooksAgree' /\ Measured'
  BY <1>3, <1>5, BooksStay
<1> QED  BY <1>7, <1>8, <1>9, <1>10, <1>11, <1>12, <1>13 DEF Inv
-----------------------------------------------------------------------------
(* The tasks of the events                                                  *)

(* A task moves and no row does. *)
LEMMA FireMoves ==
    ASSUME Constants, Inv, NEW f \in Fires, NEW new \in Fire \cup {Null},
           fire' = [fire EXCEPT ![f] = new], new # Null => new.row <= used,
           run' \in [Fires -> Run \cup {Null}],
           \A g \in Fires \ {f} : run'[g] = run[g],
           run'[f] # Null => run'[f].row <= used,
           RunAgrees(f)', \A id \in Ids : Ended(id)' = Ended(id),
           \A g \in Fires : run[g] # Null /\ run[g].status # "running" => run'[g] = run[g],
           new # Null /\ new.at = "write" /\ new.count # Null =>
               new.count <= Cardinality(Ended(new.row)),
           UNCHANGED <<rows, trigger, call, used, secrets, lost, faults>>
    PROVE  Inv'
<1>1. /\ fire'[f] = new /\ fire' \in [Fires -> Fire \cup {Null}]
      /\ \A g \in Fires \ {f} : fire'[g] = fire[g]
  BY DEF Inv, TypeInv
<1>2. TypeInv'
  BY <1>1 DEF Inv, TypeInv
<1>3. Issued'
  BY <1>1 DEF Inv, Issued
<1>4. Holders' /\ NoOrphanTrigger' /\ NamesAreUnique'
  BY HoldersStay DEF SameRows
<1>5. Runs'
  BY <1>1 DEF Inv, Runs, RunAgrees
<1>6. BooksAgree'
  <2> SUFFICES ASSUME NEW id \in Ids, rows'[id] # Null
               PROVE  /\ rows'[id].count <= Cardinality(Ended(id)')
                      /\ rows'[id].last # "none" =>
                            \E g \in Ended(id)' : run'[g].status = rows'[id].last
    BY DEF BooksAgree, Ended, Live
  <2>1. /\ rows[id].count <= Cardinality(Ended(id))
        /\ rows[id].last # "none" => \E g \in Ended(id) : run[g].status = rows[id].last
    BY DEF Inv, BooksAgree, Ended, Live
  <2>2. \A g \in Ended(id) : run'[g] = run[g]
    BY DEF Ended
  <2> QED  BY <2>1, <2>2
<1>7. Measured'
  <2> SUFFICES ASSUME NEW g \in Fires, fire'[g] # Null, fire'[g].at = "write",
                      fire'[g].count # Null, NEW r, r = fire'[g].row
               PROVE  fire'[g].count <= Cardinality(Ended(r)')
    BY DEF Measured, Ended
  <2>1. r \in Ids
    BY <1>1 DEF Fire
  <2>2. CASE g = f
    BY <1>1, <2>1, <2>2
  <2>3. CASE g # f
    BY <1>1, <2>1, <2>3 DEF Inv, Measured
  <2> QED  BY <2>2, <2>3
<1> QED  BY <1>2, <1>3, <1>4, <1>5, <1>6, <1>7 DEF Inv

LEMMA EventSound ==
    ASSUME Constants, Inv, NEW f \in Fires, Event(f)
    PROVE  Inv'
<1>1. PICK id \in Ids :
         /\ rows[id] # Null
         /\ fire' = [fire EXCEPT ![f] = [at |-> "spawned", row |-> id, prompt |-> rows[id].prompt,
                                         status |-> "success", count |-> Null]]
  BY DEF Event, Events, BySecret, ByUrl, Live
<1> DEFINE new == [at |-> "spawned", row |-> id, prompt |-> rows[id].prompt,
                   status |-> "success", count |-> Null]
<1>2. rows[id] \in Row
  BY <1>1 DEF Inv, TypeInv
<1>3. /\ new \in Fire /\ new # Null /\ new.row = id /\ new.at = "spawned" /\ new.count = Null
  BY <1>2 DEF Fire, Row, Constants
<1>4. run[f] = Null /\ UNCHANGED <<rows, trigger, call, run, used, secrets, lost, faults>>
  BY DEF Event, NextFire
<1>5. id <= used
  BY <1>1 DEF Inv, Issued
<1>6. fire'[f] = new
  BY <1>1 DEF Inv, TypeInv
<1>7. RunAgrees(f)' /\ \A other : Ended(other)' = Ended(other)
  BY <1>3, <1>4, <1>6 DEF RunAgrees, Ended
<1>8. run' \in [Fires -> Run \cup {Null}]
  BY <1>4 DEF Inv, TypeInv
<1> HIDE DEF new
<1> QED  BY <1>1, <1>3, <1>4, <1>5, <1>7, <1>8, FireMoves DEF new

LEMMA StartSound ==
    ASSUME Constants, Inv, NEW f \in Fires, Start(f)
    PROVE  Inv'
<1>1. /\ fire[f] \in Fire /\ fire[f] # Null /\ fire[f].at = "spawned" /\ run[f] = Null
      /\ fire[f].row \in Ids /\ fire[f].row <= used
  BY DEF Start, Inv, TypeInv, Issued, Runs, RunAgrees, Fire
<1>2. UNCHANGED <<rows, trigger, call, used, secrets, lost, faults>>
  BY DEF Start
<1>3. CASE /\ run' = [run EXCEPT ![f] = [row |-> fire[f].row, prompt |-> fire[f].prompt,
                                         status |-> "running"]]
           /\ fire' = [fire EXCEPT ![f].at = "running"]
  <2> DEFINE new == [fire[f] EXCEPT !.at = "running"]
             started == [row |-> fire[f].row, prompt |-> fire[f].prompt, status |-> "running"]
  <2>1. /\ new \in Fire /\ new # Null /\ new.at = "running" /\ new.row = fire[f].row
        /\ new.prompt = fire[f].prompt
    BY <1>1 DEF Fire, Constants
  <2>2. /\ started \in Run /\ started # Null /\ started.row = fire[f].row
        /\ started.prompt = fire[f].prompt /\ started.status = "running"
    BY <1>1 DEF Fire, Run, Constants
  <2>3. fire' = [fire EXCEPT ![f] = new] /\ run' = [run EXCEPT ![f] = started]
    BY <1>3
  <2> HIDE DEF new, started
  <2>4. /\ fire'[f] = new /\ run'[f] = started /\ run' \in [Fires -> Run \cup {Null}]
        /\ \A g \in Fires \ {f} : run'[g] = run[g]
    BY <2>2, <2>3 DEF Inv, TypeInv
  <2>5. RunAgrees(f)'
    BY <2>1, <2>2, <2>4 DEF RunAgrees
  <2>6. \A id : Ended(id)' = Ended(id)
    BY <1>1, <2>2, <2>4 DEF Ended
  <2> QED  BY <1>1, <1>2, <2>1, <2>2, <2>3, <2>4, <2>5, <2>6, FireMoves DEF Ended
<1>4. CASE run' = run /\ fire' = [fire EXCEPT ![f] = Null]
  <2>1. fire'[f] = Null /\ run' \in [Fires -> Run \cup {Null}]
    BY <1>4 DEF Inv, TypeInv
  <2>2. RunAgrees(f)' /\ \A id : Ended(id)' = Ended(id)
    BY <1>1, <1>4, <2>1 DEF RunAgrees, Ended
  <2> QED  BY <1>1, <1>2, <1>4, <2>1, <2>2, FireMoves
<1> QED  BY <1>3, <1>4 DEF Start

LEMMA FinishedSound ==
    ASSUME Constants, Inv, NEW f \in Fires, NEW status \in {"success", "failed"},
           Finished(f, status)
    PROVE  Inv'
<1>1. /\ fire[f] \in Fire /\ fire[f] # Null /\ fire[f].at = "running" /\ RunAgrees(f)
      /\ run[f] # Null => run[f].row <= used
      /\ fire[f].row <= used
  BY DEF Finished, Inv, TypeInv, Issued, Runs
<1> DEFINE new == [fire[f] EXCEPT !.at = "measure", !.status = status]
<1>2. /\ new \in Fire /\ new # Null /\ new.at = "measure" /\ new.row = fire[f].row
      /\ new.prompt = fire[f].prompt
  BY <1>1 DEF Fire, Constants
<1>3. fire' = [fire EXCEPT ![f] = new]
  BY DEF Finished
<1>4. UNCHANGED <<rows, trigger, call, run, used, secrets, lost, faults>>
  BY DEF Finished
<1> HIDE DEF new
<1>5. fire'[f] = new /\ run' \in [Fires -> Run \cup {Null}]
  BY <1>3, <1>4 DEF Inv, TypeInv
<1>6. RunAgrees(f)' /\ \A id : Ended(id)' = Ended(id)
  BY <1>1, <1>2, <1>4, <1>5 DEF RunAgrees, Ended
<1> QED  BY <1>1, <1>2, <1>3, <1>4, <1>5, <1>6, FireMoves

LEMMA MeasureSound ==
    ASSUME Constants, Inv, NEW f \in Fires, Measure(f)
    PROVE  Inv'
<1>1. /\ fire[f] \in Fire /\ fire[f] # Null /\ fire[f].at = "measure" /\ RunAgrees(f)
      /\ run[f] # Null => run[f].row <= used
      /\ fire[f].row <= used /\ fire[f].row \in Ids
  BY DEF Measure, Inv, TypeInv, Issued, Runs, Fire
<1> DEFINE count == IF rows[fire[f].row] = Null THEN Null ELSE rows[fire[f].row].count
           new == [fire[f] EXCEPT !.at = "write", !.count = count]
<1>2. count \in Nat \cup {Null}
  BY <1>1 DEF Inv, TypeInv, Row
<1>3. /\ new \in Fire /\ new # Null /\ new.at = "write" /\ new.row = fire[f].row
      /\ new.prompt = fire[f].prompt /\ new.count = count
  BY <1>1, <1>2 DEF Fire, Constants
<1>4. count # Null => count <= Cardinality(Ended(fire[f].row))
  BY <1>1 DEF Inv, BooksAgree, Ended, Live
<1>5. fire' = [fire EXCEPT ![f] = new]
  BY DEF Measure
<1>6. UNCHANGED <<rows, trigger, call, run, used, secrets, lost, faults>>
  BY DEF Measure
<1> HIDE DEF new, count
<1>7. fire'[f] = new /\ run' \in [Fires -> Run \cup {Null}]
  BY <1>5, <1>6 DEF Inv, TypeInv
<1>8. RunAgrees(f)' /\ \A id : Ended(id)' = Ended(id)
  BY <1>1, <1>3, <1>6, <1>7 DEF RunAgrees, Ended
<1> QED  BY <1>1, <1>3, <1>4, <1>5, <1>6, <1>7, <1>8, FireMoves

(* The run of a task is counted once, when it ends. *)
LEMMA OneMoreEnded ==
    ASSUME Constants, NEW f \in Fires, run[f] # Null, run[f].status = "running",
           NEW row, run[f].row = row, run'[f] # Null, run'[f].row = run[f].row,
           run'[f].status # "running",
           \A g \in Fires \ {f} : run'[g] = run[g]
    PROVE  /\ \A id : Ended(id) \subseteq Ended(id)'
           /\ \A id : Cardinality(Ended(id)) \in Nat /\ Cardinality(Ended(id)') \in Nat
                      /\ Cardinality(Ended(id)) <= Cardinality(Ended(id)')
           /\ Cardinality(Ended(row)') = Cardinality(Ended(row)) + 1
<1>1. \A id : Ended(id) \subseteq Ended(id)'
  BY DEF Ended
<1>2. \A id : IsFiniteSet(Ended(id)) /\ IsFiniteSet(Ended(id)')
  BY FS_Subset DEF Ended, Constants
<1>3. \A id : Cardinality(Ended(id)) \in Nat /\ Cardinality(Ended(id)') \in Nat
              /\ Cardinality(Ended(id)) <= Cardinality(Ended(id)')
  BY <1>1, <1>2, FS_Subset, FS_CardinalityType
<1>4. f \notin Ended(row) /\ Ended(row)' = Ended(row) \cup {f}
  BY DEF Ended
<1>5. Cardinality(Ended(row) \cup {f}) = Cardinality(Ended(row)) + 1
  BY <1>2, <1>4, FS_AddElement
<1> QED  BY <1>1, <1>3, <1>4, <1>5

(* The run is closed, and its automation, if there is one, counts it. *)
LEMMA CloseSound ==
    ASSUME Constants, Inv, NEW f \in Fires, fire[f] # Null, fire[f].at = "write",
           fire' = [fire EXCEPT ![f] = Null],
           run' = [run EXCEPT ![f].status = fire[f].status],
           \/ rows' = rows
           \/ /\ fire[f].count # Null /\ rows[fire[f].row] # Null
              /\ rows' = [rows EXCEPT ![fire[f].row].last = fire[f].status,
                                      ![fire[f].row].count = fire[f].count + 1],
           UNCHANGED <<trigger, call, used, secrets, lost, faults>>
    PROVE  Inv'
<1> PICK id \in Ids : id = fire[f].row
  BY DEF Inv, TypeInv, Fire
<1> DEFINE closed == [run[f] EXCEPT !.status = fire[f].status]
           counted == [rows[id] EXCEPT !.last = fire[f].status, !.count = fire[f].count + 1]
<1>1. /\ fire[f] \in Fire /\ id <= used
      /\ fire[f].status \in {"success", "failed"} /\ fire[f].count \in Nat \cup {Null}
  BY DEF Inv, TypeInv, Issued, Fire
<1>2. run[f] # Null /\ run[f] \in Run /\ run[f].status = "running" /\ run[f].row = id
  BY DEF Inv, TypeInv, Runs, RunAgrees
<1>3. /\ closed \in Run /\ closed # Null /\ closed.status = fire[f].status /\ closed.row = id
  BY <1>1, <1>2 DEF Run, Constants
<1>4. rows[id] # Null /\ fire[f].count # Null =>
         /\ counted \in Row /\ counted # Null /\ counted.count = fire[f].count + 1
         /\ counted.last = fire[f].status
         /\ counted.name = rows[id].name /\ counted.trigger = rows[id].trigger
  <2> SUFFICES ASSUME rows[id] # Null, fire[f].count # Null
               PROVE  /\ counted \in Row /\ counted # Null /\ counted.count = fire[f].count + 1
                      /\ counted.last = fire[f].status
                      /\ counted.name = rows[id].name /\ counted.trigger = rows[id].trigger
    OBVIOUS
  <2>1. rows[id] \in Row /\ fire[f].count + 1 \in Nat
    BY <1>1 DEF Inv, TypeInv
  <2> QED  BY <1>1, <2>1 DEF Row, Constants
<1>5. run' = [run EXCEPT ![f] = closed]
  OBVIOUS
<1>6. \/ rows' = rows
      \/ fire[f].count # Null /\ rows[id] # Null /\ rows' = [rows EXCEPT ![id] = counted]
  OBVIOUS
<1> HIDE DEF closed, counted
<1>7. /\ run'[f] = closed /\ run' \in [Fires -> Run \cup {Null}]
      /\ \A g \in Fires \ {f} : run'[g] = run[g]
  BY <1>3, <1>5 DEF Inv, TypeInv
<1>8. /\ fire'[f] = Null /\ fire' \in [Fires -> Fire \cup {Null}]
      /\ \A g \in Fires \ {f} : fire'[g] = fire[g]
  BY DEF Inv, TypeInv
<1>9. /\ \A a \in Ids \ {id} : rows'[a] = rows[a]
      /\ \/ rows'[id] = rows[id]
         \/ fire[f].count # Null /\ rows[id] # Null /\ rows'[id] = counted
      /\ rows' \in [Ids -> Row \cup {Null}]
  BY <1>1, <1>4, <1>6 DEF Inv, TypeInv
<1>10. SameRows
  BY <1>4, <1>9 DEF SameRows
<1>11. TypeInv'
  BY <1>7, <1>8, <1>9 DEF Inv, TypeInv
<1>12. Issued'
  <2>1. \A g \in Fires : (run'[g] # Null => run'[g].row <= used)
    BY <1>1, <1>2, <1>3, <1>7 DEF Inv, Issued
  <2> QED  BY <1>8, <1>10, <2>1 DEF Inv, Issued, SameRows
<1>13. Holders' /\ NoOrphanTrigger' /\ NamesAreUnique'
  BY <1>10, HoldersStay
<1>14. Runs'
  <2> SUFFICES ASSUME NEW g \in Fires  PROVE RunAgrees(g)'
    BY DEF Runs
  <2>1. CASE g = f
    BY <1>1, <1>3, <1>7, <1>8, <2>1 DEF RunAgrees
  <2>2. CASE g # f
    <3>1. run[g] # Null => run[g].row \in Ids
      BY DEF Inv, TypeInv, Run
    <3> QED  BY <1>7, <1>8, <1>10, <2>2, <3>1 DEF Inv, Runs, RunAgrees, SameRows
  <2> QED  BY <2>1, <2>2
<1>15. /\ \A a : Ended(a) \subseteq Ended(a)'
       /\ \A a : Cardinality(Ended(a)) \in Nat /\ Cardinality(Ended(a)') \in Nat
                 /\ Cardinality(Ended(a)) <= Cardinality(Ended(a)')
       /\ Cardinality(Ended(id)') = Cardinality(Ended(id)) + 1
  BY <1>1, <1>2, <1>3, <1>7, OneMoreEnded
<1>16. BooksAgree'
  <2> SUFFICES ASSUME NEW a \in Ids, rows'[a] # Null
               PROVE  /\ rows'[a].count <= Cardinality(Ended(a)')
                      /\ rows'[a].last # "none" =>
                            \E g \in Ended(a)' : run'[g].status = rows'[a].last
    BY DEF BooksAgree, Ended, Live
  <2>1. CASE rows'[a] = rows[a]
    <3>1. /\ rows[a].count <= Cardinality(Ended(a)) /\ rows[a].count \in Nat
          /\ rows[a].last # "none" => \E g \in Ended(a) : run[g].status = rows[a].last
      BY <2>1 DEF Inv, TypeInv, BooksAgree, Ended, Live, Row
    <3>2. \A g \in Ended(a) : run'[g] = run[g]
      BY <1>2, <1>7 DEF Ended
    <3>3. rows'[a].count <= Cardinality(Ended(a)')
      <4>1. /\ Cardinality(Ended(a)) \in Nat /\ Cardinality(Ended(a)') \in Nat
            /\ Cardinality(Ended(a)) <= Cardinality(Ended(a)')
        BY <1>15
      <4> QED  BY <2>1, <3>1, <4>1
    <3> QED  BY <1>15, <2>1, <3>1, <3>2, <3>3
  <2>2. CASE a = id /\ fire[f].count # Null /\ rows[id] # Null /\ rows'[id] = counted
    <3>1. fire[f].count <= Cardinality(Ended(id))
      BY <2>2 DEF Inv, Measured
    <3>2. f \in Ended(id)'
      BY <1>1, <1>3, <1>7 DEF Ended
    <3>3. counted.count <= Cardinality(Ended(id)')
      BY <1>1, <1>4, <1>15, <2>2, <3>1
    <3> QED  BY <1>3, <1>4, <1>7, <2>2, <3>2, <3>3
  <2> QED  BY <1>9, <2>1, <2>2
<1>17. Measured'
  <2> SUFFICES ASSUME NEW g \in Fires, fire'[g] # Null, fire'[g].at = "write",
                      fire'[g].count # Null, NEW r, r = fire'[g].row
               PROVE  fire'[g].count <= Cardinality(Ended(r)')
    BY DEF Measured, Ended
  <2>1. fire'[g] = fire[g] /\ fire[g].count \in Nat
    BY <1>8 DEF Inv, TypeInv, Fire
  <2>2. fire[g].count <= Cardinality(Ended(r))
    BY <2>1 DEF Inv, Measured
  <2> QED  BY <1>15, <2>1, <2>2
<1> QED  BY <1>11, <1>12, <1>13, <1>14, <1>16, <1>17 DEF Inv

(* An automation that is deleted between the two halves takes the whole     *)
(* transaction with it: the row of the run goes on showing "running".       *)
LEMMA WriteSound ==
    ASSUME Constants, Inv, NEW f \in Fires, Write(f)
    PROVE  Inv'
<1>1. /\ fire[f] # Null /\ fire[f].at = "write" /\ fire' = [fire EXCEPT ![f] = Null]
      /\ UNCHANGED <<trigger, call, used, secrets, lost, faults>>
  BY DEF Write
<1>2. CASE fire[f].count # Null /\ rows[fire[f].row] = Null
  <2>1. run' = run /\ rows' = rows
    BY <1>2 DEF Write
  <2>2. /\ RunAgrees(f) /\ (run[f] # Null => run[f].row <= used)
        /\ run' \in [Fires -> Run \cup {Null}]
    BY <2>1 DEF Inv, Runs, Issued, TypeInv
  <2>3. fire'[f] = Null
    BY <1>1 DEF Inv, TypeInv
  <2>4. RunAgrees(f)' /\ \A id : Ended(id)' = Ended(id)
    BY <1>1, <1>2, <2>1, <2>2, <2>3 DEF RunAgrees, Ended
  <2> QED  BY <1>1, <2>1, <2>2, <2>4, FireMoves
<1>3. CASE ~(fire[f].count # Null /\ rows[fire[f].row] = Null)
  <2>1. run' = [run EXCEPT ![f].status = fire[f].status]
    BY <1>3 DEF Write
  <2>2. \/ rows' = rows
        \/ /\ fire[f].count # Null /\ rows[fire[f].row] # Null
           /\ rows' = [rows EXCEPT ![fire[f].row].last = fire[f].status,
                                   ![fire[f].row].count = fire[f].count + 1]
    BY <1>3 DEF Write
  <2> QED  BY <1>1, <2>1, <2>2, CloseSound
<1> QED  BY <1>2, <1>3

(* After the failure of a session the task is gone, and its run excused. *)
LEMMA SessionFailsSound ==
    ASSUME Constants, Inv, NEW f \in Fires, SessionFails(f)
    PROVE  Inv'
<1>1. /\ fire' \in [Fires -> Fire \cup {Null}] /\ fire'[f] = Null
      /\ \A g \in Fires \ {f} : fire'[g] = fire[g]
      /\ faults' \in Nat /\ faults' > 0
      /\ UNCHANGED <<rows, trigger, call, run, used, secrets, lost>>
  BY DEF SessionFails, Fault, Inv, TypeInv
<1>2. TypeInv'
  BY <1>1 DEF Inv, TypeInv
<1>3. Issued'
  BY <1>1 DEF Inv, Issued
<1>4. Holders' /\ NoOrphanTrigger' /\ NamesAreUnique'
  BY <1>1, HoldersStay DEF SameRows
<1>5. Runs'
  BY <1>1 DEF Inv, Runs, RunAgrees
<1>6. BooksAgree'
  BY <1>1 DEF Inv, BooksAgree, Live
<1>7. Measured'
  BY <1>1 DEF Inv, Measured, Ended
<1> QED  BY <1>2, <1>3, <1>4, <1>5, <1>6, <1>7 DEF Inv

(* After a crash nobody holds anything, and "running" excuses itself. *)
LEMMA CrashSound ==
    ASSUME Constants, Inv, Crash
    PROVE  Inv'
<1>1. /\ \A u \in Users : call'[u] = Null
      /\ \A f \in Fires : fire'[f] = Null
      /\ call' \in [Users -> Call \cup {Null}] /\ fire' \in [Fires -> Fire \cup {Null}]
      /\ faults' \in Nat /\ faults' > 0
      /\ UNCHANGED <<rows, trigger, run, used, secrets>>
      /\ \A u \in Users : Held(u) \subseteq lost'
      /\ lost \subseteq lost'
  BY DEF Crash, Fault, Inv, TypeInv
<1>2. TypeInv'
  BY <1>1 DEF Inv, TypeInv
<1>3. Issued'
  BY <1>1 DEF Inv, Issued
<1>4. Holders'
  BY <1>1 DEF Inv, Holders, CallHolds
<1>5. NoOrphanTrigger'
  BY <1>1 DEF Inv, NoOrphanTrigger, Live
<1>6. NamesAreUnique'
  BY <1>1 DEF Inv, NamesAreUnique
<1>7. Runs'
  BY <1>1 DEF Inv, Runs, RunAgrees
<1>8. BooksAgree'
  BY <1>1 DEF Inv, BooksAgree, Live
<1>9. Measured'
  BY <1>1 DEF Measured
<1> QED  BY <1>2, <1>3, <1>4, <1>5, <1>6, <1>7, <1>8, <1>9 DEF Inv
-----------------------------------------------------------------------------
(* The theorems                                                             *)

LEMMA InitSound ==
    ASSUME Constants, Init
    PROVE  Inv
<1>1. TypeInv
  BY DEF Init, TypeInv
<1>2. Issued /\ Holders /\ NoOrphanTrigger /\ NamesAreUnique /\ Runs
  BY DEF Init, Issued, Holders, CallHolds, NoOrphanTrigger, NamesAreUnique, Runs, RunAgrees
<1>3. BooksAgree /\ Measured
  BY DEF Init, BooksAgree, Measured, Live
<1> QED  BY <1>1, <1>2, <1>3 DEF Inv

LEMMA NextSound ==
    ASSUME Constants, Inv, [Next]_vars
    PROVE  Inv'
<1>1. ASSUME NEW u \in Users,
             \/ Create(u) \/ ProvisionComposio(u) \/ ProvisionPipedream(u) \/ Check(u)
             \/ Insert(u) \/ StatementFails(u) \/ Cleanup(u) \/ Delete(u)
      PROVE  Inv'
  BY <1>1, CreateSound, ProvidersSound, CheckSound, InsertSound, StatementFailsSound,
     CleanupSound, DeleteSound
<1>2. ASSUME NEW u \in Users, Pause(u) \/ Resume(u) \/ Update(u) \/ Rotate(u)
      PROVE  Inv'
  BY <1>2, SetPausedSound, UpdateSound, RotateSound DEF Pause, Resume
<1>3. ASSUME NEW f \in Fires, Event(f) \/ Start(f) \/ Act(f) \/ Measure(f) \/ Write(f)
               \/ SessionFails(f)
      PROVE  Inv'
  BY <1>3, EventSound, StartSound, FinishedSound, MeasureSound, WriteSound,
     SessionFailsSound DEF Act, ActNowhere
<1>4. CASE Crash
  BY <1>4, CrashSound
<1>5. CASE UNCHANGED vars
  <2>1. TypeInv' /\ Issued' /\ NamesAreUnique'
    BY <1>5 DEF vars, Inv, TypeInv, Issued, NamesAreUnique
  <2>2. Holders' /\ NoOrphanTrigger'
    BY <1>5 DEF vars, Inv, Holders, CallHolds, NoOrphanTrigger, Live, Held
  <2>3. Runs'
    BY <1>5 DEF vars, Inv, Runs, RunAgrees
  <2>4. BooksAgree' /\ Measured'
    BY <1>5 DEF vars, Inv, BooksAgree, Measured, Live, Ended
  <2> QED  BY <2>1, <2>2, <2>3, <2>4 DEF Inv
<1> QED  BY <1>1, <1>2, <1>3, <1>4, <1>5 DEF Next

LEMMA Inductive ==
    ASSUME Constants
    PROVE  Spec => []Inv
<1>1. Init => Inv
  BY InitSound
<1>2. Inv /\ [Next]_vars => Inv'
  BY NextSound
<1> QED  BY <1>1, <1>2, PTL DEF Spec

(* Rows, calls, tasks and runs keep their shape, the trigger of a row is    *)
(* live upstream, and no two automations have one name (the tables and the  *)
(* unique index of app/db/models.py).                                       *)
THEOREM TypeCorrect ==
    ASSUME Constants
    PROVE  Spec => []TypeOK
<1>1. Inv => TypeOK
  <2> SUFFICES ASSUME Inv  PROVE TypeOK
    OBVIOUS
  <2>1. \A name \in Names : Cardinality(Called(name)) <= 1
    <3> SUFFICES ASSUME NEW name \in Names  PROVE Cardinality(Called(name)) <= 1
      OBVIOUS
    <3>1. CASE Called(name) = {}
      BY <3>1, FS_EmptySet
    <3>2. CASE Called(name) # {}
      <4>1. PICK a \in Called(name) : TRUE
        BY <3>2
      <4>2. Called(name) = {a}
        BY DEF Called, Live, Inv, NamesAreUnique
      <4> QED  BY <4>2, FS_Singleton
    <3> QED  BY <3>1, <3>2
  <2>2. \A id \in Live : rows[id].trigger # Null => trigger[rows[id].trigger] = "live"
    BY DEF Inv, Holders, Live
  <2>3. /\ \A id \in Ids : (rows[id] # Null => rows[id] \in Row)
                           /\ trigger[id] \in {"none", "live", "deleted"}
        /\ \A u \in Users : (call[u] # Null => call[u] \in Call)
        /\ \A f \in Fires : (fire[f] # Null => fire[f] \in Fire)
                            /\ (run[f] # Null => run[f] \in Run)
    BY DEF Inv, TypeInv
  <2> QED  BY <2>1, <2>2, <2>3 DEF TypeOK
<1> QED  BY <1>1, Inductive, PTL

(* A live trigger upstream has an automation or a call that will bind or    *)
(* delete it, unless a fault or a taken name lost it, however the creations *)
(* and deletions of different members overlap (create_automation and        *)
(* delete_automation of app/automations/agent_tools.py).                    *)
THEOREM TriggersHaveHolders ==
    ASSUME Constants
    PROVE  Spec => []NoOrphanTrigger
<1>1. Inv => NoOrphanTrigger
  BY DEF Inv
<1> QED  BY <1>1, Inductive, PTL

(* The row of a run tells the prompt its task executes, and shows "running" *)
(* only while the task lives, after a fault or after the automation was     *)
(* deleted (router.fire).                                                   *)
THEOREM RunRowsAreTrue ==
    ASSUME Constants
    PROVE  Spec => []RunRowIsTrue
<1>1. Inv => RunRowIsTrue
  <2> SUFFICES ASSUME Inv, NEW f \in Fires, run[f] # Null
               PROVE  /\ fire[f] # Null => run[f].prompt = fire[f].prompt
                      /\ run[f].status = "running" =>
                            fire[f] # Null \/ faults > 0 \/ rows[run[f].row] = Null
    BY DEF RunRowIsTrue
  <2>1. RunAgrees(f)
    BY DEF Inv, Runs
  <2> QED  BY <2>1 DEF RunAgrees
<1> QED  BY <1>1, Inductive, PTL

(* An automation counts no fire that did not finish and shows the status of *)
(* a finished run, although the second session of router.fire writes a      *)
(* count that it read earlier.                                              *)
THEOREM BooksNeverOvercount ==
    ASSUME Constants
    PROVE  Spec => []BooksAgree
<1>1. Inv => BooksAgree
  BY DEF Inv
<1> QED  BY <1>1, Inductive, PTL
==============================================================================
