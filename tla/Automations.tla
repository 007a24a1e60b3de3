----------------------------- MODULE Automations -----------------------------
(***************************************************************************)
(* Automations of one workspace: app/automations and app/api/automations.  *)
(* A member creates an automation; an event posted to its URL makes a       *)
(* detached task that runs the agent and writes the row of the run.         *)
(*                                                                          *)
(* An event of a provider (Pipedream or Composio, alike but for how they    *)
(* sign) comes from a trigger made upstream before the row; an event of     *)
(* source "direct" comes from whoever knows the secret in the URL.  A       *)
(* session reads in one step and commits in a later one.                    *)
(***************************************************************************)
EXTENDS Naturals, FiniteSets

CONSTANTS
    Users,       \* members of the workspace
    Names,       \* names of automations, unique in the workspace
    Fires,       \* bound: events that are accepted
    Null,
    MaxIds,      \* bound: ids made, of rows and for the URLs of triggers
    MaxSecrets,  \* bound: secrets made
    MaxFaults    \* bound: crashes, and failures of a provider or a statement

VARIABLES
    rows,      \* automation, per id
    trigger,   \* the provider's triggers, per id of the URL they post to
    call,      \* create_automation and delete_automation, per user
    fire,      \* tasks of router.fire
    run,       \* automation_run, one row per task that inserts it
    used,      \* ids made so far
    secrets,   \* secrets made so far
    lost,      \* history: triggers whose deletion failed or was never tried
    faults

vars == <<rows, trigger, call, fire, run, used, secrets, lost, faults>>
-----------------------------------------------------------------------------
Ids == 1..MaxIds

Secrets == 1..MaxSecrets

Prompts == {"first", "edited"}

Row == [name : Names, owner : Users, paused : BOOLEAN, prompt : Prompts,
        secret : Secrets \cup {Null}, trigger : Ids \cup {Null},
        last : {"none", "success", "failed"}, count : Nat]

Call == [at : {"pipedream", "composio", "check", "insert", "cleanup"}, name : Names,
         trigger : Ids \cup {Null}]

Fire == [at : {"spawned", "running", "measure", "write"}, row : Ids,
         prompt : Prompts, status : {"success", "failed"}, count : Nat \cup {Null}]

Run == [row : Ids, prompt : Prompts, status : {"running", "success", "failed"}]

Live == {id \in Ids : rows[id] # Null}

Called(name) == {id \in Live : rows[id].name = name}

Become(u, new) == call' = [call EXCEPT ![u] = new]

At(u, place) == call[u] # Null /\ call[u].at = place

(* The trigger of a call that ends without having dealt with it. *)
Held(u) == IF call[u] = Null THEN {} ELSE {call[u].trigger} \ {Null}

Fault == faults < MaxFaults /\ faults' = faults + 1

(* _ensure_can_modify: every automation is local, and its owner's alone. *)
CanModify(u, id) == rows[id] # Null /\ rows[id].owner = u
-----------------------------------------------------------------------------
(* create_automation of the tools.  A direct one is checked at once. *)
Create(u) ==
    /\ call[u] = Null
    /\ \E name \in Names, at \in {"pipedream", "composio", "check"} :
         Become(u, [at |-> at, name |-> name, trigger |-> Null])
    /\ UNCHANGED <<rows, trigger, fire, run, used, secrets, lost, faults>>

(* The trigger is made upstream, with the URL of an id made for it. *)
Provisioned(u, id) ==
    /\ used < MaxIds /\ id = used + 1 /\ used' = id
    /\ trigger' = [trigger EXCEPT ![id] = "live"]
    /\ Become(u, [call[u] EXCEPT !.at = "check", !.trigger = id])
    /\ UNCHANGED <<rows, fire, run, secrets, lost, faults>>

Refused(u) ==
    /\ Fault
    /\ Become(u, Null)
    /\ UNCHANGED <<rows, trigger, fire, run, used, secrets, lost>>

(* The trigger is made and the call ends without knowing it: the answer is  *)
(* lost, has no id, or (Pipedream's) no signing key.  The trigger stays.    *)
Unanswered(u) ==
    /\ Fault
    /\ used < MaxIds /\ used' = used + 1
    /\ trigger' = [trigger EXCEPT ![used'] = "live"]
    /\ lost' = lost \cup {used'}
    /\ Become(u, Null)
    /\ UNCHANGED <<rows, fire, run, secrets>>

Provision(u) == (\E id \in Ids : Provisioned(u, id)) \/ Refused(u) \/ Unanswered(u)

(* Without the id of the connected account in the row nothing is sent. *)
ProvisionComposio(u) == At(u, "composio") /\ Provision(u)

ProvisionPipedream(u) == At(u, "pipedream") /\ Provision(u)

(* Mutant: a refused creation leaves its trigger behind. *)
CheckWithoutCleanup(u) ==
    /\ At(u, "check")
    /\ \/ Called(call[u].name) = {} /\ Become(u, [call[u] EXCEPT !.at = "insert"])
       \/ Become(u, Null)
    /\ UNCHANGED <<rows, trigger, fire, run, used, secrets, lost, faults>>

(* Validation, and the read of the rows with the same name. *)
Check(u) ==
    /\ At(u, "check")
    /\ \/ Called(call[u].name) = {} /\ Become(u, [call[u] EXCEPT !.at = "insert"])
       \/ Become(u, IF call[u].trigger = Null THEN Null
                    ELSE [call[u] EXCEPT !.at = "cleanup"])
    /\ UNCHANGED <<rows, trigger, fire, run, used, secrets, lost, faults>>

NewRow(u, secret) ==
    [name |-> call[u].name, owner |-> u, paused |-> FALSE, prompt |-> "first", secret |-> secret,
     trigger |-> call[u].trigger, last |-> "none", count |-> 0]

(* The row gets an id of its own.  If the name was taken since the check,   *)
(* the unique index refuses it with an error the tool does not expect.      *)
Insert(u) ==
    /\ At(u, "insert")
    /\ Become(u, Null)
    /\ \/ /\ Called(call[u].name) = {}
          /\ used < MaxIds
          /\ used' = used + 1
          /\ \/ /\ call[u].trigger = Null
                /\ secrets < MaxSecrets
                /\ secrets' = secrets + 1
                /\ rows' = [rows EXCEPT ![used'] = NewRow(u, secrets')]
             \/ /\ call[u].trigger # Null
                /\ rows' = [rows EXCEPT ![used'] = NewRow(u, Null)]
                /\ UNCHANGED secrets
          /\ UNCHANGED lost
       \/ /\ Called(call[u].name) # {}
          /\ lost' = lost \cup Held(u)
          /\ UNCHANGED <<rows, used, secrets>>
    /\ UNCHANGED <<trigger, fire, run, faults>>

(* A statement of the session fails: no error the tool expects, so that it  *)
(* deletes nothing upstream.                                                *)
StatementFails(u) ==
    /\ At(u, "check") \/ At(u, "insert")
    /\ Fault
    /\ lost' = lost \cup Held(u)
    /\ Become(u, Null)
    /\ UNCHANGED <<rows, trigger, fire, run, used, secrets>>

(* Deletion upstream, after a failed creation or a deletion: best effort. *)
Cleanup(u) ==
    /\ At(u, "cleanup")
    /\ Become(u, Null)
    /\ \/ /\ trigger' = [trigger EXCEPT ![call[u].trigger] = "deleted"]
          /\ UNCHANGED <<lost, faults>>
       \/ /\ Fault
          /\ lost' = lost \cup Held(u)
          /\ UNCHANGED trigger
    /\ UNCHANGED <<rows, fire, run, used, secrets>>

(* delete_automation: the row first, then the trigger. *)
Delete(u) ==
    /\ call[u] = Null
    /\ \E id \in Live :
         /\ CanModify(u, id)
         /\ rows' = [rows EXCEPT ![id] = Null]
         /\ Become(u, IF rows[id].trigger = Null THEN Null
                      ELSE [at |-> "cleanup", name |-> rows[id].name,
                            trigger |-> rows[id].trigger])
    /\ UNCHANGED <<trigger, fire, run, used, secrets, lost, faults>>

(* pause_automation and resume_automation, of the tools and the web API. *)
SetPaused(u, paused) ==
    /\ \E id \in Live :
         /\ CanModify(u, id)
         /\ rows' = [rows EXCEPT ![id].paused = paused]
    /\ UNCHANGED <<trigger, call, fire, run, used, secrets, lost, faults>>

Pause(u) == SetPaused(u, TRUE)

Resume(u) == SetPaused(u, FALSE)

(* update_automation. *)
Update(u) ==
    /\ \E id \in Live :
         /\ CanModify(u, id)
         /\ rows' = [rows EXCEPT ![id].prompt = "edited"]
    /\ UNCHANGED <<trigger, call, fire, run, used, secrets, lost, faults>>

(* rotate_webhook_secret, of the tools and the web API: direct ones only. *)
Rotate(u) ==
    /\ secrets < MaxSecrets
    /\ secrets' = secrets + 1
    /\ \E id \in Live :
         /\ CanModify(u, id)
         /\ rows[id].secret # Null
         /\ rows' = [rows EXCEPT ![id].secret = secrets']
    /\ UNCHANGED <<trigger, call, fire, run, used, lost, faults>>
-----------------------------------------------------------------------------
(* The automation whose URL holds the secret, and the one whose id is in    *)
(* the URL a trigger posts to.                                              *)
BySecret(secret) == {id \in Live : rows[id].secret = secret}

ByUrl(id) == {id} \cap {other \in Live : rows[other].trigger # Null}

Events == {BySecret(s) : s \in 1..secrets}
          \cup {ByUrl(id) : id \in {other \in Ids : trigger[other] = "live"}}

NextFire(f) ==
    fire[f] = Null /\ run[f] = Null /\ \A g \in Fires : g < f => run[g] # Null \/ fire[g] # Null

(* The webhooks: the row is read and, unless it is paused, a task spawned.  *)
(* An event that finds no row is answered 404.                              *)
Event(f) ==
    /\ NextFire(f)
    /\ \E found \in Events : \E id \in found :
         /\ ~rows[id].paused
         /\ fire' = [fire EXCEPT ![f] = [at |-> "spawned", row |-> id, prompt |-> rows[id].prompt,
                                         status |-> "success", count |-> Null]]
    /\ UNCHANGED <<rows, trigger, call, run, used, secrets, lost, faults>>

(* Mutant: the fire is counted when it starts. *)
StartCounting(f) ==
    /\ fire[f] # Null /\ fire[f].at = "spawned"
    /\ LET id == fire[f].row IN
         \/ /\ rows[id] # Null
            /\ run' = [run EXCEPT ![f] = [row |-> id, prompt |-> fire[f].prompt, status |-> "running"]]
            /\ rows' = [rows EXCEPT ![id].count = @ + 1]
            /\ fire' = [fire EXCEPT ![f].at = "running"]
         \/ /\ rows[id] = Null
            /\ fire' = [fire EXCEPT ![f] = Null]
            /\ UNCHANGED <<rows, run>>
    /\ UNCHANGED <<trigger, call, used, secrets, lost, faults>>

(* The row of the run, with the prompt as the event found it.  Its foreign  *)
(* key refuses an automation deleted since, and the task dies.              *)
Start(f) ==
    /\ fire[f] # Null /\ fire[f].at = "spawned"
    /\ LET id == fire[f].row IN
         \/ /\ rows[id] # Null
            /\ run' = [run EXCEPT ![f] = [row |-> id, prompt |-> fire[f].prompt, status |-> "running"]]
            /\ fire' = [fire EXCEPT ![f].at = "running"]
         \/ /\ rows[id] = Null
            /\ fire' = [fire EXCEPT ![f] = Null]
            /\ UNCHANGED run
    /\ UNCHANGED <<rows, trigger, call, used, secrets, lost, faults>>

(* Mutant: only the errors the actions raise themselves are caught. *)
ActUncaught(f) ==
    /\ fire[f] # Null /\ fire[f].at = "running"
    /\ \/ \E status \in {"success", "failed"} :
            fire' = [fire EXCEPT ![f].at = "measure", ![f].status = status]
       \/ fire' = [fire EXCEPT ![f] = Null]
    /\ UNCHANGED <<rows, trigger, call, run, used, secrets, lost, faults>>

Finished(f, status) ==
    /\ fire[f] # Null /\ fire[f].at = "running"
    /\ fire' = [fire EXCEPT ![f].at = "measure", ![f].status = status]
    /\ UNCHANGED <<rows, trigger, call, run, used, secrets, lost, faults>>

(* No token of the workspace, or no channel to post to. *)
ActNowhere(f) == Finished(f, "failed")

(* fire_agent_run: an error of Slack and an error of the agent end as a     *)
(* failure, like having nowhere to post.                                    *)
Act(f) == ActNowhere(f) \/ \E status \in {"success", "failed"} : Finished(f, status)

(* The second session reads the run and its automation, *)
Measure(f) ==
    /\ fire[f] # Null /\ fire[f].at = "measure"
    /\ LET parent == rows[fire[f].row] IN
         fire' = [fire EXCEPT ![f].at = "write",
                              ![f].count = IF parent = Null THEN Null ELSE parent.count]
    /\ UNCHANGED <<rows, trigger, call, run, used, secrets, lost, faults>>

(* and commits both.  The UPDATE of an automation deleted in between finds  *)
(* no row, and the whole transaction is rolled back.                        *)
Write(f) ==
    /\ fire[f] # Null /\ fire[f].at = "write"
    /\ LET id == fire[f].row
           stale == fire[f].count # Null /\ rows[id] = Null IN
         /\ run' = IF stale THEN run
                   ELSE [run EXCEPT ![f].status = fire[f].status]
         /\ rows' = IF fire[f].count = Null \/ stale THEN rows
                    ELSE [rows EXCEPT ![id].last = fire[f].status,
                                      ![id].count = fire[f].count + 1]
    /\ fire' = [fire EXCEPT ![f] = Null]
    /\ UNCHANGED <<trigger, call, used, secrets, lost, faults>>

(* A statement of the first or of the second session fails.  Nothing catches *)
(* it, so that the task dies, and after the second the run stays "running". *)
SessionFails(f) ==
    /\ fire[f] # Null /\ fire[f].at \in {"spawned", "measure", "write"}
    /\ Fault
    /\ fire' = [fire EXCEPT ![f] = Null]
    /\ UNCHANGED <<rows, trigger, call, run, used, secrets, lost>>

(* The process dies, with every call and every task. *)
Crash ==
    /\ Fault
    /\ lost' = lost \cup UNION {Held(u) : u \in Users}
    /\ call' = [u \in Users |-> Null]
    /\ fire' = [f \in Fires |-> Null]
    /\ UNCHANGED <<rows, trigger, run, used, secrets>>

Init ==
    /\ rows = [id \in Ids |-> Null]
    /\ trigger = [id \in Ids |-> "none"]
    /\ call = [u \in Users |-> Null]
    /\ fire = [f \in Fires |-> Null]
    /\ run = [f \in Fires |-> Null]
    /\ used = 0 /\ secrets = 0 /\ faults = 0
    /\ lost = {}

Next ==
    \/ \E u \in Users :
         \/ Create(u) \/ ProvisionComposio(u) \/ ProvisionPipedream(u)
         \/ Check(u) \/ Insert(u) \/ StatementFails(u) \/ Cleanup(u)
         \/ Delete(u) \/ Pause(u) \/ Resume(u) \/ Update(u) \/ Rotate(u)
    \/ \E f \in Fires :
         Event(f) \/ Start(f) \/ Act(f) \/ Measure(f) \/ Write(f) \/ SessionFails(f)
    \/ Crash

Spec == Init /\ [][Next]_vars
-----------------------------------------------------------------------------
(* Rows, calls, tasks and runs have the fields of their tables; a trigger   *)
(* that a row or a call names was made upstream; names are unique.          *)
TypeOK ==
    /\ \A id \in Ids :
         /\ rows[id] # Null => rows[id] \in Row
         /\ trigger[id] \in {"none", "live", "deleted"}
    /\ \A u \in Users : call[u] # Null => call[u] \in Call
    /\ \A f \in Fires :
         /\ fire[f] # Null => fire[f] \in Fire
         /\ run[f] # Null => run[f] \in Run
    /\ \A id \in Live : rows[id].trigger # Null => trigger[rows[id].trigger] = "live"
    /\ \A name \in Names : Cardinality(Called(name)) <= 1

(* A live trigger upstream belongs to an automation or to a call that will  *)
(* bind or delete it, unless its deletion failed, its making was not        *)
(* answered, a statement failed, the process died or the name was taken in  *)
(* between: create_automation and delete_automation.                        *)
NoOrphanTrigger ==
    \A id \in Ids : trigger[id] = "live" =>
        \/ id \in lost
        \/ \E u \in Users : id \in Held(u)
        \/ \E other \in Live : rows[other].trigger = id

(* The row of a run tells what its task does.  It documents the prompt the *)
(* task executes, although the automation is edited between the event and   *)
(* the start: "the historical run still documents what was executed"        *)
(* (models.py:777).  It shows "running" only while the task lives, or after *)
(* a fault or if the automation was deleted: the task "catches everything   *)
(* internally and writes status to the run row" (router.py:71), but not the *)
(* errors of its own sessions, and nothing finishes a run that a crash or   *)
(* such an error cut.                                                       *)
RunRowIsTrue ==
    \A f \in Fires : run[f] # Null =>
        /\ fire[f] # Null => run[f].prompt = fire[f].prompt
        /\ run[f].status = "running" =>
              fire[f] # Null \/ faults > 0 \/ rows[run[f].row] = Null

(* An automation counts no fire that did not finish, and the status it      *)
(* shows is that of a finished run: the bookkeeping of router.fire, whose   *)
(* lost updates may only undercount.                                        *)
BooksAgree ==
    \A id \in Live :
        LET finished == {f \in Fires : run[f] # Null /\ run[f].row = id
                                        /\ run[f].status # "running"} IN
        /\ rows[id].count <= Cardinality(finished)
        /\ rows[id].last # "none" => \E f \in finished : run[f].status = rows[id].last

(* The trigger of an automation posts to the URL of that automation, "so    *)
(* the webhook URL is stable before the row exists" (agent_tools.py:135).   *)
TriggerReachesRow ==
    \A id \in Live : rows[id].trigger # Null => rows[id].trigger = id
=============================================================================
