---------------------------- MODULE ConnectFlow ----------------------------
(***************************************************************************)
(* Connecting one app of one workspace: app/integrations/connect.py, its   *)
(* webhooks, the gateway's self-healing checks and the web API.            *)
(*                                                                          *)
(* A run that lacks the app pauses; start_connect posts a link, stores the *)
(* paused run in the connection's row and polls the provider.  The webhook, *)
(* the poll and the gateway all report the account through complete().     *)
(* Every asyncio task is a slot of `task`; each of its steps is what it     *)
(* does between two awaits.  A session reads a row in one step and writes   *)
(* the columns that differ from what it read in a later one.                *)
(***************************************************************************)
EXTENDS Naturals, FiniteSets

CONSTANTS
    Runs,        \* agent runs that need the app
    Owners,      \* members with a row of their own, made in the web app
    Accounts,    \* accounts that can be authorised at a provider
    Providers,   \* composio, pipedream
    Tasks,       \* slots for asyncio tasks
    Null,
    MaxFaults    \* bound: restarts, and calls of the provider that fail

VARIABLES
    rows,     \* integration_connection, per scope and owner
    up,       \* accounts at the providers
    links,    \* per run, the button posted in Slack
    asked,    \* runs that called start_connect, scopes created in the web app
    resumed,  \* per run, calls of resume_after_connect
    task,     \* asyncio tasks of the process
    hooks,    \* webhooks the provider has to deliver
    seen,     \* _seen_events of the process
    minted,   \* providers at which the user holds a link
    removed,  \* history: a row was deleted in the web app
    crashes, faults

vars == <<rows, up, links, asked, resumed, task, hooks, seen, minted,
          removed, crashes, faults>>
-----------------------------------------------------------------------------
(* The unique indexes of the table: one unlabelled row of the team and one *)
(* of each member.                                                          *)
Scopes == {"team"} \cup Owners

(* id tells the row from one that replaced it: the run that made it, or the *)
(* scope for which the web app did.                                         *)
Row == [id : Runs \cup Scopes \cup {Null}, provider : Providers,
        status : {"pending", "connected", "disconnected"}, account : Accounts \cup {Null}, run : Runs \cup {Null},
        buttons : SUBSET Runs, old : BOOLEAN]

Places == {"start", "recheck", "prior", "purge", "route", "mint", "post",
           "store", "storing", "poll", "fail", "failing", "failed",
           "complete", "commit", "notify", "resume",
           "disconnect", "disconnecting", "revoke", "created", "uncreate"}

Task == [at : Places, run : Runs \cup {Null}, scope : Scopes,
         provider : Providers \cup {Null}, account : Accounts \cup {Null},
         row : Row \cup {Null}, then : {"end", "recheck"}]

At(t, place) == task[t] # Null /\ task[t].at = place

(* Slots are alike: the first free one is taken. *)
Free(t) == task[t] = Null /\ t = CHOOSE other \in Tasks : task[other] = Null

NewTask(at) ==
    [at |-> at, run |-> Null, scope |-> "team", provider |-> Null,
     account |-> Null, row |-> Null, then |-> "end"]

Become(t, new) == task' = [task EXCEPT ![t] = new]

Goto(t, place) == Become(t, [task[t] EXCEPT !.at = place])

End(t) == Become(t, Null)

(* The rows a query for the workspace and the app finds; most of them ask  *)
(* for one or none and raise if there are several.                          *)
Found == {s \in Scopes : rows[s] # Null}

(* The row a session has read is still there when it writes. *)
Kept(t) == LET now == rows[task[t].scope] IN now # Null /\ now.id = task[t].row.id

PendingRows == {s \in Found : rows[s].status = "pending"}

One(set) == Cardinality(set) = 1

The(set) == CHOOSE s \in set : TRUE

(* A column is written if the session changed it. *)
Column(read, want, now) == IF want = read THEN now ELSE want

Fault ==
    /\ crashes + faults < MaxFaults
    /\ faults' = faults + 1

Init ==
    /\ rows \in [Scopes -> {Null} \cup
                    {r \in Row : /\ r.id = Null /\ r.status = "disconnected" /\ r.account = Null
                                 /\ r.run = Null /\ r.buttons = {} /\ r.old}]
    /\ \A s \in Owners : rows[s] = Null
    /\ up = [a \in Accounts |-> "new"]
    /\ links = [r \in Runs |-> "none"]
    /\ asked = {}
    /\ resumed = [r \in Runs |-> 0]
    /\ task = [t \in Tasks |-> Null]
    /\ hooks = {} /\ seen = {} /\ minted = {} /\ removed = FALSE
    /\ crashes = 0 /\ faults = 0
-----------------------------------------------------------------------------
(* The gateway                                                              *)

(* _connection without a caller: the team's row. *)
Usable == rows["team"] # Null /\ rows["team"].status = "connected"

(* match_account_for_app, and validate_connection of what it found. *)
Match(provider) == {a \in Accounts : up[a] = provider}

(* _try_reconcile: some attempt was made, there is one row to take the     *)
(* provider from, and the account exists.  The rate limit and a provider   *)
(* that fails make it give up, so callers may always go on without it.      *)
Reconcilable == IF One(Found) THEN Match(rows[The(Found)].provider) ELSE {}

Completing(a, then, run) ==
    [NewTask("complete") EXCEPT !.account = a, !.then = then, !.run = run]

(* is_connected in a tool call or in the graph, or list_integrations. *)
Reconcile(t) ==
    /\ Free(t)
    /\ ~Usable
    /\ \E a \in Reconcilable : Become(t, Completing(a, "end", Null))
    /\ UNCHANGED <<rows, up, links, asked, resumed, hooks, seen, minted, removed, crashes, faults>>

(* disconnect_integration: reads the connected row. *)
Disconnect(t) ==
    /\ Free(t)
    /\ asked \cap Scopes = {}  \* bound: no row of the web app was made before
    /\ LET connected == {s \in Found : rows[s].status = "connected"} IN
       /\ One(connected)
       /\ Become(t, [NewTask("disconnect") EXCEPT
                        !.scope = The(connected), !.row = rows[The(connected)]])
    /\ UNCHANGED <<rows, up, links, asked, resumed, hooks, seen, minted, removed, crashes, faults>>

Revoked(a) == IF a = Null THEN up ELSE [up EXCEPT ![a] = "gone"]

(* The account goes at the provider; on an error nothing changes.  Several *)
(* rows of the app make provider_for_app raise.                             *)
DisconnectAtProvider(t) ==
    /\ At(t, "disconnect")
    /\ \/ /\ One(Found)
          /\ up' = Revoked(task[t].row.account)
          /\ Goto(t, "disconnecting")
          /\ UNCHANGED faults
       \/ /\ One(Found) /\ Fault
          /\ End(t)
          /\ UNCHANGED up
       \/ /\ ~One(Found)
          /\ End(t)
          /\ UNCHANGED <<up, faults>>
    /\ UNCHANGED <<rows, links, asked, resumed, hooks, seen, minted, removed, crashes>>

DisconnectCommit(t) ==
    LET row == task[t].row
        now == rows[task[t].scope]
    IN
    /\ At(t, "disconnecting")
    /\ End(t)
    /\ rows' = IF ~Kept(t) THEN rows ELSE [rows EXCEPT ![task[t].scope] =
                  [now EXCEPT !.status = "disconnected",
                              !.run = Column(row.run, Null, @),
                              !.buttons = Column(row.buttons, {}, @)]]
    /\ UNCHANGED <<up, links, asked, resumed, hooks, seen, minted, removed, crashes, faults>>
-----------------------------------------------------------------------------
(* start_connect                                                            *)

(* The tools node of run r found the app not connected and interrupted. *)
Ask(t, r) ==
    /\ Free(t)
    /\ r \notin asked
    /\ asked' = asked \cup {r}
    /\ Become(t, [NewTask("start") EXCEPT !.run = r])
    /\ UNCHANGED <<rows, up, links, resumed, hooks, seen, minted, removed, crashes, faults>>

(* is_connected once more: nothing to do, or reconcile and look again. *)
Start(t) ==
    /\ At(t, "start")
    /\ \/ Usable /\ End(t)
       \/ ~Usable /\ \E a \in Reconcilable :
             Become(t, Completing(a, "recheck", task[t].run))
       \/ ~Usable /\ Goto(t, "prior")
    /\ UNCHANGED <<rows, up, links, asked, resumed, hooks, seen, minted, removed, crashes, faults>>

Recheck(t) ==
    /\ At(t, "recheck")
    /\ IF Usable THEN End(t) ELSE Goto(t, "prior")
    /\ UNCHANGED <<rows, up, links, asked, resumed, hooks, seen, minted, removed, crashes, faults>>

(* The row of an earlier attempt; an old pending one is deleted. *)
Prior(t) ==
    /\ At(t, "prior")
    /\ \/ /\ Found = {}
          /\ Goto(t, "route")
       \/ \E s \in Found :
          /\ One(Found)
          /\ Become(t, [task[t] EXCEPT !.scope = s, !.row = rows[s],
                           !.at = IF rows[s].status = "pending" /\ rows[s].old
                                  THEN "purge" ELSE "route"])
       \/ /\ Cardinality(Found) > 1
          /\ End(t)
    /\ UNCHANGED <<rows, up, links, asked, resumed, hooks, seen, minted, removed, crashes, faults>>

Purge(t) ==
    /\ At(t, "purge")
    /\ rows' = IF Kept(t) THEN [rows EXCEPT ![task[t].scope] = Null] ELSE rows
    /\ Become(t, [task[t] EXCEPT !.at = "route", !.row = Null, !.scope = "team"])
    /\ UNCHANGED <<up, links, asked, resumed, hooks, seen, minted, removed, crashes, faults>>

(* _try_reconcile_existing: the account its provider holds already. *)
Existing(row) == Match(row.provider)

(* A pending row keeps its provider, and if the account exists already the *)
(* flow is completed instead (with a message, and without this run).  All   *)
(* others ask the catalogue again.                                          *)
Route(t) ==
    LET prior == task[t].row
        pending == prior # Null /\ prior.status = "pending"
    IN
    /\ At(t, "route")
    /\ \/ /\ pending
          /\ \E a \in Existing(prior) : Become(t, Completing(a, "end", Null))
          /\ UNCHANGED faults
       \/ /\ pending
          /\ \/ Existing(prior) = {} /\ UNCHANGED faults
             \/ Existing(prior) # {} /\ Fault
          /\ Become(t, [task[t] EXCEPT !.at = "mint", !.provider = prior.provider])
       \/ /\ ~pending
          /\ \E p \in Providers :
                Become(t, [task[t] EXCEPT !.at = "mint", !.provider = p])
          /\ UNCHANGED faults
    /\ UNCHANGED <<rows, up, links, asked, resumed, hooks, seen, minted, removed, crashes>>

(* _mint_connect_link, or the message that there is no link. *)
Mint(t) ==
    /\ At(t, "mint")
    /\ \/ /\ Goto(t, "post")
          /\ UNCHANGED <<links, faults>>
       \/ /\ Fault
          /\ links' = [links EXCEPT ![task[t].run] = "refused"]
          /\ End(t)
    /\ UNCHANGED <<rows, up, asked, resumed, hooks, seen, minted, removed, crashes>>

(* The buttons posted before are read, then this one is posted.  If Slack   *)
(* fails, or its answer is lost, the task ends and stores nothing.          *)
Post(t) ==
    LET posted == /\ links' = [links EXCEPT ![task[t].run] = "live"]
                  /\ minted' = minted \cup {task[t].provider}
    IN
    /\ At(t, "post")
    /\ \/ /\ Cardinality(Found) > 1
          /\ End(t)
          /\ UNCHANGED <<links, minted, faults>>
       \/ /\ Cardinality(Found) <= 1
          /\ posted
          /\ Become(t, [task[t] EXCEPT !.at = "store",
                           !.row = IF Found = {} THEN Null ELSE rows[The(Found)]])
          /\ UNCHANGED faults
       \/ /\ Cardinality(Found) <= 1 /\ Fault
          /\ posted \/ UNCHANGED <<links, minted>>
          /\ End(t)
    /\ UNCHANGED <<rows, up, asked, resumed, hooks, seen, removed, crashes>>

(* The row is read again; the buttons are those carried from before. *)
Store(t) ==
    LET carried == IF task[t].row = Null THEN {} ELSE task[t].row.buttons IN
    /\ At(t, "store")
    /\ IF Cardinality(Found) > 1 THEN End(t)
       ELSE Become(t, [task[t] EXCEPT
                !.at = "storing",
                !.scope = IF Found = {} THEN "team" ELSE The(Found),
                !.row = IF Found = {} THEN Null
                        ELSE [rows[The(Found)] EXCEPT !.buttons = carried],
                !.account = Null])
    /\ UNCHANGED <<rows, up, links, asked, resumed, hooks, seen, minted, removed, crashes, faults>>

Polling(provider) == [NewTask("poll") EXCEPT !.provider = provider]

(* The row is inserted or updated, and the poll starts. *)
StoreCommit(t) ==
    LET s == task[t].scope
        row == task[t].row
        now == rows[s]
        stored == Become(t, Polling(task[t].provider))
    IN
    /\ At(t, "storing")
    /\ IF row = Null
       THEN IF now # Null THEN End(t) /\ UNCHANGED rows
            ELSE /\ rows' = [rows EXCEPT ![s] =
                       [id |-> task[t].run, provider |-> task[t].provider,
                        status |-> "pending", account |-> Null, run |-> task[t].run,
                        buttons |-> {task[t].run}, old |-> FALSE]]
                 /\ stored
       ELSE IF ~Kept(t) THEN End(t) /\ UNCHANGED rows
            ELSE /\ rows' = [rows EXCEPT ![s] =
                       [now EXCEPT
                          !.provider = Column(row.provider, task[t].provider, @),
                          !.status = Column(row.status, "pending", @),
                          !.run = Column(row.run, task[t].run, @),
                          !.buttons = row.buttons \cup {task[t].run}]]
                 /\ stored
    /\ UNCHANGED <<up, links, asked, resumed, hooks, seen, minted, removed, crashes, faults>>
-----------------------------------------------------------------------------
(* _poll, _mark_connect_failed and the loops that restart polls             *)

Poll(t) ==
    /\ At(t, "poll")
    /\ \E a \in Match(task[t].provider) : Become(t, Completing(a, "end", Null))
    /\ UNCHANGED <<rows, up, links, asked, resumed, hooks, seen, minted, removed, crashes, faults>>

(* The poll gives up when its time is over: no account has appeared, or the *)
(* provider did not answer for all of it.  The ten minutes are longer than  *)
(* any session that was open when they began.                               *)
Timeout(t) ==
    /\ At(t, "poll")
    /\ \A other \in Tasks : ~At(other, "commit") /\ ~At(other, "storing")
    /\ \/ Match(task[t].provider) = {} /\ UNCHANGED faults
       \/ Match(task[t].provider) # {} /\ Fault
    /\ Goto(t, "fail")
    /\ UNCHANGED <<rows, up, links, asked, resumed, hooks, seen, minted, removed, crashes>>

Fail(t) ==
    /\ At(t, "fail")
    /\ IF One(PendingRows)
       THEN Become(t, [task[t] EXCEPT !.at = "failing", !.scope = The(PendingRows),
                                      !.row = rows[The(PendingRows)]])
       ELSE End(t)
    /\ UNCHANGED <<rows, up, links, asked, resumed, hooks, seen, minted, removed, crashes, faults>>

FailCommit(t) ==
    LET row == task[t].row
        now == rows[task[t].scope]
    IN
    /\ At(t, "failing")
    /\ IF ~Kept(t) THEN End(t) /\ UNCHANGED rows
       ELSE /\ rows' = [rows EXCEPT ![task[t].scope] =
                  [now EXCEPT !.status = "disconnected",
                              !.run = Column(row.run, Null, @),
                              !.buttons = Column(row.buttons, {}, @)]]
            /\ Goto(t, "failed")
    /\ UNCHANGED <<up, links, asked, resumed, hooks, seen, minted, removed, crashes, faults>>

(* Mutant: only the newest button is replaced. *)
NoButtons(buttons, outcome) == links

(* _deactivate_connect_buttons. *)
Deactivated(buttons, outcome) ==
    [r \in Runs |-> IF r \in buttons THEN outcome ELSE links[r]]

FailNotify(t) ==
    /\ At(t, "failed")
    /\ links' = Deactivated(task[t].row.buttons, "failed")
    /\ End(t)
    /\ UNCHANGED <<rows, up, asked, resumed, hooks, seen, minted, removed, crashes, faults>>

(* Mutant: only rows whose link is still live in this process. *)
StrandedIfOwned ==
    {s \in PendingRows : rows[s].run # Null /\ \E t \in Tasks : task[t] # Null}

(* The rows resume_pending_polls restarts a poll for. *)
Stranded == {s \in PendingRows : rows[s].run # Null}

(* resume_pending_polls, at startup and every five minutes. *)
ResumePolls(t) ==
    /\ Free(t)
    /\ \E s \in Stranded : Become(t, Polling(rows[s].provider))
    /\ UNCHANGED <<rows, up, links, asked, resumed, hooks, seen, minted, removed, crashes, faults>>
-----------------------------------------------------------------------------
(* complete                                                                 *)

Done(t) == IF task[t].then = "recheck" THEN Goto(t, "recheck") ELSE End(t)

(* Already connected with this account and nothing pending: nothing to do. *)
Complete(t) ==
    /\ At(t, "complete")
    /\ IF One(Found)
       THEN LET s == The(Found) IN
            IF /\ rows[s].status = "connected"
               /\ rows[s].account = task[t].account
               /\ rows[s].run = Null
            THEN Done(t)
            ELSE Become(t, [task[t] EXCEPT !.at = "commit", !.scope = s, !.row = rows[s]])
       ELSE IF Found = {} THEN Done(t) ELSE End(t)
    /\ UNCHANGED <<rows, up, links, asked, resumed, hooks, seen, minted, removed, crashes, faults>>

(* The row becomes connected, and what it held for the paused run is taken. *)
CompleteCommit(t) ==
    LET row == task[t].row
        now == rows[task[t].scope]
    IN
    /\ At(t, "commit")
    /\ IF ~Kept(t) THEN End(t) /\ UNCHANGED rows
       ELSE /\ rows' = [rows EXCEPT ![task[t].scope] =
                  [now EXCEPT !.status = Column(row.status, "connected", @),
                              !.account = Column(row.account, task[t].account, @),
                              !.run = Column(row.run, Null, @),
                              !.buttons = Column(row.buttons, {}, @)]]
            /\ Goto(t, "notify")
    /\ UNCHANGED <<up, links, asked, resumed, hooks, seen, minted, removed, crashes, faults>>

Notify(t) ==
    /\ At(t, "notify")
    /\ links' = Deactivated(task[t].row.buttons, "connected")
    /\ IF task[t].row.run # Null THEN Goto(t, "resume") ELSE Done(t)
    /\ UNCHANGED <<rows, up, asked, resumed, hooks, seen, minted, removed, crashes, faults>>

(* resume_after_connect with the context that was stored with the row. *)
Resume(t) ==
    /\ At(t, "resume")
    /\ resumed' = [resumed EXCEPT ![task[t].row.run] = @ + 1]
    /\ Done(t)
    /\ UNCHANGED <<rows, up, links, asked, hooks, seen, minted, removed, crashes, faults>>

(* One task per event, deduplicated by the process. *)
Handled(t, a) ==
    /\ IF a \in seen THEN UNCHANGED task
       ELSE Free(t) /\ Become(t, Completing(a, "end", Null))
    /\ seen' = seen \cup {a}

(* pipedream_webhook, composio_webhook.  The provider may deliver again. *)
Webhook(t, a) ==
    /\ a \in hooks
    /\ Handled(t, a)
    /\ \/ hooks' = hooks \ {a} /\ UNCHANGED faults
       \/ a \notin seen /\ Fault /\ UNCHANGED hooks
    /\ UNCHANGED <<rows, up, links, asked, resumed, minted, removed, crashes>>
-----------------------------------------------------------------------------
(* The web API                                                              *)

(* create_connection, by a member for himself or by an administrator for    *)
(* the team: the row comes first, a duplicate is refused.                   *)
Create(t, s, p) ==
    /\ Free(t)
    /\ crashes + faults = 0    \* bound: nothing has failed before,
    /\ asked \cap Scopes = {}  \* and one row is made in the web app
    /\ asked' = asked \cup {s}
    /\ rows[s] = Null
    /\ rows' = [rows EXCEPT ![s] =
          [id |-> s, provider |-> p, status |-> "pending", account |-> Null, run |-> Null,
           buttons |-> {}, old |-> FALSE]]
    /\ Become(t, [NewTask("created") EXCEPT !.scope = s, !.provider = p, !.row = rows'[s]])
    /\ UNCHANGED <<up, links, resumed, hooks, seen, minted, removed, crashes, faults>>

CreateMint(t) ==
    /\ At(t, "created")
    /\ \/ minted' = minted \cup {task[t].provider} /\ End(t) /\ UNCHANGED faults
       \/ Fault /\ Goto(t, "uncreate") /\ UNCHANGED minted
    /\ UNCHANGED <<rows, up, links, asked, resumed, hooks, seen, removed, crashes>>

(* delete_connection, by the row's owner or for the team's by an            *)
(* administrator, after its checks and with the row it read.                *)
Delete(t, s) ==
    /\ Free(t)
    /\ crashes + faults = 0 /\ ~removed  \* bound: as in Create
    /\ rows[s] # Null
    /\ Become(t, [NewTask("revoke") EXCEPT !.scope = s, !.row = rows[s]])
    /\ removed' = TRUE
    /\ UNCHANGED <<rows, up, links, asked, resumed, hooks, seen, minted, crashes, faults>>

DeleteAtProvider(t) ==
    /\ At(t, "revoke")
    /\ \/ /\ up' = Revoked(task[t].row.account)
          /\ UNCHANGED faults
       \/ Fault /\ UNCHANGED up
    /\ Goto(t, "uncreate")
    /\ UNCHANGED <<rows, links, asked, resumed, hooks, seen, minted, removed, crashes>>

DeleteRow(t) ==
    /\ At(t, "uncreate")
    /\ rows' = IF Kept(t) THEN [rows EXCEPT ![task[t].scope] = Null] ELSE rows
    /\ End(t)
    /\ UNCHANGED <<up, links, asked, resumed, hooks, seen, minted, removed, crashes, faults>>
-----------------------------------------------------------------------------
(* The user, the provider, time and restarts                                *)

Authorise(a) ==
    /\ up[a] = "new"
    /\ \E p \in minted : up' = [up EXCEPT ![a] = p]
    /\ hooks' = hooks \cup {a}
    /\ UNCHANGED <<rows, links, asked, resumed, task, seen, minted, removed, crashes, faults>>

(* Prior has yet to read the age of a row. *)
AgeMatters ==
    \/ Runs \ asked # {}
    \/ \E t \in Tasks :
          /\ task[t] # Null
          /\ task[t].then = "recheck" \/ task[t].at \in {"start", "recheck", "prior"}

(* Ten minutes have passed since the row was created. *)
GrowsOld(s) ==
    /\ AgeMatters  \* bound: ages that nobody will read are left out
    /\ rows[s] # Null /\ ~rows[s].old
    /\ rows' = [rows EXCEPT ![s].old = TRUE]
    /\ UNCHANGED <<up, links, asked, resumed, task, hooks, seen, minted, removed, crashes, faults>>

Crash ==
    /\ asked \cap Scopes = {}  \* bound: see Create
    /\ crashes + faults < MaxFaults
    /\ crashes' = crashes + 1
    /\ task' = [t \in Tasks |-> Null]
    /\ seen' = {}
    /\ UNCHANGED <<rows, up, links, asked, resumed, hooks, minted, removed, faults>>
-----------------------------------------------------------------------------
TaskStep(t) ==
    \/ Start(t) \/ Recheck(t) \/ Prior(t) \/ Purge(t) \/ Route(t) \/ Mint(t)
    \/ Post(t) \/ Store(t) \/ StoreCommit(t)
    \/ Poll(t) \/ Timeout(t) \/ Fail(t) \/ FailCommit(t) \/ FailNotify(t)
    \/ Complete(t) \/ CompleteCommit(t) \/ Notify(t) \/ Resume(t)
    \/ DisconnectAtProvider(t) \/ DisconnectCommit(t)
    \/ CreateMint(t) \/ DeleteAtProvider(t) \/ DeleteRow(t)

Next ==
    \/ \E t \in Tasks :
          \/ TaskStep(t)
          \/ Reconcile(t) \/ Disconnect(t) \/ ResumePolls(t)
          \/ \E r \in Runs : Ask(t, r)
          \/ \E a \in Accounts : Webhook(t, a)
          \/ \E s \in Scopes, p \in Providers : Create(t, s, p)
          \/ \E s \in Scopes : Delete(t, s)
    \/ \E a \in Accounts : Authorise(a)
    \/ \E s \in Scopes : GrowsOld(s)
    \/ Crash

Spec == Init /\ [][Next]_vars

(* Every task takes its steps, and the loop restarts polls. *)
FairSpec ==
    /\ Spec
    /\ \A t \in Tasks : WF_vars(TaskStep(t)) /\ WF_vars(ResumePolls(t))
-----------------------------------------------------------------------------
(* Types; a connected row names its account. *)
TypeOK ==
    /\ rows \in [Scopes -> Row \cup {Null}]
    /\ \A s \in Found : rows[s].status = "connected" => rows[s].account # Null
    /\ up \in [Accounts -> Providers \cup {"new", "gone"}]
    /\ links \in [Runs -> {"none", "live", "refused", "connected", "failed"}]
    /\ asked \subseteq Runs \cup Scopes /\ removed \in BOOLEAN
    /\ resumed \in [Runs -> Nat]
    /\ task \in [Tasks -> Task \cup {Null}]
    /\ hooks \subseteq Accounts /\ seen \subseteq Accounts /\ minted \subseteq Providers
    /\ crashes \in 0..MaxFaults /\ faults \in 0..MaxFaults

Waits(r) == \E s \in PendingRows : rows[s].run = r

(* A run that waits in a pending row does not wait there for ever, whatever *)
(* restarts the process had: a poll is started again and reports or fails.  *)
(* It may wait for ever once the app has several rows, the team's and a     *)
(* member's, for then neither complete nor _mark_connect_failed finds one.  *)
PendingSettles ==
    \A r \in Runs : Waits(r) ~> ~Waits(r) \/ Cardinality(Found) > 1

(* What became of a link, or what may leave it a link for ever. *)
Answered(r) ==
    \/ links[r] # "live" \/ crashes > 0 \/ faults > 0 \/ asked # {r} \/ removed
    \/ \E a \in Accounts : up[a] = "gone"

(* While nobody else asks, no row is deleted in the web app and no process  *)
(* or provider fails, the link of a run is not a link for ever: it becomes  *)
(* a success or a failure, though webhooks, polls, self-healing checks and  *)
(* time-outs race for the row.  (The deletion of a pending row takes the    *)
(* list of its buttons along, so that they stay live.)                      *)
LinkIsAnswered == \A r \in Runs : links[r] = "live" ~> Answered(r)
=============================================================================
