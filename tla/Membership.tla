------------------------------ MODULE Membership ------------------------------
(***************************************************************************)
(* Who belongs to one workspace: Slack's own members, the cached roster of  *)
(* them (app/slack/roster.py), the AppUser rows and their links to Clerk    *)
(* accounts (app/auth), and the Clerk organization of the workspace with    *)
(* the roles in it (app/auth/clerk_provisioning.py, app/api/team.py).       *)
(*                                                                          *)
(* Clerk is called between two transactions, so the handlers interleave at  *)
(* every call.  A person's Slack email and Clerk email are the same.        *)
(***************************************************************************)
EXTENDS Naturals, FiniteSets

CONSTANTS
    People,
    Orgs,        \* ids Clerk may give to organizations
    Null,
    Calls,       \* slots for calls
    MaxChanges,  \* bound: people who join, leave or come back to Slack
    MaxBegun,    \* bound: calls
    MaxFaults    \* bound: restarts, and failures of Clerk or of Slack

VARIABLES
    slack,    \* Slack's members
    roster,   \* SlackUser rows
    account,  \* people with a Clerk account
    user,     \* AppUser rows: none, plain, or linked to the person's account
    oldest,   \* who has the oldest AppUser
    org,      \* workspace.clerk_org_id
    role,     \* Clerk's roles in each organization
    call,     \* calls under way
    changes, begun, faults,
    alone,    \* history: provisioning calls have not overlapped nor failed
    badge     \* whose session tokens may say that they are admins of an organization

vars == <<slack, roster, account, user, oldest, org, role, call,
          changes, begun, faults, alone, badge>>

people == <<slack, account, changes>>
-----------------------------------------------------------------------------
Presence == {"absent", "active", "deleted"}

Ops == {"install", "provision", "mine", "remove", "demote", "promote", "sync", "roster", "periodic"}

Call == [op : Ops, at : {"read", "owner", "create", "store", "link", "backfill", "add", "bind",
                         "list", "act", "unlink", "fetch", "upsert"},
         by : People \cup {Null}, who : People \cup {Null}, org : Orgs \cup {Null},
         todo : SUBSET People, done : SUBSET People, seen : Presence \cup {Null}]

At(c, place) == call[c] # Null /\ call[c].at = place

Become(c, new) == call' = [call EXCEPT ![c] = new]

End(c) == Become(c, Null)

Go(c, place) == Become(c, [call[c] EXCEPT !.at = place])

Fault == faults < MaxFaults /\ faults' = faults + 1

Begin(c, new) == call[c] = Null /\ begun < MaxBegun /\ begun' = begun + 1 /\ Become(c, new)

Fresh(op, place) ==
    [op |-> op, at |-> place, by |-> Null, who |-> Null, org |-> Null,
     todo |-> {}, done |-> {}, seen |-> Null]

Running(ops) == \E c \in Calls : call[c] # Null /\ call[c].op \in ops

Provisioning == {"install", "provision", "mine"}

Created == {o \in Orgs : \E p \in People : role[o][p] # "out"}

Admins(o) == {p \in People : role[o][p] = "admin"}

MembersOf(o) == {p \in People : role[o][p] # "out"}

(* A token keeps saying what its owner was when it was signed. *)
SetRole(o, p, new) ==
    /\ role' = [role EXCEPT ![o][p] = new]
    /\ badge' = [badge EXCEPT ![o] = IF new = "admin" THEN @ \cup {p} ELSE @]

(* upsert_app_user: a row is made, or the account linked to a row without.  *)
Upserted(p, linked) ==
    /\ user' = [user EXCEPT ![p] = IF linked THEN "linked"
                                   ELSE IF @ = "none" THEN "plain" ELSE @]
    /\ oldest' = IF oldest = Null THEN p ELSE oldest
-----------------------------------------------------------------------------
(* People join Slack, are deactivated, come back, and sign up with Clerk. *)
SlackChange(p) ==
    /\ changes < MaxChanges /\ changes' = changes + 1
    /\ slack' = [slack EXCEPT ![p] = IF @ = "active" THEN "deleted" ELSE "active"]
    /\ UNCHANGED <<roster, account, user, oldest, org, role, call, begun, faults, alone, badge>>

SignUp(p) ==
    /\ account' = account \cup {p} /\ p \notin account
    /\ UNCHANGED <<slack, roster, user, oldest, org, role, call, changes, begun, faults, alone, badge>>

(* A message to the app makes the row of its author. *)
Message(p) ==
    /\ slack[p] = "active" /\ user[p] = "none"
    /\ Upserted(p, FALSE)
    /\ UNCHANGED <<slack, roster, account, org, role, call, changes, begun, faults, alone, badge>>

(* _resolve_via_org: the account linked to a row, or a roster row of its    *)
(* email, when the session's organization is the workspace's;               *)
ViaOrg(p) == user[p] = "linked" \/ roster[p] = "active"

(* _candidate_app_users_for_email, when it is another or there is none.     *)
ViaEmail(p) == roster[p] = "active"

(* require_app_user: the person passes, and has a linked row from now on. *)
Resolved(p, active) ==
    /\ p \in account
    /\ IF active # Null /\ active = org THEN ViaOrg(p) ELSE ViaEmail(p)
    /\ Upserted(p, TRUE)

(* A page of the web application. *)
Visit(p) ==
    /\ \E active \in {Null} \cup {o \in Orgs : role[o][p] # "out"} : Resolved(p, active)
    /\ UNCHANGED <<people, roster, org, role, call, begun, faults, alone, badge>>
-----------------------------------------------------------------------------
(* sync_workspace_users: in the background, one at a time, when a run or a  *)
(* search asks for it; or from the loop of every twelve hours.              *)
SyncRoster(c, op) ==
    /\ ~ Running({op})
    /\ Begin(c, [Fresh(op, "fetch") EXCEPT !.todo = People])
    /\ UNCHANGED <<people, roster, user, oldest, org, role, faults, alone, badge>>

SyncBackground(c) == SyncRoster(c, "roster")

SyncPeriodic(c) == SyncRoster(c, "periodic")

(* A page of users.list; when it fails the rest is left as it was. *)
Fetch(c) ==
    /\ At(c, "fetch")
    /\ \/ call[c].todo = {} /\ End(c) /\ UNCHANGED faults
       \/ Fault /\ End(c)
       \/ /\ \E p \in call[c].todo :
                Become(c, [call[c] EXCEPT !.at = "upsert", !.who = p, !.seen = slack[p],
                                          !.todo = @ \ {p}])
          /\ UNCHANGED faults
    /\ UNCHANGED <<people, roster, user, oldest, org, role, begun, alone, badge>>

(* _upsert_user; somebody who was never in Slack is on no page. *)
Upsert(c) ==
    /\ At(c, "upsert")
    /\ roster' = IF call[c].seen = "absent" THEN roster
                 ELSE [roster EXCEPT ![call[c].who] = call[c].seen]
    /\ Become(c, [call[c] EXCEPT !.at = "fetch", !.who = Null, !.seen = Null])
    /\ UNCHANGED <<people, user, oldest, org, role, begun, faults, alone, badge>>
-----------------------------------------------------------------------------
NowAlone == alone' = (alone /\ ~ Running(Provisioning))

(* async_save: the installer gets a row, and provision_for_installer runs. *)
Install(c, p) ==
    /\ slack[p] = "active"
    /\ Begin(c, [Fresh("install", "read") EXCEPT !.who = p])
    /\ Upserted(p, FALSE) /\ NowAlone
    /\ UNCHANGED <<people, roster, org, role, badge, faults>>

(* provision_and_backfill_all_workspaces, at the start of the process and   *)
(* whenever a page asks for it.                                             *)
Provision(c) ==
    /\ Begin(c, Fresh("provision", "read")) /\ NowAlone
    /\ UNCHANGED <<people, roster, user, oldest, org, role, badge, faults>>

(* The first page of somebody the roster knows: his workspace without an    *)
(* organization is provisioned, and then all are.                           *)
ProvisionMine(c) ==
    /\ \E p \in account : roster[p] = "active"
    /\ Begin(c, Fresh("mine", "read")) /\ NowAlone
    /\ UNCHANGED <<people, roster, user, oldest, org, role, badge, faults>>

(* What follows the provisioning of a workspace when it is over. *)
Provisioned(c) ==
    IF call[c].op = "mine" THEN Become(c, Fresh("provision", "read")) ELSE End(c)

(* The rows that are not linked to an account. *)
Unlinked == {p \in People : user[p] = "plain"}

(* Mutant: an organization is made even if the workspace has one. *)
ReadRowBlind(c) ==
    /\ At(c, "read") /\ Go(c, "owner")
    /\ UNCHANGED <<people, roster, user, oldest, org, role, begun, faults, alone, badge>>

(* A workspace with an organization needs no other one. *)
ReadRow(c) ==
    /\ At(c, "read")
    /\ IF org = Null THEN Go(c, "owner")
       ELSE IF call[c].op # "provision" THEN Provisioned(c)
       ELSE Become(c, [call[c] EXCEPT !.at = "backfill", !.todo = Unlinked])
    /\ UNCHANGED <<people, roster, user, oldest, org, role, begun, faults, alone, badge>>

(* The owner is the installer, whose email Slack tells, or who has the      *)
(* oldest row, whose email must be in the roster; with a Clerk account.     *)
Owner(c) ==
    /\ At(c, "owner")
    /\ LET p == IF call[c].op = "install" THEN call[c].who ELSE oldest IN
         \/ /\ p # Null /\ p \in account
            /\ call[c].op = "install" \/ roster[p] # "absent"
            /\ Become(c, [call[c] EXCEPT !.at = "create", !.who = p])
         \/ /\ ~ /\ p # Null /\ p \in account
                 /\ call[c].op = "install" \/ roster[p] # "absent"
            /\ Provisioned(c)
    /\ UNCHANGED <<people, roster, user, oldest, org, role, begun, faults, alone, badge>>

(* create_organization makes its creator an admin; *)
CreateOrg(c) ==
    /\ At(c, "create")
    /\ \/ /\ \E o \in Orgs \ Created :
                /\ SetRole(o, call[c].who, "admin")
                /\ Become(c, [call[c] EXCEPT !.at = "store", !.org = o])
          /\ UNCHANGED <<faults, alone>>
       \/ Fault /\ End(c) /\ alone' = FALSE /\ UNCHANGED <<role, badge>>
    /\ UNCHANGED <<people, roster, user, oldest, org, begun>>

(* then the row gets it, *)
StoreOrg(c) ==
    /\ At(c, "store")
    /\ \/ org' = call[c].org /\ Go(c, "link") /\ UNCHANGED <<faults, alone>>
       \/ Fault /\ End(c) /\ alone' = FALSE /\ UNCHANGED org
    /\ UNCHANGED <<people, roster, user, oldest, role, begun, badge>>

(* and the owner a linked row. *)
LinkOwner(c) ==
    /\ At(c, "link")
    /\ Upserted(call[c].who, TRUE)
    /\ IF call[c].op # "provision" THEN Provisioned(c)
       ELSE Become(c, [call[c] EXCEPT !.at = "backfill", !.who = Null, !.org = Null,
                                      !.todo = Unlinked \ {call[c].who}])
    /\ UNCHANGED <<people, roster, org, role, begun, faults, alone, badge>>

(* Whoever had a row and no link is looked at, *)
Backfill(c) ==
    /\ At(c, "backfill")
    /\ \/ call[c].todo = {} /\ End(c)
       \/ \E p \in call[c].todo :
            Become(c, [call[c] EXCEPT !.todo = @ \ {p}, !.who = p, !.org = org,
                    !.at = IF roster[p] # "absent" /\ p \in account THEN "add" ELSE "backfill"])
    /\ UNCHANGED <<people, roster, user, oldest, org, role, begun, faults, alone, badge>>

(* added to the organization, *)
AddMember(c) ==
    /\ At(c, "add")
    /\ LET o == call[c].org  p == call[c].who IN
         \/ /\ SetRole(o, p, IF role[o][p] = "out" THEN "member" ELSE role[o][p])
            /\ Go(c, "bind") /\ UNCHANGED faults
         \/ Fault /\ Go(c, "backfill") /\ UNCHANGED <<role, badge>>
    /\ UNCHANGED <<people, roster, user, oldest, org, begun, alone>>

(* and linked. *)
Bind(c) ==
    /\ At(c, "bind")
    /\ Upserted(call[c].who, TRUE)
    /\ Go(c, "backfill")
    /\ UNCHANGED <<people, roster, org, role, begun, faults, alone, badge>>
-----------------------------------------------------------------------------
(* The session token says org:admin of the organization that is active in   *)
(* it: the workspace's, where that may be over by now; or one of which      *)
(* nothing is known here, and then the caller's email decides.  The call    *)
(* acts on the workspace's all the same.                                    *)
AsAdmin(a) ==
    /\ org # Null
    /\ \/ a \in badge[org] /\ Resolved(a, org)
       \/ Resolved(a, Null)

(* Nobody removes or demotes himself. *)
Targets(a) == People \ {a}

Manage(c, op, place) ==
    /\ \E a \in People : \E target \in Targets(a) :
         /\ AsAdmin(a)
         /\ Begin(c, [Fresh(op, place) EXCEPT !.by = a, !.who = target, !.org = org])
    /\ UNCHANGED <<people, roster, org, role, faults, alone, badge>>

Remove(c) == Manage(c, "remove", "act")

Demote(c) == Manage(c, "demote", "list")

Promote(c) == Manage(c, "promote", "act")

(* Another admin must be left. *)
CountAdmins(c) ==
    /\ At(c, "list") /\ call[c].op = "demote"
    /\ IF Admins(call[c].org) \subseteq {call[c].who} THEN End(c) ELSE Go(c, "act")
    /\ UNCHANGED <<people, roster, user, oldest, org, role, begun, faults, alone, badge>>

SyncSlack(c) ==
    /\ \E a \in People :
         /\ AsAdmin(a)
         /\ Begin(c, [Fresh("sync", "list") EXCEPT !.by = a, !.org = org])
    /\ UNCHANGED <<people, roster, org, role, faults, alone, badge>>

(* The members that are linked to somebody the roster has deleted or does   *)
(* not have.                                                                *)
Compare(c) ==
    /\ At(c, "list") /\ call[c].op = "sync"
    /\ Become(c, [call[c] EXCEPT !.at = "act",
         !.todo = {p \in MembersOf(call[c].org) \ {call[c].by} :
                     user[p] = "linked" /\ roster[p] # "active"}])
    /\ UNCHANGED <<people, roster, user, oldest, org, role, begun, faults, alone, badge>>

NewRole(c, old) ==
    CASE call[c].op \in {"remove", "sync"} -> "out"
      [] call[c].op = "demote" -> "member"
      [] call[c].op = "promote" -> "admin"

(* Clerk changes the role of a member; of somebody else it is an error. *)
Act(c) ==
    /\ At(c, "act")
    /\ LET o == call[c].org
           targets == IF call[c].op = "sync" THEN call[c].todo ELSE {call[c].who} IN
         \/ /\ targets = {}
            /\ Go(c, "unlink") /\ UNCHANGED <<role, badge, faults>>
         \/ \E p \in targets :
              /\ \/ /\ role[o][p] # "out"
                    /\ SetRole(o, p, NewRole(c, role[o][p]))
                    /\ CASE call[c].op = "sync" ->
                              Become(c, [call[c] EXCEPT !.todo = @ \ {p}, !.done = @ \cup {p}])
                         [] call[c].op = "remove" ->
                              Become(c, [call[c] EXCEPT !.at = "unlink", !.done = {p}])
                         [] OTHER -> End(c)
                    /\ UNCHANGED faults
                 \/ /\ \/ role[o][p] = "out" /\ UNCHANGED faults
                       \/ Fault
                    /\ IF call[c].op = "sync"
                       THEN Become(c, [call[c] EXCEPT !.todo = @ \ {p}]) ELSE End(c)
                    /\ UNCHANGED <<role, badge>>
    /\ UNCHANGED <<people, roster, user, oldest, org, begun, alone>>

(* Whoever was removed loses the link. *)
Unlink(c) ==
    /\ At(c, "unlink")
    /\ user' = [p \in People |-> IF p \in call[c].done /\ user[p] = "linked"
                                 THEN "plain" ELSE user[p]]
    /\ End(c)
    /\ UNCHANGED <<people, roster, oldest, org, role, begun, faults, alone, badge>>
-----------------------------------------------------------------------------
Restart ==
    /\ Fault
    /\ call' = [c \in Calls |-> Null]
    /\ NowAlone
    /\ UNCHANGED <<people, roster, user, oldest, org, role, begun, badge>>

(* A workspace where nothing has been done yet; *)
InitNew ==
    /\ slack \in [People -> {"absent", "active"}]
    /\ roster = [p \in People |-> "absent"]
    /\ account = {} /\ user = [p \in People |-> "none"] /\ oldest = Null
    /\ org = Null /\ role = [o \in Orgs |-> [p \in People |-> "out"]]

(* or one that all of Slack's members use, some of whom are admins. *)
InitTeam ==
    /\ slack = [p \in People |-> "active"] /\ roster = slack
    /\ account = People /\ user = [p \in People |-> "linked"] /\ oldest \in People
    /\ org \in Orgs
    /\ role \in {r \in [Orgs -> [People -> {"out", "member", "admin"}]] :
          /\ \E p \in People : r[org][p] = "admin"
          /\ \A o \in Orgs \ {org}, p \in People : r[o][p] = "out"
          /\ \A p \in People : r[org][p] # "out"}

Init ==
    /\ InitNew \/ InitTeam
    /\ call = [c \in Calls |-> Null]
    /\ changes = 0 /\ begun = 0 /\ faults = 0 /\ alone = TRUE
    /\ badge = [o \in Orgs |-> Admins(o)]

Next ==
    \/ \E p \in People : SlackChange(p) \/ SignUp(p) \/ Message(p) \/ Visit(p)
    \/ \E c \in Calls :
         \/ SyncBackground(c) \/ SyncPeriodic(c) \/ Fetch(c) \/ Upsert(c)
         \/ (\E p \in People : Install(c, p)) \/ Provision(c) \/ ProvisionMine(c)
         \/ ReadRow(c) \/ Owner(c) \/ CreateOrg(c) \/ StoreOrg(c) \/ LinkOwner(c)
         \/ Backfill(c) \/ AddMember(c) \/ Bind(c)
         \/ Remove(c) \/ Demote(c) \/ Promote(c) \/ CountAdmins(c)
         \/ SyncSlack(c) \/ Compare(c) \/ Act(c) \/ Unlink(c)
    \/ Restart

Spec == Init /\ [][Next]_vars
-----------------------------------------------------------------------------
(* The rows and the calls have the shapes of the code; the workspace's      *)
(* organization exists at Clerk, and somebody has the oldest row if and     *)
(* only if there is one.                                                    *)
TypeOK ==
    /\ slack \in [People -> Presence] /\ roster \in [People -> Presence]
    /\ account \subseteq People
    /\ user \in [People -> {"none", "plain", "linked"}]
    /\ \A c \in Calls : call[c] # Null => call[c] \in Call
    /\ role \in [Orgs -> [People -> {"out", "member", "admin"}]]
    /\ \A o \in Orgs : Admins(o) \subseteq badge[o]
    /\ org \in Orgs \cup {Null}
    /\ (oldest = Null) = (\A p \in People : user[p] = "none")
    /\ \A p \in People : user[p] = "linked" => p \in account

(* The organization maps 1:1 to the workspace (app/api/team.py:4): it is    *)
(* the only one made for it, unless two provisioning calls overlap or one   *)
(* fails half way.                                                          *)
OneOrg ==
    alone => \A o \in Created : o = org \/ \E c \in Calls : At(c, "store") /\ call[c].org = o

(* "If demoting would leave zero admins in the org, refuse with 409"        *)
(* (app/api/team.py:318).                                                   *)
DemotionLeavesAdmin ==
    [][\A c \in Calls :
          /\ At(c, "act") /\ call[c].op = "demote"
          /\ role' # role /\ call'[c] # call[c]
          => \E p \in People : role'[call[c].org][p] = "admin"]_vars
=============================================================================
