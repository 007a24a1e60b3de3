---------------------------- MODULE SkillInstalls ----------------------------
(***************************************************************************)
(* How a skill gets into a workspace and to a user: an uploaded file waits  *)
(* as a preview for a press of Install, Edit or Cancel                      *)
(* (app/slack/skill_commands.py, app/skills/preview_store.py), and skills   *)
(* are installed and uninstalled from Slack and from the web                *)
(* (app/api/skills.py, app/skills/registry.py).                             *)
(*                                                                          *)
(* Every handler is a coroutine of its own with a transaction per call, and *)
(* a card keeps its buttons until the handler of a press replaces it.  What *)
(* is in a skill is SkillBodies' matter.                                    *)
(***************************************************************************)
EXTENDS Naturals, FiniteSets

CONSTANTS
    Users, Names, Null,
    Calls,       \* slots for handlers
    MaxFiles,    \* bound: files uploaded
    MaxSkills,   \* bound: skills created
    MaxBegun,    \* bound: handlers but those of files
    MaxFaults    \* bound: restarts, and failures of the database, of R2 or of Slack

ASSUME BoundsAssumption == {MaxFiles, MaxSkills, MaxBegun, MaxFaults} \subseteq Nat

VARIABLES
    skill,     \* the workspace's skill of each name, or Null
    installs,  \* SkillInstall rows: a user and a skill's id
    preview,   \* SkillPreview rows
    card,      \* the buttons under the card of each preview
    modal,     \* previews whose edit form is open
    pending,   \* _pending_uploads
    call,      \* handlers under way
    files, made, begun, faults,
    crossed    \* history: previews edited during, or left half way by, an installation

rows == <<skill, installs, made>>

cards == <<preview, card, modal, pending, files>>

vars == <<rows, cards, call, begun, faults, crossed>>
-----------------------------------------------------------------------------
Ids == 1..MaxSkills

Files == 1..MaxFiles

Skill == [id : Ids, owner : Users \cup {Null}, file : Files \cup {Null}]

Preview == [user : Users, name : Names, live : BOOLEAN]

Call == [at : {"file", "check", "insert", "look", "install", "drop", "tell", "all", "browse",
               "uninstall"},
         user : Users, name : Names \cup {Null}, file : Files \cup {Null},
         owner : Users \cup {Null}, id : Ids \cup {Null}, todo : SUBSET Ids, done : SUBSET Ids,
         undone : SUBSET Ids]  \* history: ids the user has lost since the call began

(* Nothing is stored as the mark of there being nothing. *)
ASSUME NullAssumption == Null \notin Skill \cup Preview \cup Call \cup Files

At(c, place) == call[c] # Null /\ call[c].at = place

Become(c, new) == call' = [call EXCEPT ![c] = new]

Go(c, place) == Become(c, [call[c] EXCEPT !.at = place])

End(c) == Become(c, Null)

Fault == faults < MaxFaults /\ faults' = faults + 1

Fresh(u, place) == [at |-> place, user |-> u, name |-> Null, file |-> Null, owner |-> Null,
                    id |-> Null, todo |-> {}, done |-> {}, undone |-> {}]

Begin(c, new) ==
    /\ call[c] = Null /\ begun < MaxBegun /\ begun' = begun + 1
    /\ crossed = {}  \* bound: no handler after a crossed installation
    /\ Become(c, new)

(* The buttons of a preview, of a taken name, and of a card that was acted on. *)
PreviewCard == {"confirm", "edit", "cancel"}

CollisionCard == {"existing", "edit", "cancel"}

StatusCard == {}

Cards(f, buttons) == card' = [card EXCEPT ![f] = buttons]

(* get_preview: not of a row that has expired. *)
Found(f) == preview[f] # Null /\ preview[f].live

Current == {skill[n].id : n \in {m \in Names : skill[m] # Null}}

(* list_for_user, and what is left of the workspace's skills. *)
Installed(u) == {id \in Current : <<u, id>> \in installs}

Installable(u) == Current \ Installed(u)

(* _resolve_visible_skill: a personal skill is its creator's alone. *)
Visible(u, n) == skill[n] # Null /\ skill[n].owner \in {Null, u}

Removed(pairs, ended) ==
    /\ installs' = installs \ pairs
    /\ call' = [c \in Calls |->
         IF call[c] = Null \/ c \in ended THEN Null
         ELSE [call[c] EXCEPT !.undone = @ \cup {pair[2] : pair \in
                 {lost \in pairs \cap installs : lost[1] = call[c].user}}]]

(* Confirmations of a file that have read its preview. *)
Confirming(f) == \E c \in Calls : call[c] # Null /\ call[c].file = f
-----------------------------------------------------------------------------
(* /misterr skill upload; its mark lives five minutes in one process. *)
CmdUpload(u) ==
    /\ pending = {} /\ files < MaxFiles  \* bound: one mark, and none after the last file
    /\ pending' = {u}
    /\ UNCHANGED <<rows, preview, card, modal, files, call, begun, faults, crossed>>

PendingExpires(u) ==
    /\ u \in pending /\ pending' = pending \ {u}
    /\ UNCHANGED <<rows, preview, card, modal, files, call, begun, faults, crossed>>

(* A file in a direct message, or in a channel while the mark is set. *)
FileShared(c, u, dm) ==
    /\ files < MaxFiles /\ files' = files + 1
    /\ dm \/ u \in pending
    /\ pending' = pending \ {u}
    /\ call[c] = Null /\ Become(c, [Fresh(u, "file") EXCEPT !.file = files + 1])
    /\ UNCHANGED <<rows, preview, card, modal, begun, faults, crossed>>

(* Once it is downloaded and read it has a preview, with a card. *)
CreatePreview(c) ==
    /\ At(c, "file")
    /\ \/ /\ \E n \in Names :
               preview' = [preview EXCEPT ![call[c].file] =
                             [user |-> call[c].user, name |-> n, live |-> TRUE]]
          /\ Cards(call[c].file, PreviewCard)
          /\ UNCHANGED faults
       \/ Fault /\ UNCHANGED <<preview, card>>
    /\ End(c)
    /\ UNCHANGED <<rows, modal, pending, files, begun, crossed>>

(* Half an hour later; *)
Expire(f) ==
    /\ Found(f)
    /\ preview' = [preview EXCEPT ![f].live = FALSE]
    /\ UNCHANGED <<rows, card, modal, pending, files, call, begun, faults, crossed>>

(* and the sweep of every five minutes. *)
CleanupExpired ==
    /\ \E f \in Files : preview[f] # Null /\ ~preview[f].live
    /\ preview' = [f \in Files |-> IF Found(f) THEN preview[f] ELSE Null]
    /\ UNCHANGED <<rows, card, modal, pending, files, call, begun, faults, crossed>>
-----------------------------------------------------------------------------
(* A press on a card whose preview is gone takes its buttons away. *)
Outdated(f) ==
    /\ card[f] # StatusCard /\ ~Found(f)
    /\ Cards(f, StatusCard)
    /\ UNCHANGED <<rows, preview, modal, pending, files, call, begun, faults, crossed>>

Confirm(c, f) ==
    /\ "confirm" \in card[f] /\ Found(f)
    /\ Begin(c, [Fresh(preview[f].user, "check") EXCEPT !.name = preview[f].name, !.file = f])
    /\ UNCHANGED <<rows, cards, faults, crossed>>

InstallExisting(c, f) ==
    /\ "existing" \in card[f] /\ Found(f)
    /\ LET p == preview[f] IN
         \/ /\ skill[p.name] = Null
            /\ Cards(f, StatusCard)
            /\ UNCHANGED <<call, begun>>
         \/ /\ skill[p.name] # Null
            /\ Begin(c, [Fresh(p.user, "look") EXCEPT !.name = p.name, !.file = f,
                                                      !.id = skill[p.name].id])
            /\ UNCHANGED card
    /\ UNCHANGED <<rows, preview, modal, pending, files, faults, crossed>>

(* Editing takes the buttons away and opens the form; *)
Edit(f) ==
    /\ "edit" \in card[f] /\ Found(f)
    /\ Cards(f, StatusCard) /\ modal' = modal \cup {f}
    /\ UNCHANGED <<rows, preview, pending, files, call, begun, faults, crossed>>

(* saving it posts another card, unless the preview is gone. *)
SubmitModal(f, n) ==
    /\ f \in modal
    /\ IF Found(f)
       THEN /\ preview' = [preview EXCEPT ![f].name = n]
            /\ Cards(f, PreviewCard) /\ modal' = modal \ {f}
            /\ crossed' = IF Confirming(f) THEN crossed \cup {f} ELSE crossed
       ELSE modal' = modal \ {f} /\ UNCHANGED <<preview, card, crossed>>
    /\ UNCHANGED <<rows, pending, files, call, begun, faults>>

Cancel(f) ==
    /\ "cancel" \in card[f] /\ Cards(f, StatusCard)
    /\ preview' = [preview EXCEPT ![f] = Null]
    /\ UNCHANGED <<rows, modal, pending, files, call, begun, faults, crossed>>
-----------------------------------------------------------------------------
(* create_skill: the name is looked up first; a taken one turns the buttons *)
(* of the card into the choice of what to do.                               *)
CheckName(c) ==
    /\ At(c, "check")
    /\ IF skill[call[c].name] = Null THEN Go(c, "insert") /\ UNCHANGED card
       ELSE /\ End(c)
            /\ card' = [f \in Files |-> IF f = call[c].file THEN CollisionCard ELSE card[f]]
    /\ UNCHANGED <<rows, preview, modal, pending, files, begun, faults, crossed>>

(* Then the row is inserted, the text uploaded and the row committed.  The  *)
(* unique key stops whoever comes second, and nothing is left of a failure  *)
(* but of one after the commit, which leaves the skill.                     *)
InsertSkill(c) ==
    /\ At(c, "insert")
    /\ LET n == call[c].name IN
         \/ /\ skill[n] = Null /\ made < MaxSkills
            /\ made' = made + 1
            /\ skill' = [skill EXCEPT ![n] = [id |-> made + 1, owner |-> call[c].owner,
                                              file |-> call[c].file]]
            /\ \/ /\ IF call[c].file = Null THEN End(c)
                     ELSE Become(c, [call[c] EXCEPT !.at = "install", !.id = made + 1,
                                                         !.name = Null])
                  /\ UNCHANGED <<faults, crossed>>
               \/ Fault /\ End(c) /\ crossed' = crossed \cup ({call[c].file} \ {Null})
         \/ /\ \/ skill[n] # Null /\ UNCHANGED faults
               \/ Fault
            /\ End(c) /\ UNCHANGED <<skill, made, crossed>>
    /\ UNCHANGED <<cards, installs, begun>>

(* install_for_user, after which a file's preview is dropped. *)
Installs(c, id) == installs' = installs \cup {<<call[c].user, id>>}

Given(c) == [call[c] EXCEPT !.at = IF call[c].file = Null THEN "tell" ELSE "drop",
                            !.done = {call[c].id}]

LeftHalfWay(calls) ==
    crossed' = crossed \cup {f \in Files : \E c \in calls :
                               call[c].file = f /\ call[c].at \in {"install", "drop"}}

(* Mutant: a failed installation is taken for a done one. *)
InstallAnyway(c) ==
    /\ At(c, "install")
    /\ \/ call[c].id \in Current /\ Installs(c, call[c].id) /\ UNCHANGED faults
       \/ call[c].id \notin Current /\ UNCHANGED <<installs, faults>>
    /\ Become(c, Given(c))
    /\ UNCHANGED <<cards, skill, made, begun, crossed>>

(* It fails when the skill is gone, and when another call inserts the row   *)
(* between its look and its insertion.                                      *)
Install(c) ==
    /\ At(c, "install")
    /\ \/ /\ call[c].id \in Current
          /\ Installs(c, call[c].id)
          /\ Become(c, Given(c))
          /\ UNCHANGED <<faults, crossed>>
       \/ /\ \/ call[c].id \notin Current /\ UNCHANGED faults
             \/ <<call[c].user, call[c].id>> \in installs /\ UNCHANGED faults
             \/ Fault
          /\ End(c) /\ LeftHalfWay({c})
          /\ UNCHANGED installs
    /\ UNCHANGED <<cards, skill, made, begun>>

(* Mutant: the preview outlives the skill made of it. *)
KeepPreview(c) ==
    /\ At(c, "drop") /\ Go(c, "tell")
    /\ UNCHANGED <<rows, cards, begun, faults, crossed>>

(* delete_preview, which may fail and leave the preview with its buttons. *)
DropPreview(c) ==
    /\ At(c, "drop")
    /\ \/ /\ preview' = [preview EXCEPT ![call[c].file] = Null]
          /\ Go(c, "tell")
          /\ UNCHANGED <<faults, crossed>>
       \/ Fault /\ End(c) /\ LeftHalfWay({c}) /\ UNCHANGED preview
    /\ UNCHANGED <<rows, card, modal, pending, files, begun>>

(* The card or the message says what was installed. *)
Tell(c) ==
    /\ At(c, "tell")
    /\ card' = [f \in Files |-> IF f = call[c].file THEN StatusCard ELSE card[f]]
    /\ End(c)
    /\ UNCHANGED <<rows, preview, modal, pending, files, begun, faults, crossed>>
-----------------------------------------------------------------------------
(* /misterr skill install <name>; *)
CmdInstall(c, u, n) ==
    /\ skill[n] # Null
    /\ Begin(c, [Fresh(u, "look") EXCEPT !.name = n, !.id = skill[n].id])
    /\ UNCHANGED <<rows, cards, faults, crossed>>

(* a press on one of the workspace's skills, listed some time ago; *)
InstallFromBrowse(c, u, n) ==
    /\ skill[n] # Null
    /\ Begin(c, [Fresh(u, "browse") EXCEPT !.name = n, !.id = skill[n].id])
    /\ UNCHANGED <<rows, cards, faults, crossed>>

(* the agent's tool, which looks at no install and at no owner; *)
AgentInstall(c, u, n) ==
    /\ skill[n] # Null
    /\ Begin(c, [Fresh(u, "install") EXCEPT !.id = skill[n].id])
    /\ UNCHANGED <<rows, cards, faults, crossed>>

(* or on the button of the web application, which installs at once. *)
WebInstall(c, u, n) ==
    /\ Visible(u, n)
    /\ Begin(c, [Fresh(u, "install") EXCEPT !.id = skill[n].id])
    /\ UNCHANGED <<rows, cards, faults, crossed>>

(* get_skill_for_user: by its name.  A command says that the skill is there *)
(* already, a button that it is installed.                                  *)
Look(c) ==
    /\ At(c, "look") \/ At(c, "browse")
    /\ LET n == call[c].name  u == call[c].user IN
         IF skill[n] # Null /\ <<u, skill[n].id>> \in installs
         THEN IF At(c, "look") /\ call[c].file = Null THEN End(c)
              ELSE Become(c, [call[c] EXCEPT !.at = IF @ = "look" THEN "drop" ELSE "tell",
                                              !.name = Null, !.done = {skill[n].id}])
         ELSE Become(c, [call[c] EXCEPT !.at = "install", !.name = Null])
    /\ UNCHANGED <<rows, cards, begun, faults, crossed>>

(* Everything that is left, one by one; *)
InstallAll(c, u) ==
    /\ Installable(u) # {}
    /\ Begin(c, [Fresh(u, "all") EXCEPT !.todo = Installable(u)])
    /\ UNCHANGED <<rows, cards, faults, crossed>>

(* what fails is told as failed. *)
InstallNext(c) ==
    /\ At(c, "all")
    /\ \/ call[c].todo = {} /\ Go(c, "tell") /\ UNCHANGED <<installs, faults>>
       \/ \E id \in call[c].todo :
            \/ /\ id \in Current /\ Installs(c, id)
               /\ Become(c, [call[c] EXCEPT !.todo = @ \ {id}, !.done = @ \cup {id}])
               /\ UNCHANGED faults
            \/ /\ \/ id \notin Current /\ UNCHANGED faults
                  \/ <<call[c].user, id>> \in installs /\ UNCHANGED faults
                  \/ Fault
               /\ Become(c, [call[c] EXCEPT !.todo = @ \ {id}])
               /\ UNCHANGED installs
    /\ UNCHANGED <<cards, skill, made, begun, crossed>>

(* The web makes a skill without a preview, the user's own or everybody's,  *)
(* and installs it for nobody.                                              *)
WebCreate(c, u, n) ==
    /\ \E owner \in {u, Null} : Begin(c, [Fresh(u, "check") EXCEPT !.name = n, !.owner = owner])
    /\ UNCHANGED <<rows, cards, faults, crossed>>
-----------------------------------------------------------------------------
(* /misterr skill remove <name>, the agent's tool, and the web; *)
CmdRemove(c, u, n) ==
    /\ skill[n] # Null /\ skill[n].id \in Installed(u)
    /\ Begin(c, [Fresh(u, "uninstall") EXCEPT !.id = skill[n].id])
    /\ UNCHANGED <<rows, cards, faults, crossed>>

AgentUninstall(c, u, n) ==
    /\ skill[n] # Null /\ skill[n].id \in Installed(u)
    /\ Begin(c, [Fresh(u, "uninstall") EXCEPT !.id = skill[n].id])
    /\ UNCHANGED <<rows, cards, faults, crossed>>

WebUninstall(c, u, n) ==
    /\ Visible(u, n) /\ skill[n].id \in Installed(u)
    /\ Begin(c, [Fresh(u, "uninstall") EXCEPT !.id = skill[n].id])
    /\ UNCHANGED <<rows, cards, faults, crossed>>

Uninstall(c) ==
    /\ At(c, "uninstall")
    /\ Removed({<<call[c].user, call[c].id>>}, {c})
    /\ UNCHANGED <<cards, skill, made, begun, faults, crossed>>

(* the button in the list of one's skills. *)
PressUninstall(u) ==
    /\ \E id \in Installed(u) : Removed({<<u, id>>}, {})
    /\ UNCHANGED <<cards, skill, made, begun, faults, crossed>>

(* An administrator deletes a skill, and its installs with it. *)
DeleteSkill(n) ==
    /\ skill[n] # Null /\ skill' = [skill EXCEPT ![n] = Null]
    /\ Removed({pair \in installs : pair[2] = skill[n].id}, {})
    /\ UNCHANGED <<cards, made, begun, faults, crossed>>

(* The subcommands of /misterr that change something. *)
Command(c, u, n) == CmdUpload(u) \/ CmdInstall(c, u, n) \/ CmdRemove(c, u, n)

(* The process restarts: the marks and the calls are lost. *)
Restart ==
    /\ Fault
    /\ LeftHalfWay({c \in Calls : call[c] # Null})
    /\ pending' = {} /\ call' = [c \in Calls |-> Null]
    /\ UNCHANGED <<rows, preview, card, modal, files, begun>>

Init ==
    /\ skill = [n \in Names |-> Null] /\ installs = {} /\ made = 0
    /\ preview = [f \in Files |-> Null] /\ card = [f \in Files |-> StatusCard] /\ modal = {}
    /\ pending = {} /\ files = 0
    /\ call = [c \in Calls |-> Null] /\ begun = 0 /\ faults = 0
    /\ crossed = {}

Next ==
    \/ \E u \in Users : PendingExpires(u) \/ PressUninstall(u)
    \/ \E f \in Files :
         \/ Expire(f) \/ Outdated(f) \/ Edit(f) \/ Cancel(f)
         \/ \E n \in Names : SubmitModal(f, n)
    \/ CleanupExpired
    \/ \E c \in Calls :
         \/ \E u \in Users, dm \in BOOLEAN : FileShared(c, u, dm)
         \/ \E f \in Files : Confirm(c, f) \/ InstallExisting(c, f)
         \/ \E u \in Users, n \in Names :
              \/ Command(c, u, n) \/ InstallFromBrowse(c, u, n)
              \/ AgentInstall(c, u, n) \/ AgentUninstall(c, u, n)
              \/ WebInstall(c, u, n) \/ WebUninstall(c, u, n) \/ WebCreate(c, u, n)
         \/ \E u \in Users : InstallAll(c, u)
         \/ CreatePreview(c) \/ CheckName(c) \/ InsertSkill(c) \/ Install(c)
         \/ DropPreview(c) \/ Tell(c) \/ Look(c) \/ InstallNext(c) \/ Uninstall(c)
    \/ \E n \in Names : DeleteSkill(n)
    \/ Restart

Spec == Init /\ [][Next]_vars
-----------------------------------------------------------------------------
(* The rows have the shapes of the code; no two skills share an id, and     *)
(* every install is of a skill that exists.                                 *)
TypeOK ==
    /\ skill \in [Names -> Skill \cup {Null}]
    /\ preview \in [Files -> Preview \cup {Null}]
    /\ card \in [Files -> {PreviewCard, CollisionCard, StatusCard}]
    /\ \A c \in Calls : call[c] # Null => call[c] \in Call
    /\ \A m, n \in Names : m # n /\ skill[m] # Null /\ skill[n] # Null => skill[m].id # skill[n].id
    /\ installs \subseteq Users \X Current

(* What a card or a message reports as installed is installed, and a        *)
(* preview is dropped only when its user has the skill                      *)
(* (skill_commands.py:759, :809, :921), whatever presses, commands, edits   *)
(* and deletions interleave, unless it was uninstalled or deleted           *)
(* meanwhile.                                                               *)
ToldIsInstalled ==
    \A c \in Calls : call[c] # Null /\ call[c].at \in {"drop", "tell"} =>
        \A id \in call[c].done : <<call[c].user, id>> \in installs \/ id \in call[c].undone

(* One uploaded file is at most one skill, however often its buttons are    *)
(* pressed, unless it was edited while an installation of it was under way  *)
(* or an installation was left half way.                                    *)
OneFileOneSkill ==
    \A f \in Files \ crossed :
        Cardinality({n \in Names : skill[n] # Null /\ skill[n].file = f}) <= 1
=============================================================================
