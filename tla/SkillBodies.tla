----------------------------- MODULE SkillBodies -----------------------------
(***************************************************************************)
(* The body of one skill of one workspace: its row and version, the single  *)
(* object in R2 that holds the text, the process's cache of bodies by       *)
(* version (app/skills/registry.py, storage.py), and everything that        *)
(* rewrites the text: observations and compaction of a memory skill         *)
(* (app/memory), usage notes and the daily refresh of an integration's      *)
(* catalog skill (app/integrations), and the admin's editor.                *)
(*                                                                          *)
(* Each writer reads the row, then the text, and much later writes the      *)
(* whole text back.  A body is the set of facts its curated part holds and  *)
(* the set of facts its log holds; what the model writes when it compacts   *)
(* is taken to keep the facts it was given.                                 *)
(***************************************************************************)
EXTENDS Naturals, FiniteSets

CONSTANTS
    Writers,     \* slots for calls
    Facts,       \* observations, or usage notes
    Null,
    Attempts,    \* MAX_APPEND_RETRIES
    Threshold,   \* OBSERVATIONS_THRESHOLD
    Cap,         \* facts that fit in MAX_BODY_BYTES
    MaxVersion,  \* bound: versions of the skill
    MaxFaults    \* bound: restarts, and failures of R2, of a commit or a model

VARIABLES
    kind,    \* memory or catalog: which writers the skill has
    row,     \* version of the skill's row; 0 before it is created, Null once deleted
    r2,      \* the object in R2
    cache,   \* _body_cache, per version
    call,    \* calls under way
    acked,   \* facts reported as written
    raced,   \* history: a writer uploaded over a text it had not seen
    faults

vars == <<kind, row, r2, cache, call, acked, raced, faults>>
-----------------------------------------------------------------------------
Versions == 1..MaxVersion

Body == [curated : SUBSET Facts, log : SUBSET Facts]

Empty == [curated |-> {}, log |-> {}]

All(body) == body.curated \cup body.log

Ops == [memory |-> {"append", "compact", "edit"},
        catalog |-> {"note", "refresh", "edit"}]

Call == [op : Ops.memory \cup Ops.catalog,
         at : {"look", "load", "check", "get", "put", "commit"},
         fact : Facts \cup {Null}, version : Versions \cup {Null},
         body : Body, tries : 1..Attempts, late : BOOLEAN]

At(w, place) == call[w] # Null /\ call[w].at = place

Become(w, new) == call' = [call EXCEPT ![w] = new]

End(w) == Become(w, Null)

Fault == faults < MaxFaults /\ faults' = faults + 1

(* Between the last look at the row and the upload: the others' commits     *)
(* pass unseen.  Only append and compact look again before they write.      *)
Exposed(w) ==
    /\ call[w] # Null
    /\ call[w].at \in (IF call[w].op \in {"append", "compact"}
                       THEN {"get", "put"} ELSE {"load", "get", "put"})

(* The upload is of a text read before another's commit, or lands between   *)
(* another's upload and its commit.                                         *)
Overwrites(w) ==
    \/ call[w].late
    \/ \E other \in Writers \ {w} : At(other, "commit")

Present == row \in Versions

(* download_skill_body: the cached text of that version, or the object,     *)
(* whatever version of the text it holds.                                   *)
Download(version) == IF cache[version] # Null THEN cache[version] ELSE r2
-----------------------------------------------------------------------------
(* create_skill: its insert blocks a second one until the first commits. *)
Created ==
    /\ row = 0
    /\ row' = 1 /\ r2' = Empty /\ cache' = [cache EXCEPT ![1] = Empty]
    /\ UNCHANGED <<kind, call, acked, raced, faults>>

(* ensure_company_skill and ensure_team_skill, on installation, *)
SeedWorkspace == kind = "memory" /\ Created

(* ensure_user_skill, on the user's first turn, *)
SeedUser == kind = "memory" /\ Created

(* ensure_channel_skill, when the app joins a channel. *)
SeedChannel == kind = "memory" /\ Created

(* The first upsert_integration_skill, when the app is connected. *)
Upsert == kind = "catalog" /\ Created

(* A read leaves the text it got in the cache, under the row's version. *)
Served ==
    /\ Present /\ Download(row) # Null
    /\ cache' = [cache EXCEPT ![row] = Download(row)]
    /\ UNCHANGED <<kind, row, r2, call, acked, raced, faults>>

(* The memory blocks of a turn's prompt, *)
ShowMemory == kind = "memory" /\ Served

(* the bodies of the installed skills that are always active, *)
ShowInstalled == kind = "catalog" /\ Served

(* and the tool load_skill, for a skill of the catalogue or an installed one. *)
LoadSkill == kind = "catalog" /\ Served

NewFacts ==
    {fact \in Facts \ acked : \A w \in Writers : call[w] = Null \/ call[w].fact # fact}

(* A call finds the row, if there is one. *)
Begin(w, op, facts) ==
    /\ call[w] = Null /\ Present /\ op \in Ops[kind]
    /\ ~raced  \* bound: nothing begins once a text has been overwritten unseen
    /\ \E fact \in facts :
          Become(w, [op |-> op, at |-> "load", fact |-> fact, version |-> row,
                     body |-> Empty, tries |-> 1, late |-> FALSE])
    /\ UNCHANGED <<kind, row, r2, cache, acked, raced, faults>>

(* What the cheap model finds in a turn, in the messages of a channel and   *)
(* in the calls of a run, if it answers at all and in the right form.       *)
FromTurn == NewFacts

FromHistory == NewFacts

FromCalls == NewFacts

(* The tool `remember`, *)
Remember(w) == Begin(w, "append", NewFacts)

(* and `aprende_workspace`, which scans one channel: scan_single_channel. *)
ScanChannel(w) == Begin(w, "append", FromHistory)

(* run_onboarding_scan: integrations, members and channels, one append each, *)
ScanLists(w) == Begin(w, "append", NewFacts)

(* then the history of the channels. *)
ScanHistory(w) == Begin(w, "append", FromHistory)

(* extract_and_persist, after a turn. *)
PostPass(w) == Begin(w, "append", FromTurn)

(* run_compaction_once reaches the skill. *)
Compaction(w) == Begin(w, "compact", {Null})

(* maybe_improve_skill, after a run that used the app. *)
Improve(w) == Begin(w, "note", FromCalls)

(* refresh_all_for_workspace reaches the app. *)
Refresh(w) == Begin(w, "refresh", {Null})

(* The editor of the admin page. *)
Edit(w) == Begin(w, "edit", {Null})

(* An append that starts again finds the row as it is now. *)
Look(w) ==
    /\ At(w, "look")
    /\ \/ ~Present /\ End(w)
       \/ Present /\ Become(w, [call[w] EXCEPT !.at = "load", !.version = row])
    /\ UNCHANGED <<kind, row, r2, cache, acked, raced, faults>>

Logged(body, fact) == [body EXCEPT !.log = @ \cup {fact}]

Fits(body) == Cardinality(All(body)) <= Cap

(* append_observation, *)
Appended(w, read) == {body \in {Logged(read, call[w].fact)} : Fits(body)}

(* _append_usage_note, unless a bullet says the same, *)
Noted(w, read) == {body \in Appended(w, read) : call[w].fact \notin read.log}

(* compact_skill: the log goes into the curated summary, *)
Compacted(read) ==
    IF Cardinality(read.log) > Threshold THEN {[curated |-> All(read), log |-> {}]} ELSE {}

(* upsert_integration_skill: the generated part is not modelled, *)
Refreshed(read) == {read}

(* the editor, who may remove everything. *)
Edited(read) == {read, Empty}

(* What a writer makes of the text it read; nothing if it returns instead.  *)
Rewritten(w, read) ==
    CASE call[w].op = "append" -> Appended(w, read)
      [] call[w].op = "note" -> Noted(w, read)
      [] call[w].op = "compact" -> Compacted(read)
      [] call[w].op = "refresh" -> Refreshed(read)
      [] call[w].op = "edit" -> Edited(read)

(* The text is read.  A writer that cannot read it returns, but for the     *)
(* refresh, which goes on as if there had been nothing to keep.             *)
Load(w) ==
    /\ At(w, "load")
    /\ LET read == Download(call[w].version)
           rewritten == IF read = Null THEN {} ELSE Rewritten(w, read)
           next == IF call[w].op \in {"append", "compact"} THEN "check" ELSE "get" IN
         \/ /\ Fault
            /\ IF call[w].op = "refresh"
               THEN Become(w, [call[w] EXCEPT !.at = "get", !.late = TRUE])
               ELSE End(w)
            /\ UNCHANGED cache
         \/ /\ cache' = [cache EXCEPT ![call[w].version] = read]
            /\ UNCHANGED faults
            /\ \/ rewritten = {} /\ End(w)
               \/ \E body \in rewritten :
                    Become(w, [call[w] EXCEPT !.at = next, !.body = body])
    /\ UNCHANGED <<kind, row, r2, acked, raced>>

(* Mutant: the version is not compared. *)
CheckNothing(w) ==
    /\ At(w, "check")
    /\ \/ ~Present /\ End(w)
       \/ Present /\ Become(w, [call[w] EXCEPT !.at = "get"])
    /\ UNCHANGED <<kind, row, r2, cache, acked, raced, faults>>

(* The optimistic lock: another version means to start again, a few times   *)
(* for an append, or to leave it to the next cycle for a compaction.        *)
Check(w) ==
    /\ At(w, "check")
    /\ \/ ~Present /\ End(w)
       \/ Present /\ row = call[w].version /\ Become(w, [call[w] EXCEPT !.at = "get"])
       \/ /\ Present /\ row # call[w].version
          /\ IF call[w].op = "append" /\ call[w].tries < Attempts
             THEN Become(w, [call[w] EXCEPT !.at = "look", !.version = Null,
                                            !.body = Empty, !.tries = @ + 1])
             ELSE End(w)
    /\ UNCHANGED <<kind, row, r2, cache, acked, raced, faults>>

(* update_skill_body reads the row again and adds one to its version, *)
Get(w) ==
    /\ At(w, "get")
    /\ \/ ~Present /\ End(w)
       \/ /\ Present /\ row < MaxVersion
          /\ Become(w, [call[w] EXCEPT !.at = "put", !.version = row + 1])
    /\ UNCHANGED <<kind, row, r2, cache, acked, raced, faults>>

(* uploads the text over the old one and caches it under the new version,   *)
(* before anything is committed.  Facts that the editor removed are no      *)
(* longer owed.                                                             *)
Put(w) ==
    /\ At(w, "put")
    /\ \/ /\ r2' = call[w].body
          /\ acked' = IF call[w].op = "edit" THEN acked \cap All(call[w].body) ELSE acked
          /\ raced' = (raced \/ Overwrites(w))
          /\ cache' = [cache EXCEPT ![call[w].version] = call[w].body]
          /\ Become(w, [call[w] EXCEPT !.at = "commit"])
          /\ UNCHANGED faults
       \/ Fault /\ End(w) /\ UNCHANGED <<r2, cache, acked, raced>>
    /\ UNCHANGED <<kind, row>>

(* and commits.  Only then is the fact reported.  *)
Commit(w) ==
    /\ At(w, "commit")
    /\ \/ /\ Present
          /\ row' = call[w].version
          /\ acked' = acked \cup ({call[w].fact} \ {Null})
          /\ call' = [other \in Writers |->
                        IF other = w THEN Null
                        ELSE IF Exposed(other) THEN [call[other] EXCEPT !.late = TRUE]
                        ELSE call[other]]
          /\ UNCHANGED faults
       \/ ~Present /\ End(w) /\ UNCHANGED <<row, acked, faults>>
       \/ Fault /\ End(w) /\ UNCHANGED <<row, acked>>
    /\ UNCHANGED <<kind, r2, cache, raced>>

(* delete_skill, when the app is disconnected or by the admin; R2's failure *)
(* to delete is swallowed.  Another skill of the same name has another id,  *)
(* hence another object.                                                    *)
Delete ==
    /\ Present
    /\ row' = Null
    /\ cache' = [v \in Versions |-> Null]
    /\ r2' \in {Null, r2}
    /\ acked' = {}
    /\ UNCHANGED <<kind, call, raced, faults>>

(* Other bodies push these out of the cache; a restart also ends the calls. *)
Evict ==
    /\ cache' = [v \in Versions |-> Null]
    /\ UNCHANGED <<kind, row, r2, call, acked, raced, faults>>

Restart ==
    /\ Fault
    /\ cache' = [v \in Versions |-> Null]
    /\ call' = [w \in Writers |-> Null]
    /\ UNCHANGED <<kind, row, r2, acked, raced>>

Init ==
    /\ kind \in {"memory", "catalog"}
    /\ row = 0 /\ r2 = Null
    /\ cache = [v \in Versions |-> Null]
    /\ call = [w \in Writers |-> Null]
    /\ acked = {} /\ raced = FALSE /\ faults = 0

Next ==
    \/ SeedWorkspace \/ SeedUser \/ SeedChannel \/ Upsert
    \/ ShowMemory \/ ShowInstalled \/ LoadSkill
    \/ Delete \/ Evict \/ Restart
    \/ \E w \in Writers :
         \/ Remember(w) \/ ScanChannel(w) \/ ScanLists(w) \/ ScanHistory(w) \/ PostPass(w)
         \/ Compaction(w) \/ Improve(w) \/ Refresh(w) \/ Edit(w)
         \/ Look(w) \/ Load(w) \/ Check(w) \/ Get(w) \/ Put(w) \/ Commit(w)

Spec == Init /\ [][Next]_vars
-----------------------------------------------------------------------------
(* The row, the object, the cache and the calls have the shapes of the code *)
(* and no text that fits is larger than the cap.                            *)
TypeOK ==
    /\ row \in Versions \cup {0, Null}
    /\ r2 \in Body \cup {Null}
    /\ cache \in [Versions -> Body \cup {Null}]
    /\ \A w \in Writers : call[w] # Null => call[w] \in Call
    /\ acked \subseteq Facts
    /\ r2 # Null => Fits(r2)

(* What was reported as written ("Anotado") is in the text the next turn    *)
(* reads, from the cache or from R2, through compactions, refreshes, failed *)
(* uploads and commits and restarts, as long as no writer commits over a    *)
(* text it has not seen (append.py, compaction.py, post_pass.py).  *)
Remembered ==
    Present /\ ~raced => acked \subseteq All(Download(row))

(* "'Usage notes' is preserved across refreshes (admin + auto-improve)"     *)
(* (catalog_skills.py:374): the upload of a refresh keeps the notes of the  *)
(* object it replaces.                                                      *)
RefreshPreserves ==
    [][\A w \in Writers :
          At(w, "put") /\ call[w].op = "refresh" /\ Null \notin {r2, r2'}
             /\ call'[w] # Null => r2.log \subseteq r2'.log]_vars
=============================================================================
