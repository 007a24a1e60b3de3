-------------------------- MODULE IntegrationActions --------------------------
(***************************************************************************)
(* Running an action of one connected app: run_action and find_in_action   *)
(* of app/integrations/gateway.py, the guardrail that checks parameters    *)
(* against the action's schema, and the two providers.                     *)
(*                                                                          *)
(* Every tool call is a slot of `call`.  Between its steps other calls run, *)
(* members connect and disconnect accounts, accounts expire and the schema  *)
(* of the action changes.  The row of the app is read three times, by three *)
(* queries: for the account, for the provider, for credentials of its own.  *)
(***************************************************************************)
EXTENDS Naturals, FiniteSets

CONSTANTS
    Members,      \* members of the workspace with a row of their own
    System,       \* the caller of a scheduled run, who is no member
    Sweepers,     \* bound: the callers that use find_in_action
    Accounts,     \* accounts at the providers
    Null,
    MaxWindows,   \* bound: _FIND_MAX_ITERATIONS
    MaxSchema,    \* bound: versions of the action's schema
    Lifetime,     \* _SPEC_TTL_S, in ticks of the clock
    MaxChanges    \* bound: changes of rows, accounts and time

ASSUME BoundsAssumption ==
    /\ {MaxWindows, MaxSchema, Lifetime, MaxChanges} \subseteq Nat
    /\ MaxWindows > 0 /\ MaxSchema > 0 /\ System \notin Members

(* The rows of the team and the settings are no member's. *)
ASSUME PlacesAssumption == Members \cap {"team", "labelled", "settings"} = {}

(* A lock that nobody holds is held by no caller. *)
ASSUME NullAssumption == Null \notin Members \cup {System}

VARIABLES
    rows,     \* integration_connection of the app, per place
    account,  \* the accounts at the providers
    schema,   \* version of the action's schema at the provider
    now,      \* the clock
    until,    \* history: when each version of the schema was replaced
    cache,    \* _spec_cache of the process
    lock,     \* holder of _spec_lock
    call,     \* tool calls, per caller
    changes

vars == <<rows, account, schema, now, until, cache, lock, call, changes>>
-----------------------------------------------------------------------------
Callers == Members \cup {System}

Providers == {"composio", "pipedream"}

(* The team's row, a labelled row of the team, and each member's own. *)
Places == {"team", "labelled"} \cup Members

Row == [connected : BOOLEAN, account : Accounts \cup {Null}, provider : Providers,
        creds : BOOLEAN]

Found == {p \in Places : rows[p] # Null}

Connected == {p \in Found : rows[p].connected}

(* A query for the one row of the app raises. *)
Several == \E p, q \in Found : p # q

(* _connection: the caller's own, else the team's unlabelled row, else a   *)
(* labelled one.                                                            *)
Connection(caller) ==
    IF caller \in Connected THEN caller
    ELSE IF "team" \in Connected THEN "team"
    ELSE IF "labelled" \in Connected THEN "labelled"
    ELSE Null

(* The kinds of IntegrationError a response is turned into, by _wrap of    *)
(* each provider.                                                           *)
Statuses == {0, 200, 401, 403, 404, 422, 429, 500}

Wrap(provider, status) ==
    CASE status = 0   -> "network"
      [] status = 401 -> "auth_failed"
      [] status = 403 -> "permission_denied"
      [] status = 404 -> "not_found"
      [] status = 422 -> "validation"
      [] status = 429 -> "rate_limited"
      [] OTHER        -> "provider_error"

(* What _classify_action_error makes of a 200 whose body reports a failure. *)
BodyKinds == {"auth_failed", "provider_error"}

(* A request to the app itself, without the provider. *)
DirectKind(status) == IF status \in {401, 403} THEN "auth_failed" ELSE "provider_error"

(* What to_user_message asks the user to do about a kind of error. *)
Advice(kind) ==
    CASE kind \in {"auth_expired", "account_not_found", "auth_failed",
                   "auth_missing_fields"} -> "reconnect"
      [] kind = "permission_denied" -> "permissions"
      [] kind \in {"not_found", "validation"} -> "parameters"
      [] OTHER -> "retry"

Advices == {"reconnect", "permissions", "parameters", "retry"}

Idle == [at |-> "idle", row |-> Null, provider |-> Null, asked |-> Null, spec |-> Null,
         creds |-> Null, window |-> 0, needle |-> {}, failed |-> {}, answer |-> Null]

Steps == {"idle", "connection", "provider", "validate", "spec", "waiting", "locked", "send",
          "direct", "attach", "done"}

Go(c, at) == call' = [call EXCEPT ![c].at = at]

(* run_action returns: the answer of a single call, a window of a sweep.   *)
(* "plain" is a result in which no list is found, so that the filter does   *)
(* not apply.                                                               *)
Answers == Advices \cup {"ok", "plain", "hit", "none", "not connected", "invalid", "raised"}

Done(answer) == [Idle EXCEPT !.at = "done", !.answer = answer]

(* Mutant: the sweep goes on two windows further. *)
ReturnSkipping(c, answer) ==
    LET k == call[c]
        found == answer = "ok" /\ k.window \in k.needle
        swept == [Idle EXCEPT !.window = k.window, !.needle = k.needle,
                     !.failed = IF answer = "ok" THEN k.failed ELSE k.failed \cup {k.window}]
    IN
    call' = [call EXCEPT ![c] =
        IF k.window = 0 \/ answer = "raised" THEN Done(answer)
        ELSE IF found THEN [swept EXCEPT !.at = "done", !.answer = "hit"]
        ELSE IF k.window + 1 >= MaxWindows THEN [swept EXCEPT !.at = "done", !.answer = "none"]
        ELSE [swept EXCEPT !.at = "connection", !.window = @ + 2]]

(* find_in_action reads the matches of each window off its text; a text    *)
(* without them, be it an error, counts as a window without a match.  The next window    *)
(* ends where this one began.                                               *)
Return(c, answer) ==
    LET k == call[c]
        found == answer = "ok" /\ k.window \in k.needle
        swept == [Idle EXCEPT !.window = k.window, !.needle = k.needle,
                     !.failed = IF answer = "ok" THEN k.failed ELSE k.failed \cup {k.window}]
    IN
    call' = [call EXCEPT ![c] =
        IF k.window = 0 \/ answer = "raised" THEN Done(answer)
        ELSE IF found THEN [swept EXCEPT !.at = "done", !.answer = "hit"]
        ELSE IF k.window = MaxWindows THEN [swept EXCEPT !.at = "done", !.answer = "none"]
        ELSE [swept EXCEPT !.at = "connection", !.window = @ + 1]]
-----------------------------------------------------------------------------
Init ==
    /\ rows \in [Places -> {Null} \cup
          {r \in Row : r.connected /\ r.provider = "composio" /\ (r.account = Null => r.creds)}]
    /\ Cardinality(Found) <= 2
    /\ \A p, q \in Found : p # q => rows[p].account # rows[q].account
    /\ account = [a \in Accounts |->
          [at |-> "composio",
           state |-> IF \E p \in Found : rows[p].account = a THEN "active" ELSE "new"]]
    /\ schema = 1 /\ now = 0
    /\ until = [v \in 1..MaxSchema |-> Null]
    /\ cache = Null /\ lock = Null
    /\ call = [c \in Callers |-> Idle]
    /\ changes = 0

(* The model calls run_action, or find_in_action: the windows that hold the *)
(* needle are those of needle.                                              *)
Begin(c) ==
    /\ call[c].at = "idle"
    /\ \/ Go(c, "connection")
       \/ /\ c \in Sweepers
          /\ \E needle \in SUBSET (1..MaxWindows) :
                call' = [call EXCEPT ![c].at = "connection", ![c].window = 1,
                                     ![c].needle = needle]
    /\ UNCHANGED <<rows, account, schema, now, until, cache, lock, changes>>

(* _connection; a row without an account is answered at once. *)
PickConnection(c) ==
    LET place == Connection(c) IN
    /\ call[c].at = "connection"
    /\ IF place = Null THEN Return(c, "not connected")
       ELSE IF rows[place].account = Null THEN Return(c, "reconnect")
       ELSE call' = [call EXCEPT ![c].at = "provider",
                                 ![c].row = [place |-> place,
                                             account |-> rows[place].account]]
    /\ UNCHANGED <<rows, account, schema, now, until, cache, lock, changes>>

(* provider_for_app reads the rows again: it raises when there are several, *)
(* and decides afresh when there is none.                                   *)
PickProvider(c) ==
    /\ call[c].at = "provider"
    /\ \/ /\ Several
          /\ Return(c, "raised")
       \/ /\ ~Several
          /\ \E p \in Found :
                call' = [call EXCEPT ![c].at = "validate",
                                     ![c].provider = rows[p].provider]
       \/ /\ Found = {}
          /\ \E p \in Providers :
                call' = [call EXCEPT ![c].at = "validate", ![c].provider = p]
    /\ UNCHANGED <<rows, account, schema, now, until, cache, lock, changes>>

(* An account the provider has and can use. *)
Usable(provider, a) == account[a] = [at |-> provider, state |-> "active"]

(* What validate_connection may find wrong with one it cannot. *)
Complaints(provider) ==
    {"account_not_found", "auth_expired"} \cup
    (IF provider = "pipedream" THEN {"auth_missing_fields"} ELSE {})

(* An account with a defect is answered, a check that fails is passed; what *)
(* is no answer of Composio's, a timeout for one, escapes.                  *)
Validate(c) ==
    LET usable == Usable(call[c].provider, call[c].row.account) IN
    /\ call[c].at = "validate"
    /\ \/ ~usable /\ \E answer \in {Advice(complaint) : complaint \in Complaints(call[c].provider)} :
             Return(c, answer)
       \/ call[c].provider = "composio" /\ Return(c, "raised")
       \/ Go(c, "spec")
    /\ UNCHANGED <<rows, account, schema, now, until, cache, lock, changes>>

(* Mutant: what is cached is never too old. *)
EverFresh(asked) == cache # Null

(* The age of what is cached, by the clock as the caller read it. *)
Fresh(asked) == cache # Null /\ asked - cache.at < Lifetime

(* validate_params: names that are missing or unknown and types that differ *)
(* are answered; the parameters are the model's own.  Without a schema      *)
(* nothing is checked.                                                      *)
Check(c, version) ==
    \/ call' = [call EXCEPT ![c].at = "send", ![c].asked = Null, ![c].spec = version]
    \/ version # Null /\ Return(c, "invalid")

(* get_action_props reads the clock once, looks at the cache and waits for  *)
(* the lock.                                                                *)
ReadSpec(c) ==
    /\ call[c].at = "spec"
    /\ \/ Fresh(now) /\ Check(c, cache.version)
       \/ ~Fresh(now) /\ call' = [call EXCEPT ![c].at = "waiting", ![c].asked = now]
    /\ UNCHANGED <<rows, account, schema, now, until, cache, lock, changes>>

(* One lock serves all actions: those who wait here may wait for a fetch of *)
(* another action too, which shows as a longer wait.  It is held while the  *)
(* schema is fetched, and let go at once when there is one in the cache by  *)
(* now, of an age by the clock that was read before the wait.               *)
TakeLock(c) ==
    /\ call[c].at = "waiting" /\ lock = Null
    /\ \/ Fresh(call[c].asked) /\ Check(c, cache.version) /\ UNCHANGED lock
       \/ ~Fresh(call[c].asked) /\ lock' = c /\ Go(c, "locked")
    /\ UNCHANGED <<rows, account, schema, now, until, cache, changes>>

(* The schema is kept under the time at which the caller began to wait; a   *)
(* fetch that fails keeps nothing.                                          *)
FetchSpec(c) ==
    /\ call[c].at = "locked"
    /\ lock' = Null
    /\ \/ Check(c, schema) /\ cache' = [version |-> schema, at |-> call[c].asked]
       \/ Check(c, Null) /\ UNCHANGED cache
    /\ UNCHANGED <<rows, account, schema, now, until, changes>>

(* How the provider may answer: an account it does not have is refused, and *)
(* anything may fail.                                                       *)
Outcomes(c) ==
    IF Usable(call[c].provider, call[c].row.account) THEN Statuses ELSE Statuses \ {200}

(* What run_action makes of a result: a list is filtered and cut. *)
Rendered == {"ok", "plain"}

(* execute_tool of Composio; its 200 may still report a failure, and what is *)
(* no answer at all escapes.                                                *)
SendComposio(c) ==
    /\ call[c].at = "send" /\ call[c].provider = "composio"
    /\ \E answer \in {Advice(Wrap("composio", status)) : status \in Outcomes(c) \ {200}}
                 \cup {Advice(kind) : kind \in BodyKinds} \cup {"raised"}
                 \cup (IF 200 \in Outcomes(c) THEN Rendered ELSE {}) :
          Return(c, answer)
    /\ UNCHANGED <<rows, account, schema, now, until, cache, lock, changes>>

(* run of Pipedream, under the name the component has for the account. *)
SendPipedream(c) ==
    /\ call[c].at = "send" /\ call[c].provider = "pipedream"
    /\ \E answer \in {Advice(Wrap("pipedream", status)) : status \in Outcomes(c) \ {200}}
                 \cup (IF 200 \in Outcomes(c) THEN Rendered ELSE {}) :
          Return(c, answer)
    /\ UNCHANGED <<rows, account, schema, now, until, cache, lock, changes>>

(* Mutant: the first row that has them will do. *)
ReadFirstCredentials(c) ==
    /\ call[c].at = "send" /\ call[c].provider = "composio"
    /\ \E p \in Found :
          /\ rows[p].creds
          /\ call' = [call EXCEPT ![c].at = "direct", ![c].creds = p]
    /\ UNCHANGED <<rows, account, schema, now, until, cache, lock, changes>>

(* Composio's wrapper is bypassed for the actions it breaks, if there are   *)
(* credentials of the app's own: those of its row, whosever it is and in    *)
(* whatever state, or else those of the settings.  The query raises when    *)
(* the app has several rows.  Without any, Composio is called.              *)
ReadCredentials(c) ==
    /\ call[c].at = "send" /\ call[c].provider = "composio"
    /\ \/ Several /\ Return(c, "raised")
       \/ /\ ~Several
          /\ \E held \in {p \in Found : rows[p].creds}
                     \cup (IF \E p \in Found : rows[p].creds THEN {} ELSE {"settings"}) :
                call' = [call EXCEPT ![c].at = "direct", ![c].creds = held]
    /\ UNCHANGED <<rows, account, schema, now, until, cache, lock, changes>>

(* The app itself is called, whatever the state of the account. *)
SendDirect(c) ==
    /\ call[c].at = "direct"
    /\ \/ Go(c, "attach")
       \/ \E answer \in {Advice(DirectKind(status)) : status \in Statuses \ {200}}
                    \cup {Advice("validation")} \cup Rendered :
             Return(c, answer)
    /\ UNCHANGED <<rows, account, schema, now, until, cache, lock, changes>>

(* The second request of a dashboard: the cards.  The dashboard stays if it *)
(* fails.                                                                   *)
Attach(c) ==
    /\ call[c].at = "attach"
    /\ \E answer \in {Advice(DirectKind(status)) : status \in Statuses \ {200}} \cup {"plain"} :
          Return(c, answer)
    /\ UNCHANGED <<rows, account, schema, now, until, cache, lock, changes>>

(* The model reads the answer and may call again. *)
End(c) ==
    /\ call[c].at = "done"
    /\ call' = [call EXCEPT ![c] = Idle]
    /\ UNCHANGED <<rows, account, schema, now, until, cache, lock, changes>>
-----------------------------------------------------------------------------
(* What else happens: time, the providers, and the connect flow             *)

Changed == changes < MaxChanges /\ changes' = changes + 1

Tick ==
    /\ Changed
    /\ now' = now + 1
    /\ UNCHANGED <<rows, account, schema, until, cache, lock, call>>

NewSchema ==
    /\ Changed
    /\ schema < MaxSchema
    /\ schema' = schema + 1
    /\ until' = [until EXCEPT ![schema] = now]
    /\ UNCHANGED <<rows, account, now, cache, lock, call>>

AccountChanges(a) ==
    /\ Changed
    /\ account[a].state = "active"
    /\ account' = [account EXCEPT ![a].state = "broken"]
    /\ UNCHANGED <<rows, schema, now, until, cache, lock, call>>

(* A row is disconnected, with the credentials it has, or deleted. *)
Disconnects(p) ==
    /\ Changed
    /\ p \in Connected
    /\ rows' \in {[rows EXCEPT ![p].connected = FALSE], [rows EXCEPT ![p] = Null]}
    /\ UNCHANGED <<account, schema, now, until, cache, lock, call>>

(* Accounts are alike: the first that no provider knows yet. *)
NextNew ==
    LET new == {a \in Accounts : account[a].state = "new"} IN
    IF new = {} THEN {} ELSE {CHOOSE a \in new : TRUE}

(* set_direct_credentials: the app counts as connected from then on, with  *)
(* no account or with the one the row had.                                  *)
SetCredentials ==
    /\ Changed
    /\ \/ /\ Found = {}
          /\ rows' = [rows EXCEPT !["team"] =
                        [connected |-> TRUE, account |-> Null, provider |-> "composio",
                         creds |-> TRUE]]
       \/ /\ Found # {} /\ ~Several
          /\ rows' = [p \in Places |->
                IF p \in Found THEN [rows[p] EXCEPT !.connected = TRUE, !.creds = TRUE]
                ELSE Null]
    /\ UNCHANGED <<account, schema, now, until, cache, lock, call>>

(* A row is connected, with an account new at a provider; one that is kept  *)
(* keeps its credentials.                                                   *)
Connects(p) ==
    /\ Changed
    /\ p \notin Connected
    /\ \E a \in NextNew, at \in Providers :
          /\ account' = [account EXCEPT ![a] = [at |-> at, state |-> "active"]]
          /\ rows' = [rows EXCEPT ![p] =
                        [connected |-> TRUE, account |-> a, provider |-> at,
                         creds |-> p \in Found /\ rows[p].creds]]
    /\ UNCHANGED <<schema, now, until, cache, lock, call>>
-----------------------------------------------------------------------------
CallStep(c) ==
    \/ PickConnection(c) \/ PickProvider(c) \/ Validate(c) \/ ReadSpec(c)
    \/ TakeLock(c) \/ FetchSpec(c) \/ SendComposio(c) \/ SendPipedream(c)
    \/ ReadCredentials(c) \/ SendDirect(c) \/ Attach(c)

Next ==
    \/ \E c \in Callers : Begin(c) \/ CallStep(c) \/ End(c)
    \/ Tick \/ NewSchema \/ SetCredentials
    \/ \E a \in Accounts : AccountChanges(a)
    \/ \E p \in Places : Disconnects(p) \/ Connects(p)

Spec == Init /\ [][Next]_vars
-----------------------------------------------------------------------------
Version == 1..MaxSchema

Called == [at : Steps,
           row : [place : Places, account : Accounts] \cup {Null},
           provider : Providers \cup {Null}, asked : (0..MaxChanges) \cup {Null},
           spec : Version \cup {Null}, creds : Places \cup {"settings", Null},
           window : 0..MaxWindows, needle : SUBSET (1..MaxWindows),
           failed : SUBSET (1..MaxWindows),
           answer : Answers \cup {Null}]

(* Types; the lock is held by the one call that fetches. *)
TypeOK ==
    /\ rows \in [Places -> Row \cup {Null}]
    /\ account \in [Accounts -> [at : Providers,
            state : {"new", "active", "broken"}]]
    /\ schema \in Version /\ now \in 0..MaxChanges
    /\ until \in [Version -> (0..MaxChanges) \cup {Null}]
    /\ cache \in [version : Version, at : 0..MaxChanges] \cup {Null}
    /\ call \in [Callers -> Called]
    /\ \A c \in Callers : call[c].at = "locked" <=> lock = c
    /\ changes \in 0..MaxChanges

(* The credentials are looked up without regard to whose row holds them.    *)
(* Even so, as a call that has found a row of its caller or of the team     *)
(* goes on with those of another member, the row it had found is gone.      *)
OthersCredentials ==
    [][\A c \in Callers :
          /\ call[c].creds = Null
          /\ call'[c].creds \in Members \ {c}
          => call[c].row.place \notin Found]_vars

(* A sweep that reports a hit found it in the newest window that has one,   *)
(* and one that reports none missed none, unless calls of windows failed.   *)
SweepIsTrue ==
    \A c \in Callers :
        LET k == call[c] IN
        k.at = "done" /\ k.window > 0 =>
            /\ k.answer = "hit" => k.window \in k.needle \ k.failed
            /\ k.answer \in {"hit", "none"} =>
                  k.needle \cap 1..(k.window - 1) \subseteq k.failed
            /\ k.answer = "none" => k.needle \subseteq k.failed

(* By the time at which its caller asked, before any wait for the lock, the *)
(* schema that parameters are checked against was the action's still, or    *)
(* had been less than a lifetime of the cache ago.                          *)
SchemaLags ==
    [][\A c \in Callers :
          LET v == call'[c].spec
              asked == IF call[c].at = "spec" THEN now ELSE call[c].asked
          IN
          call[c].spec = Null /\ v # Null =>
              until[v] = Null \/ asked - until[v] < Lifetime]_vars
=============================================================================
