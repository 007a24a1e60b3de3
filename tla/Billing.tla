------------------------------ MODULE Billing ------------------------------
(***************************************************************************)
(* Credits of one workspace: the plan row, the balance and its ledger, the *)
(* Stripe webhook handlers, the annual reset loop of each replica, and the *)
(* preflight check and debit of agent runs (app/billing, agent/runner.py). *)
(*                                                                         *)
(* The endpoint acknowledges an event and handles it in a detached task,   *)
(* so handlers overlap, run in any order, and run twice for an event that  *)
(* Stripe repeats.  A handler reads the plan row and commits later; it     *)
(* locks only the balance row, and its UPDATE of the plan row holds the    *)
(* columns that differ from what it read.                                  *)
(*                                                                         *)
(* Prices are abstracted to the allotment of each plan, the credits a      *)
(* month of it grants; a run costs Cost credits.                           *)
(***************************************************************************)
EXTENDS Integers, Sequences, FiniteSets

CONSTANTS
    Runs,         \* agent runs
    Cost,         \* credits a run debits
    Replicas,     \* API processes, each with its own reset loop
    Paid,         \* plans sold through Stripe
    Allotment,    \* credits_per_month of each plan
    Migrated,     \* whether the workspace was there when migration 0031 ran
    Null,
    MaxEvents,    \* bound: events Stripe emits
    MaxCopies,    \* bound: deliveries of one event
    MaxMonths,    \* bound: months that pass
    MaxFaults     \* bound: handlers, ticks and statements that die

Bypass == {"unlimited"}     \* BYPASS_CREDIT_CHECK
Plans == Paid \cup {"free"} \cup Bypass
Named == Paid \cup {"free"} \* what _meta_plan(metadata) or PLAN_FREE returns
Cycles == {"monthly", "annual"}

ASSUME PlansAssumption ==
    /\ {"free", "unlimited"} \cap Paid = {}
    /\ Allotment \in [Plans -> Nat]
    /\ Migrated \in BOOLEAN
ASSUME CostAssumption == Cost \in Nat \ {0}
ASSUME NullAssumption == Null \notin Int \cup Plans \cup Cycles
ASSUME BoundsAssumption == {MaxEvents, MaxCopies, MaxMonths, MaxFaults} \subseteq Nat

VARIABLES
    plan,     \* the workspace_billing_plan row
    balance,  \* credit_balance.balance_credits
    resetAt,  \* credit_balance.last_reset_at, in months
    ledger,   \* the credit_ledger table, in the order of the commits
    stripe,   \* the subscription: the plan and cycle its metadata names
    event,    \* events emitted so far
    handler,  \* per delivery of an event, the detached task handling it
    tick,     \* per replica, the reset its loop has read as due
    run,      \* where each agent run is
    month, faults

vars == <<plan, balance, resetAt, ledger, stripe, event, handler, tick, run,
          month, faults>>
-----------------------------------------------------------------------------
Deliveries == (1..MaxEvents) \X (1..MaxCopies)

EventTypes == {"checkout", "created", "updated", "deleted", "invoice"}

PlanRow == [plan : Plans, cycle : Cycles \cup {Null}]

Entry == [kind : {"monthly_reset", "debit_agent_run"},
          ref : Nat \cup Runs \cup {Null}, delta : Int, after : Int]

Event == [type : EventTypes, plan : Plans, cycle : Cycles]

Handler == [phase : {"new", "read", "over"}, seen : PlanRow \cup {Null}]

(* Null is no row of the plan table and no handler's task. *)
ASSUME RecordsAssumption == Null \notin PlanRow \cup Handler

RunPlaces == {"idle", "blocked", "running", "metered", "unmetered", "over"}

Last(s) == s[Len(s)]

Fault == /\ faults < MaxFaults
         /\ faults' = faults + 1

Credits == IF balance = Null THEN 0 ELSE balance

(* One locked read-modify-write of the balance and its audit row. *)
Append1(kind, ref, new) ==
    /\ balance' = new
    /\ ledger' = Append(ledger, [kind |-> kind, ref |-> ref,
                                 delta |-> new - Credits, after |-> new])

(* Mutant: the audit row holds the grant, not the change of the balance. *)
ResetRecordingGrant(ref, grant) ==
    /\ balance' = grant
    /\ ledger' = Append(ledger, [kind |-> "monthly_reset", ref |-> ref,
                                 delta |-> grant, after |-> grant])
    /\ resetAt' = month

(* credit_monthly_reset: wipe and grant. *)
MonthlyReset(ref, grant) ==
    /\ Append1("monthly_reset", ref, grant)
    /\ resetAt' = month
-----------------------------------------------------------------------------
(* Migration 0031 made every workspace "unlimited" with a zero balance.  A  *)
(* workspace installed later has no rows: nothing calls ensure_bootstrapped.*)
Init ==
    /\ IF Migrated THEN plan = [plan |-> "unlimited", cycle |-> Null] /\ balance = 0
                   ELSE plan = Null /\ balance = Null
    /\ resetAt = Null
    /\ ledger = <<>>
    /\ stripe = Null
    /\ event = <<>>
    /\ handler = [d \in Deliveries |-> Null]
    /\ tick = [r \in Replicas |-> Null]
    /\ run = [k \in Runs |-> "idle"]
    /\ month = 0
    /\ faults = 0
-----------------------------------------------------------------------------
(* Stripe: each change of the subscription emits its events.  Events carry  *)
(* the metadata of the subscription; a plan that it does not name reads as  *)
(* "free", and a cycle as "monthly".                                        *)
Emit(types, p, c) ==
    /\ Len(event) + Len(types) <= MaxEvents
    /\ event' = event \o [i \in 1..Len(types) |->
                             [type |-> types[i], plan |-> p, cycle |-> c]]
    /\ UNCHANGED <<plan, balance, resetAt, ledger, handler, tick, run, month,
                   faults>>

Subscribe ==
    /\ stripe = Null
    /\ \E p \in Paid, c \in Cycles :
          /\ stripe' = [plan |-> p, cycle |-> c]
          /\ Emit(<<"checkout", "created", "invoice">>, p, c)

(* A subscription made in Stripe's dashboard has no metadata of this app. *)
SubscribeOutside ==
    /\ stripe = Null
    /\ stripe' = [plan |-> "free", cycle |-> "monthly"]
    /\ Emit(<<"created", "invoice">>, "free", "monthly")

(* The subscription changes; its metadata may name another plan or none. *)
ChangePlan ==
    /\ stripe # Null
    /\ \E p \in Named \ {stripe.plan} :
          /\ stripe' = [stripe EXCEPT !.plan = p]
          /\ Emit(<<"updated">>, p, stripe.cycle)

Renew ==
    /\ stripe # Null
    /\ Emit(<<"invoice">>, stripe.plan, stripe.cycle)
    /\ UNCHANGED stripe

Cancel ==
    /\ stripe # Null
    /\ stripe' = Null
    /\ Emit(<<"deleted">>, stripe.plan, stripe.cycle)

(* stripe_webhook: 200 at once, the handler detached.  Stripe may repeat an *)
(* event and does not order its deliveries.                                 *)
Deliver(d) ==
    /\ d[1] <= Len(event)
    /\ handler[d] = Null
    /\ \A c \in 1..(d[2] - 1) : handler[<<d[1], c>>] # Null
    /\ handler' = [handler EXCEPT ![d] = [phase |-> "new", seen |-> Null]]
    /\ UNCHANGED <<plan, balance, resetAt, ledger, stripe, event, tick, run,
                   month, faults>>
-----------------------------------------------------------------------------
In(d, phase) == handler[d] # Null /\ handler[d].phase = phase

Type(d) == event[d[1]].type

(* The dedup of on_invoice_paid: the invoice id in a ledger note. *)
Granted(i) == \E n \in 1..Len(ledger) :
                 ledger[n].kind = "monthly_reset" /\ ledger[n].ref = i

(* What a handler reads before it writes, and its early returns. *)
HandlerRead(d) ==
    /\ In(d, "new")
    /\ LET return == \/ Type(d) = "deleted" /\ plan = Null
                     \/ /\ Type(d) = "invoice"
                        /\ plan = Null \/ plan.plan = "free" \/ Granted(d[1])
       IN  handler' = [handler EXCEPT ![d] =
              [phase |-> IF return THEN "over" ELSE "read", seen |-> plan]]
    /\ UNCHANGED <<plan, balance, resetAt, ledger, stripe, event, tick, run,
                   month, faults>>

Over(d) == handler' = [handler EXCEPT ![d] = [phase |-> "over", seen |-> Null]]

(* _apply_plan, as the UPDATE or INSERT it becomes.  *)
Dirty(seen, want, current) == IF want # seen THEN want ELSE current

Applied(seen, p, c) ==
    IF seen = Null THEN [plan |-> p, cycle |-> c]
    ELSE [plan |-> Dirty(seen.plan, p, plan.plan),
          cycle |-> Dirty(seen.cycle, c, plan.cycle)]

PlanChanged(seen, p) == seen = Null \/ seen.plan # p

(* Mutant: only the checkout handler grants, and the backup and plan-change *)
(* handlers only set the plan.                                              *)
ApplyEventGrantingAtCheckout(d) ==
    LET e == event[d[1]]
        seen == handler[d].seen
    IN
    /\ In(d, "read")
    /\ Type(d) \in {"checkout", "created", "updated"}
    /\ seen # Null \/ plan = Null
    /\ plan' = Applied(seen, e.plan, e.cycle)
    /\ IF PlanChanged(seen, e.plan) /\ Type(d) = "checkout"
       THEN MonthlyReset(Null, Allotment[e.plan])
       ELSE UNCHANGED <<balance, ledger, resetAt>>
    /\ Over(d)
    /\ UNCHANGED <<stripe, event, tick, run, month, faults>>

(* on_checkout_completed, on_subscription_created, on_subscription_updated: *)
(* the plan, and its credits in the same transaction when it changed.  An   *)
(* event that names no plan demotes to free and grants nothing.             *)
ApplyEvent(d) ==
    LET e == event[d[1]]
        seen == handler[d].seen
    IN
    /\ In(d, "read")
    /\ Type(d) \in {"checkout", "created", "updated"}
    /\ seen # Null \/ plan = Null
    /\ plan' = Applied(seen, e.plan, e.cycle)
    /\ IF PlanChanged(seen, e.plan) /\ e.plan # "free"
       THEN MonthlyReset(Null, Allotment[e.plan])
       ELSE UNCHANGED <<balance, ledger, resetAt>>
    /\ Over(d)
    /\ UNCHANGED <<stripe, event, tick, run, month, faults>>

(* Two handlers insert the plan row: the second violates its primary key. *)
ApplyRaises(d) ==
    /\ In(d, "read")
    /\ Type(d) \in {"checkout", "created", "updated"}
    /\ handler[d].seen = Null /\ plan # Null
    /\ Over(d)
    /\ UNCHANGED <<plan, balance, resetAt, ledger, stripe, event, tick, run,
                   month, faults>>

(* on_subscription_deleted: demote to free, keep the balance. *)
ApplyDeleted(d) ==
    /\ In(d, "read")
    /\ Type(d) = "deleted"
    /\ plan' = Applied(handler[d].seen, "free", Null)
    /\ Over(d)
    /\ UNCHANGED <<balance, resetAt, ledger, stripe, event, tick, run, month,
                   faults>>

(* on_invoice_paid: a reset to the allotment of the plan that was read. *)
ApplyInvoice(d) ==
    /\ In(d, "read")
    /\ Type(d) = "invoice"
    /\ MonthlyReset(d[1], Allotment[handler[d].seen.plan])
    /\ Over(d)
    /\ UNCHANGED <<plan, stripe, event, tick, run, month, faults>>

(* The process dies or a statement fails; the event was acknowledged. *)
HandlerDies(d) ==
    /\ In(d, "new") \/ In(d, "read")
    /\ Fault
    /\ Over(d)
    /\ UNCHANGED <<plan, balance, resetAt, ledger, stripe, event, tick, run,
                   month>>
-----------------------------------------------------------------------------
(* RESET_INTERVAL passes. *)
Month ==
    /\ month < MaxMonths
    /\ month' = month + 1
    /\ UNCHANGED <<plan, balance, resetAt, ledger, stripe, event, handler,
                   tick, run, faults>>

(* The query of _due_workspaces. *)
AnnualDue ==
    /\ plan # Null /\ balance # Null
    /\ plan.plan \in Paid
    /\ plan.cycle = "annual"
    /\ resetAt # Null => resetAt < month

(* Mutant: only a balance that was never reset is due. *)
TickReadNeverReset(r) ==
    /\ tick[r] = Null
    /\ AnnualDue
    /\ resetAt = Null
    /\ tick' = [tick EXCEPT ![r] = Allotment[plan.plan]]
    /\ UNCHANGED <<plan, balance, resetAt, ledger, stripe, event, handler, run,
                   month, faults>>

TickRead(r) ==
    /\ tick[r] = Null
    /\ AnnualDue
    /\ tick' = [tick EXCEPT ![r] = Allotment[plan.plan]]
    /\ UNCHANGED <<plan, balance, resetAt, ledger, stripe, event, handler, run,
                   month, faults>>

TickReset(r) ==
    /\ tick[r] # Null
    /\ MonthlyReset(Null, tick[r])
    /\ tick' = [tick EXCEPT ![r] = Null]
    /\ UNCHANGED <<plan, stripe, event, handler, run, month, faults>>

TickFails(r) ==
    /\ tick[r] # Null
    /\ Fault
    /\ tick' = [tick EXCEPT ![r] = Null]
    /\ UNCHANGED <<plan, balance, resetAt, ledger, stripe, event, handler, run,
                   month>>
-----------------------------------------------------------------------------
Move(k, from, to) ==
    /\ run[k] = from
    /\ run' = [run EXCEPT ![k] = to]

(* preflight_check. *)
Allowed == plan = Null \/ plan.plan \in Bypass \/ Credits > 0

Preflight(k) ==
    /\ Move(k, "idle", IF Allowed THEN "running" ELSE "blocked")
    /\ UNCHANGED <<plan, balance, resetAt, ledger, stripe, event, handler,
                   tick, month, faults>>

(* An error in the check lets the run through. *)
PreflightErrors(k) ==
    /\ Move(k, "idle", "running")
    /\ Fault
    /\ UNCHANGED <<plan, balance, resetAt, ledger, stripe, event, handler,
                   tick, month>>

(* The graph raised, or the insert of the agent_run row failed. *)
RunUnrecorded(k) ==
    /\ Move(k, "running", "over")
    /\ Fault
    /\ UNCHANGED <<plan, balance, resetAt, ledger, stripe, event, handler,
                   tick, month>>

(* _persist_agent_run reads whether the plan is metered ... *)
RunPersists(k) ==
    /\ Move(k, "running", IF plan = Null \/ plan.plan \in Bypass
                          THEN "unmetered" ELSE "metered")
    /\ UNCHANGED <<plan, balance, resetAt, ledger, stripe, event, handler,
                   tick, month, faults>>

(* ... and debits under the row lock, in the transaction of the run's row. *)
Debit(k) ==
    /\ Move(k, "metered", "over")
    /\ Append1("debit_agent_run", k, Credits - Cost)
    /\ UNCHANGED <<plan, resetAt, stripe, event, handler, tick, month, faults>>
-----------------------------------------------------------------------------
StripeStep == Subscribe \/ SubscribeOutside \/ ChangePlan \/ Renew \/ Cancel

HandlerStep(d) ==
    \/ HandlerRead(d)
    \/ ApplyEvent(d) \/ ApplyRaises(d)
    \/ ApplyDeleted(d) \/ ApplyInvoice(d)
    \/ HandlerDies(d)

TickStep(r) == TickRead(r) \/ TickReset(r) \/ TickFails(r)

RunStep(k) ==
    \/ Preflight(k) \/ PreflightErrors(k)
    \/ RunUnrecorded(k)
    \/ RunPersists(k) \/ Debit(k)

Next ==
    \/ StripeStep
    \/ Month
    \/ \E d \in Deliveries : Deliver(d) \/ HandlerStep(d)
    \/ \E r \in Replicas : TickStep(r)
    \/ \E k \in Runs : RunStep(k)

Spec == Init /\ [][Next]_vars

(* Stripe delivers every event once, months pass, and the tasks of a live   *)
(* process run on.  Customers and failures owe nothing.                     *)
FairSpec ==
    /\ Spec
    /\ WF_vars(Month)
    /\ \A d \in Deliveries : /\ WF_vars(HandlerStep(d))
                             /\ d[2] = 1 => WF_vars(Deliver(d))
    /\ \A r \in Replicas : WF_vars(TickStep(r))
    /\ \A k \in Runs : WF_vars(RunPersists(k) \/ Debit(k))
-----------------------------------------------------------------------------
(* Type correctness of every variable. *)
TypeOK ==
    /\ plan \in PlanRow \cup {Null}
    /\ balance \in Int \cup {Null}
    /\ resetAt \in Int \cup {Null}
    /\ ledger \in Seq(Entry)
    /\ stripe \in [plan : Named, cycle : Cycles] \cup {Null}
    /\ event \in Seq(Event)
    /\ handler \in [Deliveries -> Handler \cup {Null}]
    /\ tick \in [Replicas -> Int \cup {Null}]
    /\ run \in [Runs -> RunPlaces]
    /\ month \in 0..MaxMonths
    /\ faults \in 0..MaxFaults

(* The ledger explains the balance: each row starts where the previous one  *)
(* ended, and the last one ends at the balance, however debits, resets and  *)
(* handlers of overlapping events interleave.                               *)
LedgerChains ==
    /\ \A n \in 1..Len(ledger) :
          ledger[n].after =
              ledger[n].delta + (IF n = 1 THEN 0 ELSE ledger[n - 1].after)
    /\ Credits = (IF ledger = <<>> THEN 0 ELSE Last(ledger).after)

(* A workspace never moves to a paid plan without that plan's credits, in   *)
(* the same transaction, whichever of the overlapping handlers moves it.    *)
PaidPlanComesWithCredits ==
    [][\A p \in Paid :
          /\ plan' # Null /\ plan'.plan = p
          /\ plan = Null \/ plan.plan # p
          => balance' = Allotment[p]]_vars

(* An annual subscription whose month is over is reset by some replica's    *)
(* loop, unless it stops being one, also when handlers and ticks die.       *)
AnnualIsReset == AnnualDue ~> ~AnnualDue

(* Claimed by webhook_handlers: a repeated event is a no-op and not a       *)
(* duplicate grant.                                                         *)
InvoiceGrantsOnce ==
    \A i \in 1..Len(event) :
        Cardinality({n \in 1..Len(ledger) :
            ledger[n].kind = "monthly_reset" /\ ledger[n].ref = i}) <= 1

=============================================================================
