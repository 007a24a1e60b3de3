--------------------------- MODULE BillingProofs ---------------------------
(***************************************************************************)
(* Proofs about Billing, for any plans and allotments, any number of        *)
(* events, copies, runs, replicas and months, and any faults.               *)
(***************************************************************************)
EXTENDS Billing, TLAPS

(* A handler works on an emitted event, a plan row that was read does not   *)
(* go away, and a handler that demotes or grants has read one.              *)
HandlerInv ==
    \A d \in Deliveries : handler[d] # Null =>
        /\ d[1] <= Len(event)
        /\ handler[d].seen # Null => plan # Null
        /\ In(d, "read") /\ Type(d) \in {"deleted", "invoice"} => handler[d].seen # Null

IInv == TypeOK /\ HandlerInv /\ LedgerChains

(* What PaidPlanComesWithCredits says of one step. *)
PaidIsGranted ==
    \A p \in Paid :
        /\ plan' # Null /\ plan'.plan = p
        /\ plan = Null \/ plan.plan # p
        => balance' = Allotment[p]

PlanStays == plan' \in PlanRow \cup {Null} /\ (plan # Null => plan' # Null)

EventsGrow ==
    /\ event' \in Seq(Event)
    /\ Len(event) <= Len(event')
    /\ \A i \in 1..Len(event) : event'[i] = event[i]
-----------------------------------------------------------------------------
(* A delivery is of one of the events. *)
LEMMA Delivery ==
    ASSUME NEW d \in Deliveries
    PROVE  d[1] \in 1..MaxEvents
BY DEF Deliveries

(* A handler at work has its event. *)
LEMMA EventOf ==
    ASSUME IInv, NEW d \in Deliveries, handler[d] # Null
    PROVE  /\ d[1] \in 1..Len(event)
           /\ event[d[1]] \in Event
<1>1. d[1] \in 1..MaxEvents /\ MaxEvents \in Nat
  BY Delivery, BoundsAssumption
<1>2. d[1] <= Len(event) /\ event \in Seq(Event)
  BY DEF IInv, HandlerInv, TypeOK
<1>3. QED
  BY <1>1, <1>2

(* A locked change of the balance appends the row that explains it. *)
LEMMA MoneyMoves ==
    ASSUME IInv, NEW kind \in {"monthly_reset", "debit_agent_run"},
           NEW ref \in Nat \cup Runs \cup {Null}, NEW new \in Int,
           Append1(kind, ref, new)
    PROVE  /\ balance' \in Int \cup {Null}
           /\ ledger' \in Seq(Entry)
           /\ LedgerChains'
<1> DEFINE entry == [kind |-> kind, ref |-> ref, delta |-> new - Credits, after |-> new]
<1>1. balance \in Int \cup {Null} /\ ledger \in Seq(Entry) /\ Null \notin Int
  BY NullAssumption DEF IInv, TypeOK
<1>2. Credits \in Int
  BY <1>1 DEF Credits
<1>3. balance' = new /\ ledger' = Append(ledger, entry) /\ Credits' = new
  BY <1>1 DEF Append1, Credits
<1>4. /\ entry \in Entry
      /\ entry.after = new
      /\ entry.delta = new - Credits
  BY <1>2 DEF Entry
<1> HIDE DEF entry
<1>5. /\ ledger' \in Seq(Entry)
      /\ Len(ledger') = Len(ledger) + 1
      /\ ledger'[Len(ledger) + 1] = entry
      /\ \A n \in 1..Len(ledger) : ledger'[n] = ledger[n]
      /\ Len(ledger) \in Nat
  BY <1>1, <1>3, <1>4
<1>6. \A n \in 1..Len(ledger) : ledger[n].after =
         ledger[n].delta + (IF n = 1 THEN 0 ELSE ledger[n - 1].after)
  BY DEF IInv, LedgerChains
<1>7. ASSUME NEW n \in 1..Len(ledger')
      PROVE  ledger'[n].after =
                 ledger'[n].delta + (IF n = 1 THEN 0 ELSE ledger'[n - 1].after)
  <2>1. CASE n \in 1..Len(ledger)
    <3>1. n # 1 => n - 1 \in 1..Len(ledger)
      BY <1>5, <2>1
    <3>2. QED
      BY <1>5, <1>6, <2>1, <3>1
  <2>2. CASE n = Len(ledger) + 1 /\ ledger = <<>>
    <3>1. n = 1 /\ Credits = 0
      BY <2>2 DEF IInv, LedgerChains
    <3>2. QED
      BY <1>2, <1>4, <1>5, <2>2, <3>1
  <2>3. CASE n = Len(ledger) + 1 /\ ledger # <<>>
    <3>1. /\ Len(ledger) # 0
          /\ n # 1
          /\ n - 1 = Len(ledger)
          /\ Len(ledger) \in 1..Len(ledger)
      BY <1>1, <1>5, <2>3
    <3>2. Credits = ledger[Len(ledger)].after
      BY <2>3 DEF IInv, LedgerChains, Last
    <3>3. ledger'[n - 1] = ledger[Len(ledger)]
      BY <1>5, <3>1
    <3>4. ledger'[n] = entry
      BY <1>5, <2>3
    <3>5. QED
      BY <1>2, <1>4, <3>1, <3>2, <3>3, <3>4
  <2>4. QED
    BY <1>5, <2>1, <2>2, <2>3
<1>8. ledger' # <<>> /\ Last(ledger)'.after = new
  BY <1>3, <1>4, <1>5 DEF Last
<1>9. QED
  BY <1>3, <1>5, <1>7, <1>8 DEF LedgerChains

(* A step that leaves the money. *)
LEMMA MoneyStays ==
    ASSUME IInv, UNCHANGED <<balance, ledger>>
    PROVE  /\ balance' \in Int \cup {Null}
           /\ ledger' \in Seq(Entry)
           /\ LedgerChains'
BY DEF IInv, TypeOK, LedgerChains, Credits, Last
-----------------------------------------------------------------------------
(* Stripe only appends to its events, and plan rows do not go away: what    *)
(* the handlers at work have read stays true of them.                       *)
LEMMA HandlersKeep ==
    ASSUME IInv, EventsGrow, PlanStays, UNCHANGED handler
    PROVE  handler' \in [Deliveries -> Handler \cup {Null}] /\ HandlerInv'
<1>1. handler' \in [Deliveries -> Handler \cup {Null}]
  BY DEF IInv, TypeOK
<1>2. ASSUME NEW d \in Deliveries, handler'[d] # Null
      PROVE  /\ d[1] <= Len(event')
             /\ handler'[d].seen # Null => plan' # Null
             /\ In(d, "read")' /\ Type(d)' \in {"deleted", "invoice"}
                   => handler'[d].seen # Null
  <2>1. handler' = handler /\ handler[d] # Null
    BY <1>2
  <2>2. d[1] \in 1..Len(event) /\ event \in Seq(Event)
    BY <2>1, EventOf DEF IInv, TypeOK
  <2>3. Type(d)' = Type(d) /\ In(d, "read")' = In(d, "read")
    BY <2>1, <2>2 DEF Type, In, EventsGrow
  <2>4. d[1] <= Len(event')
    BY <2>2 DEF EventsGrow
  <2>5. QED
    BY <2>1, <2>3, <2>4 DEF IInv, HandlerInv, PlanStays
<1>3. QED
  BY <1>1, <1>2 DEF HandlerInv

(* One delivery moves: what it has read is the plan row, and a row it needs *)
(* it has.                                                                  *)
LEMMA OneHandler ==
    ASSUME IInv, UNCHANGED event, PlanStays, NEW d \in Deliveries, d[1] <= Len(event),
           NEW h \in Handler, handler' = [handler EXCEPT ![d] = h],
           h.seen # Null => plan' # Null,
           h.phase = "read" /\ Type(d) \in {"deleted", "invoice"} => h.seen # Null
    PROVE  handler' \in [Deliveries -> Handler \cup {Null}] /\ HandlerInv'
<1>1. handler \in [Deliveries -> Handler \cup {Null}]
  BY DEF IInv, TypeOK
<1>2. handler' \in [Deliveries -> Handler \cup {Null}] /\ handler'[d] = h
  BY <1>1
<1>3. ASSUME NEW e \in Deliveries, handler'[e] # Null
      PROVE  /\ e[1] <= Len(event')
             /\ handler'[e].seen # Null => plan' # Null
             /\ In(e, "read")' /\ Type(e)' \in {"deleted", "invoice"}
                   => handler'[e].seen # Null
  <2>1. Type(e)' = Type(e) /\ event' = event
    BY DEF Type
  <2>2. CASE e = d
    BY <1>2, <2>1, <2>2 DEF In
  <2>3. CASE e # d
    <3>1. handler'[e] = handler[e]
      BY <1>1, <2>3
    <3>2. In(e, "read")' = In(e, "read")
      BY <3>1 DEF In
    <3>3. QED
      BY <1>3, <2>1, <3>1, <3>2 DEF IInv, HandlerInv, PlanStays
  <2>4. QED
    BY <2>2, <2>3
<1>4. QED
  BY <1>2, <1>3 DEF HandlerInv
-----------------------------------------------------------------------------
(* What a step has to show of its successor. *)
Sound ==
    /\ IInv'
    /\ PaidIsGranted

(* A step that moves neither the plan nor the balance, nor any handler.     *)
LEMMA AsideSound ==
    ASSUME IInv, UNCHANGED <<plan, balance, ledger, handler>>, EventsGrow,
           resetAt' \in Int \cup {Null},
           stripe' \in [plan : Named, cycle : Cycles] \cup {Null},
           tick' \in [Replicas -> Int \cup {Null}], run' \in [Runs -> RunPlaces],
           month' \in 0..MaxMonths, faults' \in 0..MaxFaults
    PROVE  Sound
<1>1. PlanStays
  BY DEF PlanStays, IInv, TypeOK
<1>2. handler' \in [Deliveries -> Handler \cup {Null}] /\ HandlerInv'
  BY <1>1, HandlersKeep
<1>3. TypeOK'
  BY <1>1, <1>2, MoneyStays DEF TypeOK, PlanStays, EventsGrow
<1>4. PaidIsGranted
  BY DEF PaidIsGranted
<1>5. QED
  BY <1>2, <1>3, <1>4, MoneyStays DEF Sound, IInv

(* A step that emits nothing. *)
LEMMA NoEvents ==
    ASSUME IInv, UNCHANGED event
    PROVE  EventsGrow
<1>1. event \in Seq(Event)
  BY DEF IInv, TypeOK
<1>2. Len(event) \in Nat
  BY <1>1
<1>3. QED
  BY <1>1, <1>2 DEF EventsGrow

(* Stripe emits events. *)
LEMMA EmitSound ==
    ASSUME IInv, NEW types \in Seq(EventTypes), NEW p \in Named, NEW c \in Cycles,
           Emit(types, p, c), stripe' \in [plan : Named, cycle : Cycles] \cup {Null}
    PROVE  Sound
<1> DEFINE new == [i \in 1..Len(types) |-> [type |-> types[i], plan |-> p, cycle |-> c]]
<1>1. event' = event \o new
  BY DEF Emit
<1>2. Len(types) \in Nat /\ \A i \in 1..Len(types) : types[i] \in EventTypes
  OBVIOUS
<1>3. \A i \in 1..Len(types) : [type |-> types[i], plan |-> p, cycle |-> c] \in Event
  BY <1>2 DEF Event, Named, Plans
<1>4. new \in [1..Len(types) -> Event]
  BY <1>3
<1>5. new \in Seq(Event)
  BY <1>2, <1>4
<1> HIDE DEF new
<1>6. EventsGrow
  <2>1. event \in Seq(Event)
    BY DEF IInv, TypeOK
  <2>2. QED
    BY <1>1, <1>5, <2>1 DEF EventsGrow
<1>7. UNCHANGED <<plan, balance, resetAt, ledger, handler, tick, run, month, faults>>
  BY DEF Emit
<1>8. QED
  BY <1>6, <1>7, AsideSound DEF IInv, TypeOK

(* Every change of the subscription. *)
LEMMA StripeSound ==
    ASSUME IInv, StripeStep
    PROVE  Sound
<1>1. stripe # Null => stripe \in [plan : Named, cycle : Cycles]
  BY DEF IInv, TypeOK
<1>2. /\ <<"checkout", "created", "invoice">> \in Seq(EventTypes)
      /\ <<"created", "invoice">> \in Seq(EventTypes)
      /\ <<"updated">> \in Seq(EventTypes)
      /\ <<"invoice">> \in Seq(EventTypes)
      /\ <<"deleted">> \in Seq(EventTypes)
  BY DEF EventTypes
<1>3. CASE Subscribe
  <2>1. PICK p \in Paid, c \in Cycles :
           /\ stripe' = [plan |-> p, cycle |-> c]
           /\ Emit(<<"checkout", "created", "invoice">>, p, c)
    BY <1>3 DEF Subscribe
  <2>2. p \in Named
    BY <2>1 DEF Named
  <2>3. QED
    BY <1>2, <2>1, <2>2, EmitSound
<1>4. CASE ChangePlan
  <2>1. PICK p \in Named : /\ stripe' = [stripe EXCEPT !.plan = p]
                           /\ Emit(<<"updated">>, p, stripe.cycle)
    BY <1>4 DEF ChangePlan
  <2>2. stripe' \in [plan : Named, cycle : Cycles] /\ stripe.cycle \in Cycles
    BY <1>1, <1>4, <2>1 DEF ChangePlan
  <2>3. QED
    BY <1>2, <2>1, <2>2, EmitSound
<1>5. CASE Renew
  <2>1. stripe' = stripe /\ stripe.plan \in Named /\ stripe.cycle \in Cycles
    BY <1>1, <1>5 DEF Renew
  <2>2. QED
    BY <1>1, <1>2, <1>5, <2>1, EmitSound DEF Renew
<1>6. CASE Cancel
  <2>1. stripe' = Null /\ stripe.plan \in Named /\ stripe.cycle \in Cycles
    BY <1>1, <1>6 DEF Cancel
  <2>2. QED
    BY <1>2, <1>6, <2>1, EmitSound DEF Cancel
<1>7. CASE SubscribeOutside
  <2>1. "free" \in Named /\ "monthly" \in Cycles
    BY DEF Named, Cycles
  <2>2. QED
    BY <1>2, <1>7, <2>1, EmitSound DEF SubscribeOutside
<1>8. QED
  BY <1>3, <1>4, <1>5, <1>6, <1>7 DEF StripeStep
-----------------------------------------------------------------------------
(* A step of one delivery that leaves the plan and the balance alone. *)
LEMMA QuietHandlerSound ==
    ASSUME IInv, NEW d \in Deliveries, d[1] <= Len(event),
           NEW h \in Handler, handler' = [handler EXCEPT ![d] = h],
           h.seen # Null => plan # Null,
           h.phase = "read" /\ Type(d) \in {"deleted", "invoice"} => h.seen # Null,
           UNCHANGED <<plan, balance, resetAt, ledger, stripe, event, tick, run, month>>,
           faults' \in 0..MaxFaults
    PROVE  Sound
<1>1. PlanStays
  BY DEF PlanStays, IInv, TypeOK
<1>2. handler' \in [Deliveries -> Handler \cup {Null}] /\ HandlerInv'
  BY <1>1, OneHandler
<1>3. TypeOK'
  BY <1>2 DEF IInv, TypeOK
<1>4. PaidIsGranted
  BY DEF PaidIsGranted
<1>5. QED
  BY <1>2, <1>3, <1>4, MoneyStays DEF Sound, IInv

(* An event is delivered. *)
LEMMA DeliverSound ==
    ASSUME IInv, NEW d \in Deliveries, Deliver(d)
    PROVE  Sound
<1> DEFINE h == [phase |-> "new", seen |-> Null]
<1>1. h \in Handler /\ h.seen = Null /\ h.phase = "new"
  BY DEF Handler
<1>2. handler' = [handler EXCEPT ![d] = h]
  BY DEF Deliver
<1>3. faults' \in 0..MaxFaults
  BY DEF Deliver, IInv, TypeOK
<1> HIDE DEF h
<1>4. QED
  BY <1>1, <1>2, <1>3, QuietHandlerSound DEF Deliver

(* A handler reads the plan row. *)
LEMMA ReadSound ==
    ASSUME IInv, NEW d \in Deliveries, HandlerRead(d)
    PROVE  Sound
<1> DEFINE return == \/ Type(d) = "deleted" /\ plan = Null
                     \/ /\ Type(d) = "invoice"
                        /\ plan = Null \/ plan.plan = "free" \/ Granted(d[1])
           h == [phase |-> IF return THEN "over" ELSE "read", seen |-> plan]
<1>1. handler' = [handler EXCEPT ![d] = h] /\ handler[d] # Null
  BY DEF HandlerRead, In
<1>2. h \in Handler /\ h.seen = plan /\ h.phase = IF return THEN "over" ELSE "read"
  BY DEF Handler, IInv, TypeOK
<1>3. h.phase = "read" /\ Type(d) \in {"deleted", "invoice"} => plan # Null
  BY <1>2
<1>4. d[1] <= Len(event) /\ faults' \in 0..MaxFaults
  BY <1>1 DEF IInv, HandlerInv, HandlerRead, TypeOK
<1> HIDE DEF h
<1>5. QED
  BY <1>1, <1>2, <1>3, <1>4, QuietHandlerSound DEF HandlerRead

(* The bound on faults. *)
LEMMA FaultBound ==
    ASSUME IInv, Fault
    PROVE  faults' \in 0..MaxFaults
BY BoundsAssumption DEF IInv, TypeOK, Fault

(* A handler that ends leaves nothing behind it but the task. *)
LEMMA EndSound ==
    ASSUME IInv, NEW d \in Deliveries, handler[d] # Null, Over(d),
           UNCHANGED <<plan, balance, resetAt, ledger, stripe, event, tick, run, month>>,
           faults' \in 0..MaxFaults
    PROVE  Sound
<1> DEFINE h == [phase |-> "over", seen |-> Null]
<1>1. h \in Handler /\ h.seen = Null /\ h.phase = "over"
  BY DEF Handler
<1>2. handler' = [handler EXCEPT ![d] = h]
  BY DEF Over
<1>3. d[1] <= Len(event)
  BY DEF IInv, HandlerInv
<1> HIDE DEF h
<1>4. QED
  BY <1>1, <1>2, <1>3, QuietHandlerSound
-----------------------------------------------------------------------------
(* A handler that writes the plan row, with or without its credits.         *)
LEMMA WriteSound ==
    ASSUME IInv, NEW d \in Deliveries, handler[d] # Null, Over(d),
           plan' \in PlanRow, PaidIsGranted,
           balance' \in Int \cup {Null}, ledger' \in Seq(Entry), LedgerChains',
           resetAt' \in Int \cup {Null},
           UNCHANGED <<stripe, event, tick, run, month, faults>>
    PROVE  Sound
<1> DEFINE h == [phase |-> "over", seen |-> Null]
<1>1. h \in Handler /\ h.seen = Null /\ h.phase = "over"
  BY DEF Handler
<1>2. handler' = [handler EXCEPT ![d] = h]
  BY DEF Over
<1>3. d[1] <= Len(event)
  BY DEF IInv, HandlerInv
<1>4. PlanStays
  BY RecordsAssumption DEF PlanStays
<1> HIDE DEF h
<1>5. handler' \in [Deliveries -> Handler \cup {Null}] /\ HandlerInv'
  BY <1>1, <1>2, <1>3, <1>4, OneHandler
<1>6. TypeOK'
  BY <1>5 DEF IInv, TypeOK
<1>7. QED
  BY <1>5, <1>6 DEF Sound, IInv

(* What the UPDATE leaves is a plan row, also beside another handler's.     *)
LEMMA AppliedRow ==
    ASSUME NEW seen \in PlanRow \cup {Null}, NEW p \in Plans, NEW c \in Cycles \cup {Null},
           plan \in PlanRow \cup {Null}, seen # Null => plan # Null
    PROVE  /\ Applied(seen, p, c) \in PlanRow
           /\ Applied(seen, p, c).plan = IF seen = Null \/ seen.plan # p THEN p ELSE plan.plan
<1>1. CASE seen = Null
  BY <1>1 DEF Applied, PlanRow
<1>2. CASE seen # Null
  <2>1. plan.plan \in Plans /\ plan.cycle \in Cycles \cup {Null}
    BY <1>2 DEF PlanRow
  <2> DEFINE x == Dirty(seen.plan, p, plan.plan)
             y == Dirty(seen.cycle, c, plan.cycle)
  <2>2. x \in Plans /\ y \in Cycles \cup {Null}
    BY <2>1 DEF Dirty
  <2>3. x = IF seen.plan # p THEN p ELSE plan.plan
    BY DEF Dirty
  <2>4. Applied(seen, p, c) = [plan |-> x, cycle |-> y]
    BY <1>2 DEF Applied
  <2> HIDE DEF x, y
  <2>5. [plan |-> x, cycle |-> y] \in PlanRow /\ [plan |-> x, cycle |-> y].plan = x
    BY <2>2 DEF PlanRow
  <2>6. QED
    BY <1>2, <2>3, <2>4, <2>5
<1>3. QED
  BY <1>1, <1>2

(* What a handler at work has in hand. *)
LEMMA SeenRow ==
    ASSUME IInv, NEW d \in Deliveries, In(d, "read")
    PROVE  /\ handler[d] # Null
           /\ handler[d].seen \in PlanRow \cup {Null}
           /\ handler[d].seen # Null => plan # Null
           /\ Type(d) \in {"deleted", "invoice"} => handler[d].seen # Null
           /\ event[d[1]].plan \in Plans
           /\ event[d[1]].cycle \in Cycles
<1>1. handler[d] # Null /\ handler[d] \in Handler
  BY DEF In, IInv, TypeOK
<1>2. event[d[1]] \in Event
  BY <1>1, EventOf
<1>3. QED
  BY <1>1, <1>2 DEF Handler, Event, IInv, HandlerInv

(* credit_monthly_reset. *)
LEMMA ResetMoves ==
    ASSUME IInv, NEW ref \in Nat \cup Runs \cup {Null}, NEW grant \in Int,
           MonthlyReset(ref, grant)
    PROVE  /\ balance' = grant
           /\ balance' \in Int \cup {Null}
           /\ ledger' \in Seq(Entry)
           /\ LedgerChains'
           /\ resetAt' \in Int \cup {Null}
<1>1. Append1("monthly_reset", ref, grant) /\ resetAt' = month
  BY DEF MonthlyReset
<1>2. balance' = grant /\ month \in Int
  BY <1>1, BoundsAssumption DEF Append1, IInv, TypeOK
<1>3. QED
  BY <1>1, <1>2, MoneyMoves

(* Every plan has an allotment. *)
LEMMA Allotted ==
    ASSUME NEW p \in Plans
    PROVE  Allotment[p] \in Int
BY PlansAssumption

(* The subscription handlers: the plan that results is granted when this handler wrote it. *)
LEMMA ApplySound ==
    ASSUME IInv, NEW d \in Deliveries, ApplyEvent(d)
    PROVE  Sound
<1> DEFINE e == event[d[1]]
           seen == handler[d].seen
<1>1. /\ In(d, "read")
      /\ plan' = Applied(seen, e.plan, e.cycle)
      /\ Over(d)
      /\ UNCHANGED <<stripe, event, tick, run, month, faults>>
      /\ IF PlanChanged(seen, e.plan) /\ e.plan # "free"
         THEN MonthlyReset(Null, Allotment[e.plan])
         ELSE UNCHANGED <<balance, ledger, resetAt>>
  BY DEF ApplyEvent
<1>2. /\ handler[d] # Null
      /\ seen \in PlanRow \cup {Null}
      /\ seen # Null => plan # Null
      /\ e.plan \in Plans /\ e.cycle \in Cycles
  BY <1>1, SeenRow
<1> HIDE DEF e, seen
<1>3. plan \in PlanRow \cup {Null}
  BY DEF IInv, TypeOK
<1>4. /\ plan' \in PlanRow
      /\ plan'.plan = IF seen = Null \/ seen.plan # e.plan THEN e.plan ELSE plan.plan
  BY <1>1, <1>2, <1>3, AppliedRow
<1>5. CASE PlanChanged(seen, e.plan) /\ e.plan # "free"
  <2>1. MonthlyReset(Null, Allotment[e.plan]) /\ Allotment[e.plan] \in Int
    BY <1>1, <1>2, <1>5, Allotted
  <2>2. /\ balance' = Allotment[e.plan]
        /\ balance' \in Int \cup {Null}
        /\ ledger' \in Seq(Entry)
        /\ LedgerChains'
        /\ resetAt' \in Int \cup {Null}
    BY <2>1, ResetMoves
  <2>3. plan'.plan = e.plan
    BY <1>4, <1>5 DEF PlanChanged
  <2>4. PaidIsGranted
    BY <2>2, <2>3 DEF PaidIsGranted
  <2>5. QED
    BY <1>1, <1>2, <1>4, <2>2, <2>4, WriteSound
<1>6. CASE ~PlanChanged(seen, e.plan)
  <2>1. UNCHANGED <<balance, ledger, resetAt>>
    BY <1>1, <1>6
  <2>2. plan # Null /\ plan'.plan = plan.plan
    BY <1>2, <1>4, <1>6 DEF PlanChanged
  <2>3. PaidIsGranted
    BY <2>2 DEF PaidIsGranted
  <2>4. resetAt' \in Int \cup {Null}
    BY <2>1 DEF IInv, TypeOK
  <2>5. QED
    BY <1>1, <1>2, <1>4, <2>1, <2>3, <2>4, MoneyStays, WriteSound
<1>7. CASE PlanChanged(seen, e.plan) /\ e.plan = "free"
  <2>1. UNCHANGED <<balance, ledger, resetAt>>
    BY <1>1, <1>7
  <2>2. plan'.plan \notin Paid
    BY <1>4, <1>7, PlansAssumption DEF PlanChanged
  <2>3. PaidIsGranted
    BY <2>2 DEF PaidIsGranted
  <2>4. resetAt' \in Int \cup {Null}
    BY <2>1 DEF IInv, TypeOK
  <2>5. QED
    BY <1>1, <1>2, <1>4, <2>1, <2>3, <2>4, MoneyStays, WriteSound
<1>8. QED
  BY <1>5, <1>6, <1>7

(* A demotion never makes a plan a paid one. *)
LEMMA DeletedSound ==
    ASSUME IInv, NEW d \in Deliveries, ApplyDeleted(d)
    PROVE  Sound
<1> DEFINE seen == handler[d].seen
<1>1. /\ In(d, "read")
      /\ Type(d) = "deleted"
      /\ plan' = Applied(seen, "free", Null)
      /\ Over(d)
      /\ UNCHANGED <<balance, resetAt, ledger, stripe, event, tick, run, month, faults>>
  BY DEF ApplyDeleted
<1>2. /\ handler[d] # Null
      /\ seen \in PlanRow /\ seen # Null
      /\ plan # Null
  BY <1>1, SeenRow
<1> HIDE DEF seen
<1>3. plan \in PlanRow \cup {Null} /\ "free" \in Plans
  BY DEF IInv, TypeOK, Plans
<1>4. /\ plan' \in PlanRow
      /\ plan'.plan = IF seen.plan # "free" THEN "free" ELSE plan.plan
  BY <1>1, <1>2, <1>3, AppliedRow
<1>5. PaidIsGranted
  BY <1>2, <1>4, PlansAssumption DEF PaidIsGranted
<1>6. resetAt' \in Int \cup {Null}
  BY <1>1 DEF IInv, TypeOK
<1>7. QED
  BY <1>1, <1>2, <1>4, <1>5, <1>6, MoneyStays, WriteSound

(* The reset of a paid invoice. *)
LEMMA InvoiceSound ==
    ASSUME IInv, NEW d \in Deliveries, ApplyInvoice(d)
    PROVE  Sound
<1>1. /\ In(d, "read")
      /\ Type(d) = "invoice"
      /\ MonthlyReset(d[1], Allotment[handler[d].seen.plan])
      /\ Over(d)
      /\ UNCHANGED <<plan, stripe, event, tick, run, month, faults>>
  BY DEF ApplyInvoice
<1>2. /\ handler[d] # Null
      /\ handler[d].seen \in PlanRow
      /\ plan # Null
  BY <1>1, SeenRow
<1>3. Allotment[handler[d].seen.plan] \in Int
  BY <1>2, Allotted DEF PlanRow
<1>4. d[1] \in Nat
  BY Delivery, BoundsAssumption
<1>5. /\ balance' \in Int \cup {Null}
      /\ ledger' \in Seq(Entry)
      /\ LedgerChains'
      /\ resetAt' \in Int \cup {Null}
  BY <1>1, <1>3, <1>4, ResetMoves
<1>6. plan' \in PlanRow
  BY <1>1, <1>2 DEF IInv, TypeOK
<1>7. PaidIsGranted
  BY <1>1, <1>2 DEF PaidIsGranted
<1>8. QED
  BY <1>1, <1>2, <1>5, <1>6, <1>7, WriteSound
-----------------------------------------------------------------------------
(* A step that leaves the plan, the events and their handlers alone.        *)
LEMMA BalanceSound ==
    ASSUME IInv, UNCHANGED <<plan, stripe, event, handler>>,
           balance' \in Int \cup {Null}, ledger' \in Seq(Entry), LedgerChains',
           resetAt' \in Int \cup {Null}, tick' \in [Replicas -> Int \cup {Null}],
           run' \in [Runs -> RunPlaces], month' \in 0..MaxMonths,
           faults' \in 0..MaxFaults
    PROVE  Sound
<1>1. PlanStays /\ EventsGrow
  BY NoEvents DEF PlanStays, IInv, TypeOK
<1>2. handler' \in [Deliveries -> Handler \cup {Null}] /\ HandlerInv'
  BY <1>1, HandlersKeep
<1>3. TypeOK'
  BY <1>2 DEF IInv, TypeOK
<1>4. PaidIsGranted
  BY DEF PaidIsGranted
<1>5. QED
  BY <1>2, <1>3, <1>4 DEF Sound, IInv

(* Time passes. *)
LEMMA MonthSound ==
    ASSUME IInv, Month
    PROVE  Sound
<1>1. month' \in 0..MaxMonths
  BY BoundsAssumption DEF Month, IInv, TypeOK
<1>2. QED
  BY <1>1, MoneyStays, BalanceSound DEF Month, IInv, TypeOK

(* Every step of an annual loop. *)
LEMMA TickSound ==
    ASSUME IInv, NEW r \in Replicas, TickStep(r)
    PROVE  Sound
<1>1. tick \in [Replicas -> Int \cup {Null}]
  BY DEF IInv, TypeOK
<1>2. CASE TickRead(r)
  <2>1. Allotment[plan.plan] \in Int
    BY <1>2, Allotted DEF TickRead, AnnualDue, Plans
  <2>2. tick' \in [Replicas -> Int \cup {Null}]
    BY <1>1, <1>2, <2>1 DEF TickRead
  <2>3. QED
    BY <1>2, <2>2, MoneyStays, BalanceSound DEF TickRead, IInv, TypeOK
<1>3. CASE TickReset(r)
  <2>1. tick[r] \in Int /\ MonthlyReset(Null, tick[r])
    BY <1>1, <1>3 DEF TickReset
  <2>2. /\ balance' \in Int \cup {Null}
        /\ ledger' \in Seq(Entry)
        /\ LedgerChains'
        /\ resetAt' \in Int \cup {Null}
    BY <2>1, ResetMoves
  <2>3. tick' \in [Replicas -> Int \cup {Null}]
    BY <1>1, <1>3 DEF TickReset
  <2>4. QED
    BY <1>3, <2>2, <2>3, BalanceSound DEF TickReset, IInv, TypeOK
<1>4. CASE TickFails(r)
  <2>1. tick' \in [Replicas -> Int \cup {Null}]
    BY <1>1, <1>4 DEF TickFails
  <2>2. faults' \in 0..MaxFaults
    BY <1>4, FaultBound DEF TickFails
  <2>3. QED
    BY <1>4, <2>1, <2>2, MoneyStays, BalanceSound DEF TickFails, IInv, TypeOK
<1>5. QED
  BY <1>2, <1>3, <1>4 DEF TickStep

(* Every step of an agent run. *)
LEMMA RunSound ==
    ASSUME IInv, NEW k \in Runs, RunStep(k)
    PROVE  Sound
<1>1. run \in [Runs -> RunPlaces]
  BY DEF IInv, TypeOK
<1>2. run' \in [Runs -> RunPlaces]
  BY <1>1 DEF RunStep, Preflight, PreflightErrors, RunUnrecorded, RunPersists, Debit, Move,
              RunPlaces
<1>3. faults' \in 0..MaxFaults
  BY FaultBound DEF RunStep, Preflight, PreflightErrors, RunUnrecorded, RunPersists, Debit,
                    IInv, TypeOK
<1>4. CASE Debit(k)
  <2>1. Append1("debit_agent_run", k, Credits - Cost)
    BY <1>4 DEF Debit
  <2>2. Credits - Cost \in Int
    BY CostAssumption DEF Credits, IInv, TypeOK
  <2>3. /\ balance' \in Int \cup {Null}
        /\ ledger' \in Seq(Entry)
        /\ LedgerChains'
    BY <2>1, <2>2, MoneyMoves
  <2>4. QED
    BY <1>2, <1>3, <1>4, <2>3, BalanceSound DEF Debit, IInv, TypeOK
<1>5. CASE ~Debit(k)
  <2>1. UNCHANGED <<plan, balance, resetAt, ledger, stripe, event, handler, tick, month>>
    BY <1>5 DEF RunStep, Preflight, PreflightErrors, RunUnrecorded, RunPersists
  <2>2. QED
    BY <1>2, <1>3, <2>1, MoneyStays, BalanceSound DEF IInv, TypeOK
<1>6. QED
  BY <1>4, <1>5

(* Every step of a handler. *)
LEMMA HandlerSound ==
    ASSUME IInv, NEW d \in Deliveries, HandlerStep(d)
    PROVE  Sound
<1>1. CASE ApplyRaises(d)
  <2>1. handler[d] # Null /\ faults' \in 0..MaxFaults
    BY <1>1 DEF ApplyRaises, In, IInv, TypeOK
  <2>2. QED
    BY <1>1, <2>1, EndSound DEF ApplyRaises
<1>2. CASE HandlerDies(d)
  <2>1. handler[d] # Null /\ faults' \in 0..MaxFaults
    BY <1>2, FaultBound DEF HandlerDies, In
  <2>2. QED
    BY <1>2, <2>1, EndSound DEF HandlerDies
<1>3. QED
  BY <1>1, <1>2, ReadSound, ApplySound, DeletedSound, InvoiceSound DEF HandlerStep
-----------------------------------------------------------------------------
(* The invariant holds at the start. *)
LEMMA InitSound == Init => IInv
<1> SUFFICES ASSUME Init
             PROVE  IInv
  OBVIOUS
<1>1. plan \in PlanRow \cup {Null} /\ balance \in Int \cup {Null}
  BY DEF Init, PlanRow, Plans, Bypass
<1>2. TypeOK
  BY <1>1, BoundsAssumption DEF Init, TypeOK, RunPlaces
<1>3. HandlerInv
  BY DEF Init, HandlerInv
<1>4. LedgerChains
  BY DEF Init, LedgerChains, Credits
<1>5. QED
  BY <1>2, <1>3, <1>4 DEF IInv

(* Every step is sound. *)
LEMMA StepSound == IInv /\ [Next]_vars => Sound
<1> SUFFICES ASSUME IInv, [Next]_vars
             PROVE  Sound
  OBVIOUS
<1>1. CASE StripeStep
  BY <1>1, StripeSound
<1>2. CASE Month
  BY <1>2, MonthSound
<1>3. ASSUME NEW d \in Deliveries, Deliver(d) \/ HandlerStep(d)
      PROVE  Sound
  BY <1>3, DeliverSound, HandlerSound
<1>4. ASSUME NEW r \in Replicas, TickStep(r)
      PROVE  Sound
  BY <1>4, TickSound
<1>5. ASSUME NEW k \in Runs, RunStep(k)
      PROVE  Sound
  BY <1>5, RunSound
<1>6. CASE UNCHANGED vars
  BY <1>6, MoneyStays, BalanceSound DEF vars, IInv, TypeOK
<1>7. QED
  BY <1>1, <1>2, <1>3, <1>4, <1>5, <1>6 DEF Next

(* Every variable keeps its type: the plan and balance rows, the ledger,    *)
(* the handlers' tasks and the resets a loop has read as due.               *)
THEOREM TypeCorrect == Spec => []TypeOK
<1>1. IInv => TypeOK
  BY DEF IInv
<1>2. IInv /\ [Next]_vars => IInv'
  BY StepSound DEF Sound
<1>3. QED
  BY <1>1, <1>2, InitSound, PTL DEF Spec

(* The ledger explains the balance whatever handlers, resets and debits     *)
(* overlap or die: CreditLedger and CreditBalance (app/billing/credits.py)  *)
(* move under one row lock.                                                 *)
THEOREM LedgerExplainsBalance == Spec => []LedgerChains
<1>1. IInv => LedgerChains
  BY DEF IInv
<1>2. IInv /\ [Next]_vars => IInv'
  BY StepSound DEF Sound
<1>3. QED
  BY <1>1, <1>2, InitSound, PTL DEF Spec

(* No interleaving of the subscription handlers                             *)
(* (app/billing/webhook_handlers.py) moves a workspace to a paid plan       *)
(* without the credits of that plan.                                        *)
THEOREM PaidMeansCredits == Spec => PaidPlanComesWithCredits
<1>1. IInv /\ [Next]_vars => IInv' /\ [PaidIsGranted]_vars
  BY StepSound DEF Sound
<1>2. QED
  BY <1>1, InitSound, PTL DEF Spec, PaidPlanComesWithCredits, PaidIsGranted
=============================================================================
