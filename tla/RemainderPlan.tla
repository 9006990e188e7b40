---------------------------- MODULE RemainderPlan ----------------------------
(* Merging what is left of a position into one closing order.                *)
(*                                                                           *)
(* A remainder plan is a durable workflow of strategy/remainder.rs: cancel    *)
(* the source orders, reconcile, submit one target under an identity fixed    *)
(* when the plan was saved.  It shares the position with ordinary closing     *)
(* orders, and with the intents older versions stored for paired orders,      *)
(* which are only adopted, booked or dropped.  The exchange fills orders at   *)
(* any moment, answers are lost, a pause interrupts the workflow between any  *)
(* two calls, and the process crashes between any two steps.                  *)
(*                                                                           *)
(* One direction is modelled: the position is what can be closed, every      *)
(* order closes it.  A lookup after a call has ended is decisive.             *)
EXTENDS Integers, FiniteSets, FiniteSetsExt

CONSTANTS
    Sources,    \* remainder orders that may be open at the start
    Targets,    \* identities for the targets of plans
    Grid,       \* identities for ordinary closing orders
    Pairs,      \* paired orders that may have a stored intent
    Full,       \* the quantity of a full grid order
    MaxPos,     \* largest position
    MaxEntries, \* fills of opening orders, which enlarge the position
    MaxFaults,  \* failing calls
    MaxCrashes,
    MaxPauses

ASSUME PlanAssumption ==
    /\ IsFiniteSet(Sources \cup Targets \cup Grid \cup Pairs)
    /\ Pairs \cap (Sources \cup Targets \cup Grid) = {}
    /\ Full \in Nat \ {0} /\ MaxPos \in Nat \ {0}
    /\ {MaxEntries, MaxFaults, MaxCrashes, MaxPauses} \subseteq Nat

VARIABLES
    ex,        \* the exchange's orders: quantity left and filled
    pos,       \* the exchange's position
    managed,   \* durable: quantity of every managed order, 0 if none
    plan,      \* durable: the active plan or None
    intents,   \* durable: paired orders that may have been accepted
    booked,    \* durable: orders recorded as trades
    active,    \* memory: quantity every order reserves, 0 if none
    known,     \* memory: the position as last refreshed
    fresh,     \* memory: orders and position were reconciled
    running,   \* the strategy's status
    job,       \* what the engine is in the middle of
    entries, faults, crashes, pauses

exchange == <<ex, pos>>
durable == <<managed, plan, intents, booked>>
memory == <<active, known, fresh>>
counters == <<entries, faults, crashes, pauses>>
vars == <<exchange, durable, memory, running, job, counters>>

Orders == Sources \cup Targets \cup Grid \cup Pairs
None == [none |-> TRUE]
Idle == [at |-> "idle"]

Units(f, S) == MapThenSumSet(LAMBDA o : f[o], S)
Open == {o \in Orders : ex[o].st = "open"}
Left == [o \in Orders |-> IF ex[o].st = "open" THEN ex[o].left ELSE 0]

\* closing_quantity_available: what is not reserved yet.
Available(reserved) == known - Units(active, reserved)

Fault == faults < MaxFaults /\ faults' = faults + 1
NoFault == UNCHANGED faults
Ends == job' = Idle
Rest == UNCHANGED <<entries, crashes, pauses>>

-----------------------------------------------------------------------------
(* The exchange and the console.                                             *)

ExchangeFills(o) ==
    /\ ex[o].st = "open"
    /\ ex' = [ex EXCEPT ![o].left = @ - 1, ![o].done = @ + 1,
                        ![o].st = IF ex[o].left = 1 THEN "ended" ELSE @]
    /\ pos' = pos - 1
    /\ UNCHANGED <<durable, memory, running, job, counters>>

EntryFills ==
    /\ entries < MaxEntries /\ pos < MaxPos
    /\ entries' = entries + 1
    /\ pos' = pos + 1
    /\ UNCHANGED <<ex, durable, memory, running, job, faults, crashes, pauses>>

Pause ==
    /\ running /\ pauses < MaxPauses
    /\ running' = FALSE
    /\ pauses' = pauses + 1
    /\ UNCHANGED <<exchange, durable, memory, job, entries, faults, crashes>>

\* A pause is followed by cancel-all before the engine takes the next action.
Resume ==
    /\ ~running /\ job = Idle
    /\ running' = TRUE
    /\ UNCHANGED <<exchange, durable, memory, job, counters>>

Crash ==
    /\ crashes < MaxCrashes
    /\ crashes' = crashes + 1
    /\ active' = [o \in Orders |-> 0] /\ known' = 0 /\ fresh' = FALSE
    /\ running' = FALSE
    /\ Ends
    /\ UNCHANGED <<exchange, durable, entries, faults, pauses>>

-----------------------------------------------------------------------------
(* Settling one order whose state on the exchange was just read.             *)

\* job.next is what follows once the order job.order, seen as job.seen, is
\* settled.  An interrupted or failed settlement leaves the order recorded.
Settling(o, seen, next) ==
    [at |-> "settle", order |-> o, seen |-> seen, next |-> next]

\* adopt_open_exchange_order: the order reserves what it has left.
Adopts(o) ==
    /\ active' = [active EXCEPT ![o] = job.seen.left]
    /\ managed' = [managed EXCEPT ![o] = job.seen.left]

KeepsKnown(seen) == known

\* on_order_filled and prepare_partial_adoption: an execution seen in a lookup
\* is only applied with a position that was read after it.
PositionAfter(seen) == IF seen.done > 0 THEN pos ELSE known

Settle ==
    /\ job.at = "settle"
    /\ LET o == job.order
           ended == job.seen.st = "ended"
       IN  /\ known' = PositionAfter(job.seen)
           /\ IF ended
              THEN /\ active' = [active EXCEPT ![o] = 0]
                   /\ managed' = [managed EXCEPT ![o] = 0]
                   /\ booked' = IF job.seen.done > 0 THEN booked \cup {o}
                                ELSE booked
              ELSE Adopts(o) /\ UNCHANGED booked
           /\ job' = job.next
    /\ NoFault /\ Rest
    /\ UNCHANGED <<exchange, plan, intents, fresh, running>>

\* The position cannot be refreshed or the store fails: the order keeps its
\* larger reservation, saved unless the store is what failed (which pauses the
\* strategy in most places); nothing is submitted until a sync.
SettleFails ==
    /\ job.at = "settle" /\ Fault
    /\ LET o == job.order
           kept == Max({active[o], job.seen.left, 1})
       IN  /\ active' = [active EXCEPT ![o] = kept]
           /\ \/ managed' = [managed EXCEPT ![o] = kept] /\ UNCHANGED running
              \/ UNCHANGED managed /\ running' \in {running, FALSE}
    /\ fresh' = FALSE
    /\ Ends
    /\ Rest /\ UNCHANGED <<exchange, plan, intents, booked, known>>

\* cancel_order and the lookup after it; the answer may be lost either way.
Cancelled(o) == [ex EXCEPT ![o].st = "ended"]

CancelAndSettle(o, next) ==
    /\ \/ /\ ex[o].st = "open"
          /\ ex' = Cancelled(o)
          /\ NoFault
          /\ job' = Settling(o, ex'[o], next)
          /\ UNCHANGED fresh
       \/ /\ ex[o].st = "ended"
          /\ NoFault
          /\ job' = Settling(o, ex[o], next)
          /\ UNCHANGED <<ex, fresh>>
       \/ /\ Fault /\ Ends
          /\ ex' \in {ex, IF ex[o].st = "open" THEN Cancelled(o) ELSE ex}
          /\ fresh' = FALSE
    /\ UNCHANGED pos

-----------------------------------------------------------------------------
(* The plan.                                                                 *)

Reserving == {o \in Orders : active[o] > 0}

\* reconcile_remainder: size the target from what the other orders leave over.
Allocate(t) ==
    /\ job = Idle /\ running /\ fresh /\ plan = None /\ intents = {}
    /\ ex[t].st = "none" /\ t \notin booked
    /\ LET from == Reserving \cap (Sources \cup Targets)
           quantity == Min({Full, Available(Reserving \ from)})
           saved == [sources |-> from, target |-> t, quantity |-> quantity,
                     phase |-> "canceling"]
       IN  /\ quantity > 0
           /\ ~(Cardinality(from) = 1 /\ \A s \in from : active[s] = quantity)
           /\ plan' = saved
           /\ job' = [at |-> "cancel", todo |-> from]
    /\ UNCHANGED <<exchange, managed, intents, booked, memory, running,
                   counters>>

\* recover_remainder_plan: an unfinished plan owns the cycle.
Recover ==
    /\ job = Idle /\ running /\ fresh /\ plan # None
    /\ job' = IF plan.phase = "canceling"
              THEN [at |-> "cancel", todo |-> plan.sources]
              ELSE [at |-> "adopt"]
    /\ UNCHANGED <<exchange, durable, memory, running, counters>>

CancelSource(s) ==
    /\ job.at = "cancel" /\ s \in job.todo /\ running
    /\ CancelAndSettle(s, [job EXCEPT !.todo = @ \ {s}])
    /\ Rest /\ UNCHANGED <<durable, active, known, running>>

\* Live quantities come from the position after the cancellations.
SourcesEnded == job.at = "cancel" /\ job.todo = {}

SyncPosition ==
    /\ SourcesEnded
    /\ \/ /\ NoFault
          /\ known' = pos
          /\ plan' = [plan EXCEPT !.phase = "submitting"]
          /\ job' = IF running THEN [at |-> "adopt"] ELSE Idle
          /\ UNCHANGED fresh
       \/ /\ Fault /\ Ends
          /\ fresh' = FALSE
          /\ UNCHANGED <<known, plan>>
    /\ Rest /\ UNCHANGED <<exchange, managed, intents, booked, active, running>>

Interrupted ==
    /\ job.at \in {"cancel", "adopt", "decide", "send"} /\ ~running
    /\ Ends
    /\ UNCHANGED <<exchange, durable, memory, running, counters>>

Finishing(next) == [at |-> "finish", next |-> next]

\* adopt_remainder_target: an earlier submission may have been accepted.
Adopting(t) ==
    job' = IF ex[t].st = "none" THEN [at |-> "decide"]
           ELSE Settling(t, ex[t], Finishing(Idle))

AdoptTarget ==
    /\ job.at = "adopt" /\ running
    /\ \/ NoFault /\ Adopting(plan.target) /\ UNCHANGED fresh
       \/ Fault /\ Ends /\ fresh' = FALSE
    /\ Rest /\ UNCHANGED <<exchange, durable, active, known, running>>

\* The rest of execute_remainder_plan before the submission: no longer wanted,
\* nothing left to close, or the final quantity, which is saved.
Quantity == Min({Available(Reserving), plan.quantity})

Decide ==
    /\ job.at = "decide" /\ running
    /\ \/ /\ plan.target \in booked \/ Quantity <= 0
          /\ plan' = None /\ Ends
       \/ /\ intents # {} /\ Ends /\ UNCHANGED plan
       \/ plan' = None /\ Ends
       \/ /\ plan.target \notin booked /\ Quantity > 0 /\ intents = {}
          /\ plan' = [plan EXCEPT !.quantity = Quantity]
          /\ job' = [at |-> "send"]
    /\ UNCHANGED <<exchange, managed, intents, booked, memory, running,
                   counters>>

Accepted(o, quantity) ==
    [ex EXCEPT ![o] = [st |-> "open", left |-> quantity, done |-> 0]]

\* Accepted and answered, accepted and the answer lost, or not accepted.
Send ==
    /\ job.at = "send" /\ running
    /\ LET t == plan.target IN
       \/ /\ ex' = Accepted(t, plan.quantity) /\ NoFault
          /\ job' = Settling(t, ex'[t], Finishing(Idle))
          /\ UNCHANGED fresh
       \/ /\ Fault /\ Ends /\ fresh' = FALSE
          /\ ex' \in {ex, Accepted(t, plan.quantity)}
    /\ Rest /\ UNCHANGED <<pos, durable, active, known, running>>

\* The target is settled: the plan is complete.
Finish ==
    /\ job.at = "finish"
    /\ plan' = None
    /\ job' = job.next
    /\ UNCHANGED <<exchange, managed, intents, booked, memory, running,
                   counters>>

-----------------------------------------------------------------------------
(* Ordinary closing orders, and the reconciliation before them.              *)

\* place_grid_order: a full order or none, saved before it is sent.
Place(g) ==
    /\ job = Idle /\ running /\ fresh /\ plan = None /\ intents = {}
    /\ ex[g].st = "none" /\ g \notin booked
    /\ Available(Reserving) >= Full
    /\ managed' = [managed EXCEPT ![g] = Full]
    /\ active' = [active EXCEPT ![g] = Full]
    /\ \/ ex' = Accepted(g, Full) /\ NoFault /\ UNCHANGED fresh
       \/ ex' \in {ex, Accepted(g, Full)} /\ Fault /\ fresh' = FALSE
    /\ Rest /\ UNCHANGED <<pos, plan, intents, booked, known, running, job>>

\* What a reconciliation looks up: what is reserved or stored, the stored
\* intents and a target that may have been accepted.
Submitting == plan # None /\ plan.phase = "submitting"
Unsettled ==
    {o \in Orders : active[o] + managed[o] > 0} \cup intents
      \cup (IF Submitting THEN {plan.target} ELSE {})

Sync ==
    /\ job = Idle
    /\ active' = [o \in Orders |-> Max({active[o], managed[o]})]
    /\ fresh' = FALSE
    /\ job' = [at |-> "sync", todo |-> Unsettled]
    /\ UNCHANGED <<exchange, durable, known, running, counters>>

\* drain_pair_intents for an order the exchange never had: dropped, unless the
\* strategy is paused.  So is the reservation of an ordinary order.
Unknown(o) ==
    IF o \in intents /\ ~running
    THEN UNCHANGED <<active, managed, intents>>
    ELSE /\ active' = [active EXCEPT ![o] = 0]
         /\ managed' = [managed EXCEPT ![o] = 0]
         /\ intents' = intents \ {o}

SyncOrder(o) ==
    /\ job.at = "sync" /\ o \in job.todo
    /\ LET next == [job EXCEPT !.todo = @ \ {o}] IN
       \/ /\ ex[o].st = "none" /\ NoFault
          /\ Unknown(o)
          /\ job' = next
       \/ /\ ex[o].st # "none" /\ NoFault
          /\ job' = Settling(o, ex[o],
               IF o \in intents THEN [at |-> "drain", order |-> o, next |-> next]
               ELSE IF Submitting /\ o = plan.target THEN Finishing(next)
               ELSE next)
          /\ UNCHANGED <<active, managed, intents>>
       \/ Fault /\ Ends /\ UNCHANGED <<active, managed, intents>>
    /\ Rest /\ UNCHANGED <<exchange, plan, booked, known, fresh, running>>

\* The adopted or booked order no longer needs its intent.
DeleteIntent ==
    /\ job.at = "drain"
    /\ intents' = intents \ {job.order}
    /\ job' = job.next
    /\ UNCHANGED <<exchange, managed, plan, booked, memory, running, counters>>

SyncEnds ==
    /\ job.at = "sync" /\ job.todo = {}
    /\ known' = pos
    /\ fresh' = (~running \/ intents = {})
    /\ Ends
    /\ UNCHANGED <<exchange, durable, active, running, counters>>

-----------------------------------------------------------------------------
(* Cancel-all, while paused.                                                 *)

MissesTarget == FALSE

\* cancel_remainder_plan: a target that may have been accepted comes first.
TargetFound == Submitting /\ ex[plan.target].st # "none"

CancelPlan ==
    /\ job = Idle /\ ~running /\ plan # None
    /\ IF TargetFound
       THEN CancelAndSettle(plan.target, Finishing(Idle))
       ELSE \/ /\ job' = Finishing(Idle)
               /\ NoFault /\ UNCHANGED <<exchange, fresh>>
            \/ Fault /\ UNCHANGED <<exchange, fresh, job>>
    /\ Rest /\ UNCHANGED <<durable, active, known, running>>

CancelOrder(o) ==
    /\ job = Idle /\ ~running /\ plan = None
    /\ active[o] + managed[o] > 0 /\ ex[o].st # "none"
    /\ CancelAndSettle(o, Idle)
    /\ Rest /\ UNCHANGED <<durable, active, known, running>>

-----------------------------------------------------------------------------
Placed(quantity) == [st |-> "open", left |-> quantity, done |-> 0]
Absent == [st |-> "none", left |-> 0, done |-> 0]

\* Sources of one unit are on the book; a stored intent may have been accepted.
Init ==
    /\ intents \in SUBSET Pairs
    /\ \E left \in SUBSET Sources, sent \in SUBSET intents :
         /\ ex = [o \in Orders |-> IF o \in left \cup sent THEN Placed(1)
                                  ELSE Absent]
         /\ managed = [o \in Orders |-> IF o \in left THEN 1 ELSE 0]
    /\ pos \in Units(Left, Orders)..MaxPos
    /\ plan = None /\ booked = {}
    /\ active = [o \in Orders |-> 0] /\ known = 0 /\ fresh = FALSE
    /\ running = FALSE
    /\ job = Idle
    /\ entries = 0 /\ faults = 0 /\ crashes = 0 /\ pauses = 0

Next ==
    \/ EntryFills \/ Pause \/ Resume \/ Crash
    \/ Settle \/ SettleFails
    \/ Recover \/ SyncPosition \/ Interrupted \/ AdoptTarget \/ Decide \/ Send
    \/ Finish \/ Sync \/ DeleteIntent \/ SyncEnds \/ CancelPlan
    \/ \E t \in Targets : Allocate(t)
    \/ \E g \in Grid : Place(g)
    \/ \E o \in Orders : \/ ExchangeFills(o) \/ CancelSource(o)
                         \/ SyncOrder(o) \/ CancelOrder(o)

Spec == Init /\ [][Next]_vars

-----------------------------------------------------------------------------
TypeOK ==
    /\ ex \in [Orders -> [st : {"none", "open", "ended"}, left : 0..MaxPos,
                          done : 0..MaxPos]]
    /\ pos \in 0..MaxPos
    /\ managed \in [Orders -> 0..MaxPos] /\ active \in [Orders -> 0..MaxPos]
    /\ plan \in {None} \cup [sources : SUBSET (Sources \cup Targets),
                             target : Targets, quantity : 1..Full,
                             phase : {"canceling", "submitting"}]
    /\ intents \subseteq Pairs /\ booked \subseteq Orders
    /\ known \in 0..MaxPos /\ fresh \in BOOLEAN /\ running \in BOOLEAN

\* The bot's closing orders never add up to more than the position: a target
\* replaces its sources and never joins them, whatever fills, is lost or
\* crashes in between, and an execution is never counted on one side only.
ClosesWithinPosition == Units(Left, Orders) <= pos

\* An order the exchange accepted is never forgotten: until it has ended and
\* its executions are booked, a durable record names it.
ClosingRecorded ==
    \A o \in Orders :
      (ex[o].st = "open" \/ (ex[o].done > 0 /\ o \notin booked)) =>
        \/ managed[o] > 0 \/ o \in intents
        \/ plan # None /\ o = plan.target

\* Both (remainder.rs, execute_remainder_plan and settle_remainder_order).
ClosingHolds == ClosesWithinPosition /\ ClosingRecorded
=============================================================================
