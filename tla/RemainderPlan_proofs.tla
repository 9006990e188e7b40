------------------------- MODULE RemainderPlan_proofs -------------------------
(***************************************************************************)
(* Proofs about RemainderPlan for any number of orders, any quantities and  *)
(* any bounds: the types, and that closing orders stay within the position  *)
(* and on record.                                                           *)
(*                                                                          *)
(* Neither property is inductive.  That a new order fits follows from what  *)
(* memory believes, so the invariant says what memory may believe at every  *)
(* await of every workflow: what each order reserves (CoverInv), how much    *)
(* of the position is free (SlackInv), and what an answer that is not yet    *)
(* applied may have missed (ExInv).                                          *)
(***************************************************************************)
EXTENDS RemainderPlan, SumTheorems

-----------------------------------------------------------------------------
(* The engine's work.  What it stands on is the reconciliation or the plan it *)
(* goes on with once the order in hand is settled.                           *)

Syncs == [at : {"sync"}, todo : SUBSET Orders]
Cancels == [at : {"cancel"}, todo : SUBSET Orders]
Finishes == [at : {"finish"}, next : {Idle} \cup Syncs]
Drains == [at : {"drain"}, order : Pairs, next : Syncs]
Nexts == {Idle} \cup Syncs \cup Cancels \cup Finishes \cup Drains
Answers == [st : {"open", "ended"}, left : 0..MaxPos, done : 0..MaxPos]
Settlements == [at : {"settle"}, order : Orders, seen : Answers, next : Nexts]
PlanSteps == [at : {"adopt", "decide", "send"}]
Jobs == Nexts \cup Settlements \cup PlanSteps

Beneath(j) == IF j.at \in {"finish", "drain"} THEN j.next ELSE j
After(j) == IF j.at = "settle" THEN j.next ELSE j
Base == Beneath(After(job))
Syncing == Base.at = "sync"

\* An execution is in the history, or the order is saved.
Kept(o) ==
    ex[o].st = "open" \/ (ex[o].done > 0 /\ o \notin booked) => managed[o] > 0

JobInv ==
    /\ job \in Jobs
    /\ Base.at = "cancel" => fresh /\ plan # None /\ plan.phase = "canceling"
    /\ job.at \in {"adopt", "decide", "send"} =>
         fresh /\ plan # None /\ plan.phase = "submitting"
    /\ Syncing => ~fresh
    /\ After(job).at = "finish" => plan # None
    /\ job.at = "finish" => Kept(plan.target)
    /\ job.at = "drain" => Kept(job.order)
    /\ job.at = "settle" /\ job.next.at = "finish" => job.order = plan.target
    /\ job.at = "settle" /\ job.next.at = "drain" => job.next.order = job.order

\* What an order is on the exchange; one that was seen has moved on since only
\* by executions.
ExInv ==
    /\ \A o \in Orders :
         /\ ex[o].left + ex[o].done <= MaxPos
         /\ ex[o].st = "open" => ex[o].left > 0
         /\ ex[o].st = "none" => ex[o].left = 0 /\ ex[o].done = 0
    /\ \A p \in Pairs : ex[p].st = "none" => active[p] = 0 /\ managed[p] = 0
    /\ job.at = "settle" =>
         LET e == ex[job.order] IN
         \/ e = job.seen
         \/ /\ job.seen.st = "open" /\ e.st # "none"
            /\ e.done > job.seen.done /\ e.left < job.seen.left

\* What an order reserves once the settlement in hand is done.
Reserves ==
    [o \in Orders |->
       IF job.at = "settle" /\ o = job.order
       THEN IF job.seen.st = "ended" THEN 0 ELSE job.seen.left
       ELSE active[o]]

\* An order reserves at least what is left of it, and just that while nothing of
\* it was executed.
Covered(o) ==
    /\ Left[o] <= Reserves[o]
    /\ ex[o].done = 0 => Reserves[o] = Left[o]

\* Memory is reconciled, or a reconciliation is on the way and has come so far.
CoverInv ==
    /\ fresh => \A o \in Orders : Covered(o)
    /\ Syncing => \A o \in Orders \ Base.todo : Covered(o)

\* What memory believes is free is free on the exchange; a settlement that
\* applies an execution reads the position again.
SlackInv ==
    fresh /\ ~(job.at = "settle" /\ job.seen.done > 0) =>
        known + Units(Left, Orders) <= pos + Units(Reserves, Orders)

\* A target is sent once, under its saved identity, and fits.
PlanInv ==
    /\ plan # None /\ plan.phase = "canceling" => ex[plan.target].st = "none"
    /\ job.at \in {"decide", "send"} => ex[plan.target].st = "none"
    /\ job.at = "send" => plan.quantity <= known - Units(active, Orders)

IInv ==
    /\ TypeOK /\ JobInv /\ ExInv /\ CoverInv /\ SlackInv /\ PlanInv
    /\ ClosesWithinPosition /\ ClosingRecorded
-----------------------------------------------------------------------------
(* Sums over the orders.                                                    *)

\* The orders of the model are finitely many.
LEMMA OrdersFinite == IsFiniteSet(Orders)
BY PlanAssumption DEF Orders

\* A sum over all orders is one of the sums the theorems are about.
LEMMA UnitsTotal ==
  ASSUME NEW f
  PROVE  Units(f, Orders) = Total(f, Orders)
BY DEF Units, Total

\* What the orders add up to.
LEMMA UnitsNat ==
  ASSUME NEW f, \A o \in Orders : f[o] \in Nat
  PROVE  Units(f, Orders) \in Nat
BY OrdersFinite, UnitsTotal, TotalNat

\* Only the values on the orders count.
LEMMA UnitsSame ==
  ASSUME NEW f, NEW g, \A o \in Orders : f[o] \in Nat /\ g[o] = f[o]
  PROVE  Units(g, Orders) = Units(f, Orders)
<1>1. \A o \in Orders : f[o] \in Int /\ g[o] = f[o]
  OBVIOUS
<1> QED
  BY <1>1, OrdersFinite, UnitsTotal, TotalSame

\* More for each is more for all.
LEMMA UnitsGrow ==
  ASSUME NEW f, NEW g,
         \A o \in Orders : f[o] \in Nat /\ g[o] \in Nat /\ f[o] <= g[o]
  PROVE  Units(f, Orders) <= Units(g, Orders)
<1>1. \A o \in Orders : f[o] \in Int /\ g[o] \in Int /\ f[o] <= g[o]
  OBVIOUS
<1> QED
  BY <1>1, OrdersFinite, UnitsTotal, TotalGrows

\* A change of one order changes the sum by as much.
LEMMA UnitsChange ==
  ASSUME NEW f, NEW g, NEW o \in Orders,
         \A q \in Orders : f[q] \in Nat /\ g[q] \in Nat,
         \A q \in Orders \ {o} : g[q] = f[q]
  PROVE  Units(g, Orders) = Units(f, Orders) - f[o] + g[o]
<1>1. \A q \in Orders : f[q] \in Int /\ g[q] \in Int
  OBVIOUS
<1>2. Total(g, Orders) = Total(f, Orders) - f[o] + g[o]
  BY <1>1, OrdersFinite, TotalChanges
<1> QED
  BY <1>2, UnitsTotal

\* No order has more than all of them.
LEMMA UnitsMember ==
  ASSUME NEW f, NEW o \in Orders, \A q \in Orders : f[q] \in Nat
  PROVE  f[o] <= Units(f, Orders)
<1>1. \A q \in Orders : f[q] \in Int
  OBVIOUS
<1>2. Total(f, Orders) = f[o] + Total(f, Orders \ {o})
  BY <1>1, OrdersFinite, TotalTakes
<1>3. Total(f, Orders \ {o}) \in Nat
  BY OrdersFinite, FS_RemoveElement, TotalNat
<1> QED
  BY <1>2, <1>3, UnitsTotal

\* The largest of three.
LEMMA MaxOfThree ==
  ASSUME NEW a \in Nat, NEW b \in Nat, NEW c \in Nat
  PROVE  /\ Max({a, b, c}) \in {a, b, c}
         /\ a <= Max({a, b, c}) /\ b <= Max({a, b, c}) /\ c <= Max({a, b, c})
<1>1. \E x \in {a, b, c} : \A y \in {a, b, c} : x >= y
  OBVIOUS
<1> QED
  BY <1>1 DEF Max

\* The largest of two.
LEMMA MaxOfTwo ==
  ASSUME NEW a \in Nat, NEW b \in Nat
  PROVE  /\ Max({a, b}) \in {a, b}
         /\ a <= Max({a, b}) /\ b <= Max({a, b})
<1>1. \E x \in {a, b} : \A y \in {a, b} : x >= y
  OBVIOUS
<1> QED
  BY <1>1 DEF Max

\* The smallest of two.
LEMMA MinOfTwo ==
  ASSUME NEW a \in Int, NEW b \in Int
  PROVE  Min({a, b}) \in {a, b} /\ Min({a, b}) <= a /\ Min({a, b}) <= b
<1>1. \E x \in {a, b} : \A y \in {a, b} : x <= y
  OBVIOUS
<1> QED
  BY <1>1 DEF Min

-----------------------------------------------------------------------------
(* The engine's work.                                                       *)

\* The kind of work tells which record it is.
LEMMA JobKinds ==
  ASSUME NEW j \in Jobs
  PROVE  /\ j.at \in {"idle", "sync", "cancel", "finish", "drain", "settle",
                      "adopt", "decide", "send"}
         /\ j.at = "idle" => j = Idle
         /\ j.at = "sync" => j \in Syncs
         /\ j.at = "cancel" => j \in Cancels
         /\ j.at = "finish" => j \in Finishes
         /\ j.at = "drain" => j \in Drains
         /\ j.at = "settle" => j \in Settlements
         /\ j.at # "settle" => After(j) = j
         /\ j.at \notin {"settle", "finish", "drain"} => Beneath(After(j)) = j
BY DEF Jobs, Nexts, Syncs, Cancels, Finishes, Drains, Settlements, PlanSteps,
       Idle, After, Beneath

\* What follows a settlement is no settlement itself.
LEMMA NextKinds ==
  ASSUME NEW n \in Nexts
  PROVE  n \in Jobs /\ n.at # "settle" /\ After(n) = n
BY DEF Jobs, Nexts, Syncs, Cancels, Finishes, Drains, Idle, After

\* Settling an order is work, and stands on what follows.
LEMMA SettlingForm ==
  ASSUME NEW o \in Orders, NEW seen \in Answers, NEW n \in Nexts
  PROVE  LET j == Settling(o, seen, n)
         IN  /\ j \in Settlements /\ j \in Jobs
             /\ j.at = "settle" /\ j.order = o /\ j.seen = seen /\ j.next = n
             /\ After(j) = n
BY DEF Settling, Settlements, Jobs, After

\* What an order is seen as, once it was on the exchange.
LEMMA AnswerForm ==
  ASSUME NEW e \in [st : {"none", "open", "ended"}, left : 0..MaxPos,
                    done : 0..MaxPos], e.st # "none"
  PROVE  e \in Answers
BY DEF Answers

\* An order goes from the list of a cancellation or a reconciliation.
LEMMA TodoForm ==
  ASSUME NEW j \in Syncs \cup Cancels, NEW o
  PROVE  LET k == [j EXCEPT !.todo = @ \ {o}]
         IN  /\ k.at = j.at /\ k.todo = j.todo \ {o}
             /\ j \in Syncs => k \in Syncs
             /\ j \in Cancels => k \in Cancels
<1>1. j = [at |-> j.at, todo |-> j.todo] /\ j.todo \subseteq Orders
  BY DEF Syncs, Cancels
<1>2. [j EXCEPT !.todo = @ \ {o}] = [at |-> j.at, todo |-> j.todo \ {o}]
  BY <1>1
<1>3. j.todo \ {o} \subseteq Orders
  BY <1>1
<1> QED
  BY <1>2, <1>3 DEF Syncs, Cancels

\* The completion of a plan, or of an intent, goes back to what it came from.
LEMMA FinishingForm ==
  ASSUME NEW n \in {Idle} \cup Syncs
  PROVE  LET j == Finishing(n)
         IN  /\ j \in Finishes /\ j.at = "finish" /\ j.next = n
             /\ Beneath(j) = n /\ j \in Nexts
             /\ n \in Nexts /\ Beneath(n) = n
BY DEF Finishing, Finishes, Nexts, Beneath, Idle, Syncs

\* The lists of a reconciliation and of a cancellation.
LEMMA ListForm ==
  ASSUME NEW S \in SUBSET Orders
  PROVE  /\ [at |-> "sync", todo |-> S] \in Syncs
         /\ [at |-> "cancel", todo |-> S] \in Cancels
BY DEF Syncs, Cancels

\* An intent that is dropped next.
LEMMA DrainForm ==
  ASSUME NEW p \in Pairs, NEW n \in Syncs
  PROVE  LET j == [at |-> "drain", order |-> p, next |-> n]
         IN  /\ j \in Drains /\ j \in Nexts /\ j.at = "drain"
             /\ j.order = p /\ j.next = n /\ Beneath(j) = n
             /\ n \in Nexts /\ Beneath(n) = n
BY DEF Drains, Nexts, Syncs, Beneath

-----------------------------------------------------------------------------
(* Types.                                                                   *)

States == [st : {"none", "open", "ended"}, left : 0..MaxPos, done : 0..MaxPos]
Plans == [sources : SUBSET (Sources \cup Targets), target : Targets,
          quantity : 1..Full, phase : {"canceling", "submitting"}]

\* The parts of the type invariant.
LEMMA Typed ==
  ASSUME TypeOK
  PROVE  /\ ex \in [Orders -> States] /\ pos \in 0..MaxPos
         /\ managed \in [Orders -> 0..MaxPos] /\ active \in [Orders -> 0..MaxPos]
         /\ plan = None \/ plan \in Plans
         /\ plan # None => plan \in Plans
         /\ intents \subseteq Pairs /\ booked \subseteq Orders
         /\ known \in 0..MaxPos /\ fresh \in BOOLEAN /\ running \in BOOLEAN
         /\ MaxPos \in Nat \ {0} /\ Full \in Nat \ {0}
BY PlanAssumption DEF TypeOK, States, Plans

\* What orders have left and reserve are numbers.
LEMMA Numbers ==
  ASSUME TypeOK, job \in Jobs
  PROVE  /\ \A o \in Orders : /\ ex[o] \in States /\ ex[o].left \in Nat
                              /\ ex[o].done \in Nat
                              /\ Left[o] \in Nat /\ active[o] \in Nat
                              /\ managed[o] \in Nat /\ Reserves[o] \in Nat
         /\ Units(Left, Orders) \in Nat /\ Units(active, Orders) \in Nat
         /\ Units(Reserves, Orders) \in Nat
<1>1. \A o \in Orders : /\ ex[o] \in States /\ ex[o].left \in Nat
                        /\ ex[o].done \in Nat /\ active[o] \in Nat
                        /\ managed[o] \in Nat
  BY Typed DEF States
<1>2. \A o \in Orders : Left[o] \in Nat
  BY <1>1 DEF Left
<1>3. job.at = "settle" => job.seen.left \in Nat
  BY JobKinds, PlanAssumption DEF Settlements, Answers
<1>4. \A o \in Orders : Reserves[o] \in Nat
  BY <1>1, <1>3 DEF Reserves
<1> QED
  BY <1>1, <1>2, <1>4, UnitsNat

\* The initial states.
LEMMA InitTyped ==
  ASSUME Init
  PROVE  TypeOK
<1>1. PICK left \in SUBSET Sources, sent \in SUBSET intents :
        /\ ex = [o \in Orders |-> IF o \in left \cup sent THEN Placed(1)
                                  ELSE Absent]
        /\ managed = [o \in Orders |-> IF o \in left THEN 1 ELSE 0]
  BY DEF Init
<1>2. Placed(1) \in States /\ Absent \in States
  BY PlanAssumption DEF Placed, Absent, States
<1>3. ex \in [Orders -> States]
  BY <1>1, <1>2
<1>4. \A o \in Orders : Left[o] \in Nat
  BY <1>3, PlanAssumption DEF Left, States
<1>5. Units(Left, Orders) \in Nat
  BY <1>4, UnitsNat
<1>6. pos \in 0..MaxPos
  BY <1>5, PlanAssumption DEF Init
<1>7. managed \in [Orders -> 0..MaxPos] /\ active \in [Orders -> 0..MaxPos]
  BY <1>1, PlanAssumption DEF Init
<1>8. /\ plan = None /\ intents \in SUBSET Pairs /\ booked = {}
      /\ known = 0 /\ fresh = FALSE /\ running = FALSE
  BY DEF Init
<1>9. 0 \in 0..MaxPos
  BY PlanAssumption
<1> QED
  BY <1>3, <1>6, <1>7, <1>8, <1>9 DEF TypeOK, States

\* The initial states satisfy the invariant.
LEMMA InitHolds ==
  ASSUME Init
  PROVE  IInv
<1>0. PICK left \in SUBSET Sources, sent \in SUBSET intents :
        /\ ex = [o \in Orders |-> IF o \in left \cup sent THEN Placed(1)
                                  ELSE Absent]
        /\ managed = [o \in Orders |-> IF o \in left THEN 1 ELSE 0]
  BY DEF Init
<1>1. TypeOK
  BY InitTyped
<1>2. /\ job = Idle /\ job \in Jobs /\ job.at = "idle" /\ Base = Idle
      /\ After(job) = Idle /\ Base.at = "idle"
  BY DEF Init, Idle, Jobs, Nexts, Base, Beneath, After
<1>3. JobInv
  BY <1>2 DEF Init, JobInv, Syncing
<1>4. ExInv
  <2>1. \A o \in Orders : ex[o] = Placed(1) \/ ex[o] = Absent
    BY <1>0
  <2>2. \A p \in Pairs : ex[p].st = "none" => active[p] = 0 /\ managed[p] = 0
    BY <1>0, PlanAssumption DEF Init, Orders, Placed, Absent
  <2> QED
    BY <1>2, <2>1, <2>2, PlanAssumption DEF ExInv, Placed, Absent
<1>5. CoverInv /\ SlackInv
  BY <1>2 DEF Init, CoverInv, SlackInv, Syncing
<1>6. PlanInv
  BY <1>2 DEF Init, PlanInv
<1>7. ClosesWithinPosition
  BY <1>1, <1>2, Numbers, PlanAssumption DEF Init, ClosesWithinPosition
<1>8. ClosingRecorded
  BY <1>0, PlanAssumption DEF Init, ClosingRecorded, Orders, Placed, Absent
<1> QED
  BY <1>1, <1>3, <1>4, <1>5, <1>6, <1>7, <1>8 DEF IInv

-----------------------------------------------------------------------------
(* What the steps do.                                                       *)

\* What the engine's work carries, and what a plan's work stands on.
LEMMA Current ==
  ASSUME IInv
  PROVE  /\ job \in Jobs
         /\ job.at = "settle" =>
              /\ job \in Settlements /\ job.order \in Orders
              /\ job.seen \in Answers /\ job.next \in Nexts
              /\ job.seen.left \in 0..MaxPos /\ job.seen.done \in 0..MaxPos
              /\ job.seen.st \in {"open", "ended"}
         /\ job.at \in {"cancel", "adopt", "decide", "send"} =>
              fresh /\ plan # None /\ plan \in Plans
         /\ job.at = "finish" => plan # None /\ plan \in Plans
         /\ plan # None => /\ plan \in Plans /\ plan.target \in Orders
                           /\ plan.target \notin Pairs
                           /\ plan.sources \subseteq Orders
<1>1. TypeOK /\ job \in Jobs
  BY DEF IInv, JobInv
<1>2. plan # None => plan \in Plans
  BY <1>1, Typed
<1>3. job.at = "settle" =>
        /\ job \in Settlements /\ job.order \in Orders
        /\ job.seen \in Answers /\ job.next \in Nexts
        /\ job.seen.left \in 0..MaxPos /\ job.seen.done \in 0..MaxPos
        /\ job.seen.st \in {"open", "ended"}
  BY <1>1, JobKinds DEF Settlements, Answers
<1>4. job.at \in {"cancel", "adopt", "decide", "send"} => fresh /\ plan # None
  BY <1>1, JobKinds DEF IInv, JobInv, Base
<1>5. job.at = "finish" => plan # None
  BY <1>1, JobKinds DEF IInv, JobInv
<1>6. plan # None => /\ plan.target \in Orders /\ plan.target \notin Pairs
                     /\ plan.sources \subseteq Orders
  BY <1>2, PlanAssumption DEF Plans, Orders
<1> QED
  BY <1>1, <1>2, <1>3, <1>4, <1>5, <1>6

\* A cancellation ends the order or fails; what was filled stays.
LEMMA CancelEffect ==
  ASSUME TypeOK, NEW o \in Orders, NEW n, CancelAndSettle(o, n)
  PROVE  /\ pos' = pos /\ ex' \in [Orders -> States]
         /\ \A q \in Orders : q # o => ex'[q] = ex[q]
         /\ ex'[o].left = ex[o].left /\ ex'[o].done = ex[o].done
         /\ \/ ex'[o].st = ex[o].st
            \/ ex[o].st = "open" /\ ex'[o].st = "ended"
         /\ \/ fresh' = FALSE /\ job' = Idle
            \/ /\ fresh' = fresh /\ ex'[o].st = "ended" /\ ex'[o] \in Answers
               /\ job' = Settling(o, ex'[o], n)
<1>1. ex \in [Orders -> States] /\ ex[o] \in States
  BY Typed
<1>2. /\ Cancelled(o) \in [Orders -> States]
      /\ \A q \in Orders : q # o => Cancelled(o)[q] = ex[q]
      /\ Cancelled(o)[o].left = ex[o].left
      /\ Cancelled(o)[o].done = ex[o].done
      /\ Cancelled(o)[o].st = "ended"
  <2>1. [ex[o] EXCEPT !.st = "ended"] \in States
    BY <1>1 DEF States
  <2>2. Cancelled(o) = [ex EXCEPT ![o] = [ex[o] EXCEPT !.st = "ended"]]
    BY <1>1 DEF Cancelled
  <2>3. /\ [ex[o] EXCEPT !.st = "ended"].left = ex[o].left
        /\ [ex[o] EXCEPT !.st = "ended"].done = ex[o].done
        /\ [ex[o] EXCEPT !.st = "ended"].st = "ended"
    BY <1>1 DEF States
  <2> QED
    BY <1>1, <2>1, <2>2, <2>3
<1>3. ASSUME ex' = Cancelled(o), ex[o].st = "open"
      PROVE  /\ ex' \in [Orders -> States] /\ ex'[o].st = "ended"
             /\ \A q \in Orders : q # o => ex'[q] = ex[q]
             /\ ex'[o].left = ex[o].left /\ ex'[o].done = ex[o].done
             /\ ex'[o] \in Answers
  BY <1>2, <1>3, AnswerForm DEF States
<1>4. CASE ex[o].st = "open" /\ ex' = Cancelled(o) /\ fresh' = fresh
             /\ job' = Settling(o, ex'[o], n)
  BY <1>3, <1>4 DEF CancelAndSettle
<1>5. CASE ex[o].st = "ended" /\ ex' = ex /\ fresh' = fresh
             /\ job' = Settling(o, ex[o], n)
  BY <1>1, <1>5, AnswerForm DEF CancelAndSettle, States
<1>6. CASE fresh' = FALSE /\ job' = Idle
             /\ ex' \in {ex, IF ex[o].st = "open" THEN Cancelled(o) ELSE ex}
  BY <1>1, <1>3, <1>6 DEF CancelAndSettle
<1> QED
  BY <1>4, <1>5, <1>6 DEF CancelAndSettle, Ends

\* An order that is accepted is open, with all of it left.
LEMMA AcceptedForm ==
  ASSUME TypeOK, NEW o \in Orders, NEW q \in 1..MaxPos
  PROVE  /\ Accepted(o, q) \in [Orders -> States]
         /\ \A p \in Orders : p # o => Accepted(o, q)[p] = ex[p]
         /\ Accepted(o, q)[o] = [st |-> "open", left |-> q, done |-> 0]
         /\ Accepted(o, q)[o] \in Answers
<1>1. ex \in [Orders -> States]
  BY Typed
<1>2. [st |-> "open", left |-> q, done |-> 0] \in States
  BY PlanAssumption DEF States
<1>3. [st |-> "open", left |-> q, done |-> 0] \in Answers
  BY PlanAssumption DEF Answers
<1> QED
  BY <1>1, <1>2, <1>3 DEF Accepted

-----------------------------------------------------------------------------
(* Each part of the invariant is kept.                                      *)

\* A step that leaves the records of orders and plan alone keeps the types.
LEMMA TypeFrame ==
  ASSUME TypeOK, UNCHANGED <<managed, plan, intents, booked>>,
         ex' \in [Orders -> States], active' \in [Orders -> 0..MaxPos],
         pos' \in 0..MaxPos, known' \in 0..MaxPos, fresh' \in BOOLEAN,
         running' \in BOOLEAN
  PROVE  TypeOK'
BY DEF TypeOK, States

\* What Next may do, one disjunct per action.
LEMMA NextCases ==
  ASSUME Next
  PROVE  \/ EntryFills \/ Pause \/ Resume \/ Crash \/ Settle \/ SettleFails
         \/ Recover \/ SyncPosition \/ Interrupted \/ AdoptTarget \/ Decide
         \/ Send \/ Finish \/ Sync \/ DeleteIntent \/ SyncEnds \/ CancelPlan
         \/ \E t \in Targets : Allocate(t)
         \/ \E g \in Grid : Place(g)
         \/ \E o \in Orders : ExchangeFills(o)
         \/ \E s \in Orders : CancelSource(s)
         \/ \E o \in Orders : SyncOrder(o)
         \/ \E o \in Orders : CancelOrder(o)
BY DEF Next

\* What some orders reserve is a number, whichever they are; all of it is what
\* those reserve that reserve anything.
LEMMA ReservingNat ==
  ASSUME TypeOK
  PROVE  /\ \A S \in SUBSET Orders : Units(active, S) \in Nat
         /\ \A S \in SUBSET Reserving : S \in SUBSET Orders
         /\ Units(active, Reserving) = Units(active, Orders)
<1>1. \A o \in Orders : active[o] \in Nat
  BY Typed
<1>2. ASSUME NEW S \in SUBSET Orders PROVE Units(active, S) \in Nat
  <2>1. IsFiniteSet(S)
    BY OrdersFinite, FS_Subset
  <2>2. Total(active, S) \in Nat
    BY <1>1, <2>1, TotalNat
  <2> QED
    BY <2>2 DEF Units, Total
<1>3. Reserving \subseteq Orders
  BY DEF Reserving
<1>4. Total(active, Reserving) = Total(active, Orders)
  BY <1>1, <1>3, OrdersFinite, TotalSupport DEF Reserving
<1> QED
  BY <1>2, <1>3, <1>4 DEF Units, Total

\* A full order that is placed fits the position.
LEMMA FullFits ==
  ASSUME TypeOK, Available(Reserving) >= Full
  PROVE  Full \in 1..MaxPos
<1>1. Units(active, Reserving) \in Nat
  BY ReservingNat
<1> QED
  BY <1>1, Typed DEF Available

\* So does a target that is sent.
LEMMA SendFits ==
  ASSUME IInv, job.at = "send"
  PROVE  plan.quantity \in 1..MaxPos
<1>1. TypeOK /\ plan.quantity <= known - Units(active, Orders)
  BY DEF IInv, PlanInv
<1>2. Units(active, Orders) \in Nat
  BY <1>1, ReservingNat
<1>3. plan.quantity \in 1..Full
  BY Current DEF Plans
<1> QED
  BY <1>1, <1>2, <1>3, Typed

\* Types.
LEMMA TypeKept ==
  ASSUME IInv, Next
  PROVE  TypeOK'
<1> USE DEF States
<1>0. TypeOK /\ job \in Jobs
  BY DEF IInv, JobInv
<1> USE <1>0, Typed
<1>1. CASE EntryFills
  BY <1>1 DEF EntryFills, TypeOK, durable, memory
<1>2. CASE Pause
  BY <1>2 DEF Pause, TypeOK, exchange, durable, memory
<1>3. CASE Resume
  BY <1>3 DEF Resume, TypeOK, exchange, durable, memory
<1>4. CASE Crash
  <2>1. active' \in [Orders -> 0..MaxPos] /\ known' \in 0..MaxPos
    BY <1>4, PlanAssumption DEF Crash
  <2> QED
    BY <1>4, <2>1, TypeFrame DEF Crash, exchange, durable
<1>5. CASE Settle
  BY <1>5, Current DEF Settle, Adopts, PositionAfter, TypeOK, exchange
<1>6. CASE SettleFails
  <2> DEFINE o == job.order
             kept == Max({active[o], job.seen.left, 1})
  <2>1. o \in Orders /\ active[o] \in 0..MaxPos /\ job.seen.left \in 0..MaxPos
    BY <1>6, Current DEF SettleFails
  <2>2. kept \in 0..MaxPos
    <3>1. active[o] \in Nat /\ job.seen.left \in Nat /\ 1 \in 0..MaxPos
      BY <2>1
    <3>2. kept \in {active[o], job.seen.left, 1}
      BY <3>1, MaxOfThree
    <3> QED
      BY <2>1, <3>1, <3>2
  <2>3. /\ active' = [active EXCEPT ![o] = kept]
        /\ \/ managed' = [managed EXCEPT ![o] = kept]
           \/ managed' = managed
    BY <1>6 DEF SettleFails
  <2> HIDE DEF kept
  <2>4. /\ active' \in [Orders -> 0..MaxPos]
        /\ managed' \in [Orders -> 0..MaxPos]
    BY <2>1, <2>2, <2>3 DEF TypeOK
  <2>5. /\ running' \in BOOLEAN /\ fresh' \in BOOLEAN
        /\ UNCHANGED <<exchange, plan, intents, booked, known>>
    BY <1>6 DEF SettleFails, TypeOK
  <2> HIDE DEF o
  <2> QED
    BY <2>4, <2>5 DEF TypeOK, exchange
<1>7. CASE Recover
  BY <1>7 DEF Recover, TypeOK, exchange, durable, memory
<1>8. CASE SyncPosition
  BY <1>8, Current DEF SyncPosition, SourcesEnded, TypeOK, Plans, exchange
<1>9. CASE Interrupted
  BY <1>9 DEF Interrupted, TypeOK, exchange, durable, memory
<1>10. CASE AdoptTarget
  BY <1>10 DEF AdoptTarget, TypeOK, exchange, durable
<1>11. CASE Decide
  <2>1. Available(Reserving) \in Int /\ plan \in Plans
    <3>1. Units(active, Reserving) \in Nat
      BY Numbers, ReservingNat
    <3> QED
      BY <1>11, <3>1, Current DEF Decide, Available
  <2>2. Quantity \in Int /\ Quantity <= plan.quantity
    <3>1. plan.quantity \in Int
      BY <2>1 DEF Plans
    <3> QED
      BY <2>1, <3>1, MinOfTwo DEF Quantity
  <2>3. ASSUME Quantity > 0, plan' = [plan EXCEPT !.quantity = Quantity]
        PROVE  plan' \in Plans
    <3>1. Quantity \in 1..Full
      BY <2>1, <2>2, <2>3 DEF Plans
    <3> QED
      BY <2>1, <2>3, <3>1 DEF Plans
  <2>4. plan' = None \/ plan' \in Plans
    BY <1>11, <2>1, <2>3 DEF Decide
  <2> QED
    BY <1>11, <2>4 DEF Decide, TypeOK, Plans, exchange, memory
<1>12. CASE Send
  <2>1. plan \in Plans /\ plan.target \in Orders
    BY <1>12, Current DEF Send
  <2>2. plan.quantity \in 1..MaxPos
    BY <1>12, SendFits DEF Send
  <2>3. ex' = ex \/ ex' = Accepted(plan.target, plan.quantity)
    BY <1>12 DEF Send
  <2>4. ex' \in [Orders -> States]
    <3>1. Accepted(plan.target, plan.quantity) \in [Orders -> States]
      BY <2>1, <2>2, AcceptedForm
    <3> QED
      BY <2>3, <3>1
  <2>5. fresh' \in BOOLEAN
    BY <1>12 DEF Send
  <2> QED
    BY <1>12, <2>4, <2>5, TypeFrame DEF Send, durable
<1>13. CASE Finish
  BY <1>13 DEF Finish, TypeOK, exchange, memory
<1>14. CASE Sync
  <2>1. \A o \in Orders : Max({active[o], managed[o]}) \in 0..MaxPos
    BY MaxOfTwo
  <2>2. active' \in [Orders -> 0..MaxPos]
    BY <1>14, <2>1 DEF Sync
  <2> QED
    BY <1>14, <2>2, TypeFrame DEF Sync, exchange, durable
<1>15. CASE DeleteIntent
  BY <1>15 DEF DeleteIntent, TypeOK, exchange, memory
<1>16. CASE SyncEnds
  BY <1>16 DEF SyncEnds, TypeOK, exchange, durable
<1>17. CASE CancelPlan
  BY <1>17, Current, CancelEffect DEF CancelPlan, TypeOK, exchange, durable
<1>18. ASSUME NEW t \in Targets, Allocate(t) PROVE TypeOK'
  <2> DEFINE from == Reserving \cap (Sources \cup Targets)
             quantity == Min({Full, Available(Reserving \ from)})
  <2>1. Available(Reserving \ from) \in Int
    <3>1. Reserving \ from \in SUBSET Orders
      BY DEF Reserving
    <3>2. Units(active, Reserving \ from) \in Nat
      BY <3>1, ReservingNat
    <3> QED
      BY <3>2 DEF Available
  <2>2. quantity \in Int /\ quantity <= Full
    <3>1. Full \in Int
      OBVIOUS
    <3> HIDE DEF from
    <3> QED
      BY <2>1, <3>1, MinOfTwo
  <2>3. quantity > 0 /\ plan' = [sources |-> from, target |-> t,
                                quantity |-> quantity, phase |-> "canceling"]
    BY <1>18 DEF Allocate
  <2>4. quantity \in 1..Full
    BY <2>2, <2>3
  <2>5. plan' \in Plans
    BY <2>3, <2>4 DEF Plans
  <2> QED
    BY <1>18, <2>5 DEF Allocate, TypeOK, Plans, exchange, memory
<1>19. ASSUME NEW g \in Grid, Place(g) PROVE TypeOK'
  <2>1. g \in Orders
    BY DEF Orders
  <2>2. Full \in 1..MaxPos
    BY <1>19, FullFits DEF Place
  <2>3. ex' \in [Orders -> States] /\ fresh' \in BOOLEAN
    <3>1. ex' = ex \/ ex' = Accepted(g, Full)
      BY <1>19 DEF Place
    <3>2. fresh' = fresh \/ fresh' = FALSE
      BY <1>19 DEF Place
    <3>3. Accepted(g, Full) \in [Orders -> States]
      BY <2>1, <2>2, AcceptedForm
    <3> QED
      BY <3>1, <3>2, <3>3
  <2>4. /\ managed' \in [Orders -> 0..MaxPos]
        /\ active' \in [Orders -> 0..MaxPos]
    BY <1>19, <2>1, <2>2 DEF Place
  <2> QED
    BY <1>19, <2>3, <2>4 DEF Place, TypeOK
<1>20. ASSUME NEW o \in Orders, ExchangeFills(o) PROVE TypeOK'
  BY <1>20 DEF ExchangeFills, TypeOK, durable, memory
<1>21. ASSUME NEW s \in Orders, CancelSource(s) PROVE TypeOK'
  BY <1>21, CancelEffect DEF CancelSource, TypeOK, durable
<1>22. ASSUME NEW o \in Orders, SyncOrder(o) PROVE TypeOK'
  BY <1>22 DEF SyncOrder, Unknown, TypeOK, exchange
<1>23. ASSUME NEW o \in Orders, CancelOrder(o) PROVE TypeOK'
  BY <1>23, CancelEffect DEF CancelOrder, TypeOK, durable
<1> QED
  BY <1>1, <1>2, <1>3, <1>4, <1>5, <1>6, <1>7, <1>8, <1>9, <1>10, <1>11,
     <1>12, <1>13, <1>14, <1>15, <1>16, <1>17, <1>18, <1>19, <1>20, <1>21,
     <1>22, <1>23, NextCases

\* The engine that has nothing to do is well formed.
LEMMA JobIdle ==
  ASSUME job' = Idle
  PROVE  JobInv'
<1>1. /\ job' \in Jobs /\ job'.at = "idle" /\ Base' = Idle /\ Idle.at = "idle"
      /\ After(job)' = Idle
  BY DEF Idle, Jobs, Nexts, Base, Beneath, After
<1> QED
  BY <1>1 DEF JobInv, Syncing

\* So is one that goes on with what it did, when neither the plan nor a record
\* on which it stands is disturbed.
LEMMA JobSame ==
  ASSUME JobInv, UNCHANGED <<job, plan, fresh>>,
         \A o \in Orders : Kept(o) => Kept(o)', TypeOK
  PROVE  JobInv'
<1>1. /\ job' \in Jobs /\ Base' = Base /\ After(job)' = After(job)
      /\ Syncing' = Syncing
  BY DEF JobInv, Base, After, Beneath, Syncing
<1>2. job.at = "finish" => plan.target \in Orders
  BY Typed, JobKinds DEF JobInv, Plans, Orders
<1>3. job.at = "drain" => job.order \in Orders
  BY JobKinds DEF JobInv, Drains, Orders
<1> QED
  BY <1>1, <1>2, <1>3 DEF JobInv

\* A settled order is in the history, or saved.
LEMMA SettleKeeps ==
  ASSUME IInv, Settle, NEW o \in Orders, o = job.order
  PROVE  Kept(o)'
<1>1. TypeOK /\ job \in Jobs /\ ExInv
  BY DEF IInv, JobInv
<1>2. job.at = "settle" /\ ex' = ex
  BY DEF Settle, exchange
<1>3. /\ job.seen.st \in {"open", "ended"}
      /\ job.seen.left \in Nat /\ job.seen.done \in Nat
      /\ ex[o].left \in Nat /\ ex[o].done \in Nat /\ managed \in [Orders -> 0..MaxPos]
  BY <1>1, <1>2, Current, Numbers, Typed
<1>4. CASE job.seen.st = "ended"
  <2>1. ex[o] = job.seen
    BY <1>1, <1>2, <1>4 DEF ExInv
  <2>2. booked' = IF job.seen.done > 0 THEN booked \cup {o} ELSE booked
    BY <1>4 DEF Settle
  <2> QED
    BY <1>2, <1>3, <1>4, <2>1, <2>2 DEF Kept
<1>5. CASE job.seen.st = "open"
  <2>1. job.seen.left > 0
    BY <1>1, <1>2, <1>3, <1>5 DEF ExInv
  <2>2. managed' = [managed EXCEPT ![o] = job.seen.left]
    BY <1>5 DEF Settle, Adopts
  <2> QED
    BY <1>3, <2>1, <2>2 DEF Kept
<1> QED
  BY <1>3, <1>4, <1>5

\* What follows a settlement stands on what the settlement stood on.
LEMMA JobSettled ==
  ASSUME IInv, Settle
  PROVE  JobInv'
<1>1. /\ job \in Settlements /\ job.next \in Nexts /\ job.at = "settle"
      /\ After(job) = job.next
  BY Current DEF Settle, After
<1>2. job' = job.next /\ plan' = plan /\ fresh' = fresh
  BY DEF Settle
<1>3. /\ job' \in Jobs /\ Base' = Base /\ job'.at # "settle"
      /\ After(job)' = job.next /\ Syncing' = Syncing
  BY <1>1, <1>2, NextKinds DEF Base, Syncing, After
<1>4. job'.at \notin {"adopt", "decide", "send"}
  BY <1>1, <1>2 DEF Nexts, Idle, Syncs, Cancels, Finishes, Drains
<1>5. PICK o \in Orders : o = job.order
  BY Current DEF Settle
<1>6. Kept(o)'
  BY <1>5, SettleKeeps
<1>7. job'.at = "finish" => o = plan'.target
  BY <1>1, <1>2, <1>5 DEF IInv, JobInv
<1>8. job'.at = "drain" => o = job'.order
  BY <1>1, <1>2, <1>5 DEF IInv, JobInv
<1> QED
  BY <1>1, <1>2, <1>3, <1>4, <1>6, <1>7, <1>8 DEF IInv, JobInv, Kept

\* Work that settles one order and then goes on.
LEMMA JobSettling ==
  ASSUME NEW o \in Orders, NEW seen \in Answers, NEW n \in Nexts,
         job' = Settling(o, seen, n),
         Beneath(n).at = "cancel" =>
           fresh' /\ plan' # None /\ plan'.phase = "canceling",
         Beneath(n).at = "sync" => ~fresh',
         n.at = "finish" => plan' # None /\ o = plan'.target,
         n.at = "drain" => n.order = o
  PROVE  JobInv'
<1>1. /\ job' \in Jobs /\ job'.at = "settle" /\ job'.next = n
      /\ job'.order = o /\ After(job)' = n
  BY SettlingForm DEF After
<1>2. Base' = Beneath(n)
  BY <1>1 DEF Base
<1> QED
  BY <1>1, <1>2 DEF JobInv, Syncing

\* A plan is not None.
LEMMA PlansReal == \A p \in Plans : p # None
BY DEF Plans, None

\* A reconciliation begins or goes on.
LEMMA JobSyncs ==
  ASSUME job' \in Syncs, ~fresh'
  PROVE  JobInv'
<1>1. /\ job' \in Jobs /\ job'.at = "sync"
  BY DEF Jobs, Nexts, Syncs
<1>2. Base' = job' /\ After(job)' = job'
  BY <1>1 DEF Base, After, Beneath
<1> QED
  BY <1>1, <1>2 DEF JobInv, Syncing

\* A plan cancels its sources.
LEMMA JobCancels ==
  ASSUME NEW S \in SUBSET Orders, job' = [at |-> "cancel", todo |-> S],
         fresh', plan' # None, plan'.phase = "canceling"
  PROVE  JobInv'
<1>1. /\ job' \in Jobs /\ job'.at = "cancel"
  BY ListForm DEF Jobs, Nexts
<1>2. Base' = job' /\ After(job)' = job'
  BY <1>1 DEF Base, After, Beneath
<1> QED
  BY <1>1, <1>2 DEF JobInv, Syncing

\* A plan goes on to its target.
LEMMA JobPlans ==
  ASSUME NEW at \in {"adopt", "decide", "send"}, job' = [at |-> at],
         fresh', plan' # None, plan'.phase = "submitting"
  PROVE  JobInv'
<1>1. /\ job' \in Jobs /\ job'.at = at
  BY DEF Jobs, PlanSteps
<1>2. Base' = job' /\ After(job)' = job'
  BY <1>1 DEF Base, After, Beneath
<1> QED
  BY <1>1, <1>2 DEF JobInv, Syncing

\* The engine's work stays well formed, and stands on what it stood on.
LEMMA JobKept ==
  ASSUME IInv, Next
  PROVE  JobInv'
<1>0. /\ TypeOK /\ JobInv /\ job \in Jobs
      /\ Idle \in Nexts /\ Beneath(Idle) = Idle /\ Idle.at = "idle"
  BY DEF IInv, JobInv, Idle, Nexts, Beneath
<1> USE <1>0
<1>1. CASE EntryFills
  BY <1>1, JobSame DEF EntryFills, durable, memory, Kept
<1>2. CASE Pause
  BY <1>2, JobSame DEF Pause, exchange, durable, memory, Kept
<1>3. CASE Resume
  BY <1>3, JobSame DEF Resume, exchange, durable, memory, Kept
<1>4. CASE Crash
  BY <1>4, JobIdle DEF Crash, Ends
<1>5. CASE Settle
  BY <1>5, JobSettled
<1>6. CASE SettleFails
  BY <1>6, JobIdle DEF SettleFails, Ends
<1>7. CASE Recover
  <2>1. plan # None /\ plan \in Plans /\ plan.sources \subseteq Orders /\ fresh
    BY <1>7, Current DEF Recover
  <2>2. plan' = plan /\ fresh' = fresh
    BY <1>7 DEF Recover, durable, memory
  <2>3. CASE plan.phase = "canceling" /\ job' = [at |-> "cancel", todo |-> plan.sources]
    BY <2>1, <2>2, <2>3, JobCancels
  <2>4. CASE plan.phase # "canceling" /\ job' = [at |-> "adopt"]
    BY <2>1, <2>2, <2>4, JobPlans DEF Plans
  <2> QED
    BY <1>7, <2>3, <2>4 DEF Recover
<1>8. CASE SyncPosition
  <2>1. plan # None /\ plan \in Plans /\ fresh
    BY <1>8, Current DEF SyncPosition, SourcesEnded
  <2>2. CASE job' = Idle
    BY <2>2, JobIdle
  <2>3. CASE /\ job' = [at |-> "adopt"] /\ fresh' = fresh
             /\ plan' = [plan EXCEPT !.phase = "submitting"]
    <3>1. plan' \in Plans /\ plan'.phase = "submitting"
      BY <2>1, <2>3 DEF Plans
    <3> QED
      BY <2>1, <2>3, <3>1, PlansReal, JobPlans
  <2> QED
    BY <1>8, <2>2, <2>3 DEF SyncPosition, Ends
<1>9. CASE Interrupted
  BY <1>9, JobIdle DEF Interrupted, Ends
<1>10. CASE AdoptTarget
  <2>1. /\ plan # None /\ plan \in Plans /\ fresh /\ plan.phase = "submitting"
        /\ plan.target \in Orders
    BY <1>10, Current DEF AdoptTarget, JobInv
  <2>2. plan' = plan /\ ex' = ex
    BY <1>10 DEF AdoptTarget, durable, exchange
  <2>3. CASE fresh' = fresh /\ job' = [at |-> "decide"]
    BY <2>1, <2>2, <2>3, JobPlans
  <2>4. CASE /\ ex[plan.target].st # "none"
             /\ job' = Settling(plan.target, ex[plan.target], Finishing(Idle))
    <3>1. ex[plan.target] \in Answers
      BY <2>1, <2>4, Typed, AnswerForm DEF States
    <3> QED
      BY <2>1, <2>2, <2>4, <3>1, FinishingForm, JobSettling
  <2>5. CASE job' = Idle
    BY <2>5, JobIdle
  <2> QED
    BY <1>10, <2>3, <2>4, <2>5 DEF AdoptTarget, Adopting, Ends
<1>11. CASE Decide
  <2>1. plan # None /\ plan \in Plans /\ fresh /\ plan.phase = "submitting"
    BY <1>11, Current DEF Decide, JobInv
  <2>2. CASE job' = Idle
    BY <2>2, JobIdle
  <2>3. CASE /\ job' = [at |-> "send"] /\ fresh' = fresh
             /\ plan' = [plan EXCEPT !.quantity = Quantity]
    <3>1. plan'.phase = "submitting" /\ plan' # None
      BY <2>1, <2>3 DEF Plans, None
    <3> QED
      BY <2>1, <2>3, <3>1, JobPlans
  <2> QED
    BY <1>11, <2>2, <2>3 DEF Decide, Ends, memory
<1>12. CASE Send
  <2>1. plan # None /\ plan \in Plans /\ plan.target \in Orders /\ plan' = plan
    BY <1>12, Current DEF Send, durable
  <2>2. CASE job' = Idle
    BY <2>2, JobIdle
  <2>3. CASE /\ ex' = Accepted(plan.target, plan.quantity)
             /\ job' = Settling(plan.target, ex'[plan.target], Finishing(Idle))
    <3>1. ex'[plan.target] \in Answers
      BY <1>12, <2>1, <2>3, SendFits, AcceptedForm DEF Send
    <3> QED
      BY <2>1, <2>3, <3>1, FinishingForm, JobSettling
  <2> QED
    BY <1>12, <2>2, <2>3 DEF Send, Ends
<1>13. CASE Finish
  <2>1. job \in Finishes /\ job' = job.next /\ fresh' = fresh /\ Base = job.next
    BY <1>13, JobKinds DEF Finish, memory, Base, After, Beneath
  <2>2. CASE job' = Idle
    BY <2>2, JobIdle
  <2>3. CASE job' \in Syncs
    BY <2>1, <2>3, JobSyncs DEF JobInv, Syncing, Syncs
  <2> QED
    BY <2>1, <2>2, <2>3 DEF Finishes
<1>14. CASE Sync
  <2>1. Unsettled \subseteq Orders
    <3>1. intents \subseteq Orders
      BY Typed DEF Orders
    <3>2. plan # None => plan.target \in Orders
      BY Current
    <3> QED
      BY <3>1, <3>2 DEF Unsettled, Submitting
  <2>2. job' \in Syncs /\ fresh' = FALSE
    BY <1>14, <2>1, ListForm DEF Sync
  <2> QED
    BY <2>2, JobSyncs
<1>15. CASE DeleteIntent
  <2>1. job \in Drains /\ job' = job.next /\ fresh' = fresh /\ Base = job.next
    BY <1>15, JobKinds DEF DeleteIntent, memory, Base, After, Beneath
  <2> QED
    BY <2>1, JobSyncs DEF JobInv, Syncing, Drains, Syncs
<1>16. CASE SyncEnds
  BY <1>16, JobIdle DEF SyncEnds, Ends
<1>17. CASE CancelPlan
  <2>1. plan # None /\ plan' = plan /\ plan.target \in Orders /\ job = Idle
    BY <1>17, Current DEF CancelPlan, durable
  <2>2. CASE TargetFound
    <3> DEFINE n == Finishing(Idle)
    <3>1. CancelAndSettle(plan.target, n)
      BY <1>17, <2>2 DEF CancelPlan
    <3>2. n \in Nexts /\ n.at = "finish" /\ Beneath(n) = Idle
      BY FinishingForm
    <3> HIDE DEF n
    <3> QED
      BY <2>1, <3>1, <3>2, CancelEffect, JobIdle, JobSettling
  <2>3. CASE job' = job
    BY <2>1, <2>3, JobIdle
  <2>4. CASE ~TargetFound /\ job' = Finishing(Idle) /\ ex' = ex
    <3>1. ex[plan.target].st = "none"
      BY <2>1, <2>4, Current DEF TargetFound, Submitting, IInv, PlanInv, Plans
    <3>2. ex[plan.target].done = 0
      BY <2>1, <3>1 DEF IInv, ExInv
    <3>3. Kept(plan.target)'
      BY <2>1, <2>4, <3>1, <3>2 DEF Kept
    <3>4. /\ job' \in Jobs /\ job'.at = "finish" /\ Base' = Idle
          /\ After(job)' = job'
      BY <2>4, FinishingForm, NextKinds DEF Base
    <3> QED
      BY <2>1, <3>3, <3>4 DEF JobInv, Syncing
  <2> QED
    BY <1>17, <2>2, <2>3, <2>4 DEF CancelPlan, exchange
<1>18. ASSUME NEW t \in Targets, Allocate(t) PROVE JobInv'
  <2> DEFINE from == Reserving \cap (Sources \cup Targets)
  <2>1. /\ job' = [at |-> "cancel", todo |-> from]
        /\ plan' # None /\ plan'.phase = "canceling" /\ fresh'
    BY <1>18 DEF Allocate, memory, None
  <2>2. from \in SUBSET Orders
    BY DEF Reserving
  <2> HIDE DEF from
  <2> QED
    BY <2>1, <2>2, JobCancels
<1>19. ASSUME NEW g \in Grid, Place(g) PROVE JobInv'
  BY <1>19, JobIdle DEF Place
<1>20. ASSUME NEW o \in Orders, ExchangeFills(o) PROVE JobInv'
  <2>1. \A q \in Orders : Kept(q) => Kept(q)'
    BY <1>20, Typed DEF ExchangeFills, durable, Kept, States
  <2> QED
    BY <1>20, <2>1, JobSame DEF ExchangeFills, durable, memory
<1>21. ASSUME NEW s \in Orders, CancelSource(s) PROVE JobInv'
  <2> DEFINE n == [job EXCEPT !.todo = @ \ {s}]
  <2>1. job \in Cancels /\ plan # None /\ plan' = plan /\ fresh
        /\ plan.phase = "canceling"
    BY <1>21, JobKinds DEF CancelSource, durable, JobInv, Base
  <2>2. n \in Cancels /\ n.at = "cancel" /\ n \in Nexts /\ Beneath(n) = n
    BY <1>21, <2>1, TodoForm DEF CancelSource, Nexts, Beneath, Cancels
  <2>3. CancelAndSettle(s, n)
    BY <1>21 DEF CancelSource
  <2> HIDE DEF n
  <2> QED
    BY <2>1, <2>2, <2>3, CancelEffect, JobIdle, JobSettling
<1>22. ASSUME NEW o \in Orders, SyncOrder(o) PROVE JobInv'
  <2> DEFINE n == [job EXCEPT !.todo = @ \ {o}]
  <2>1. job \in Syncs /\ ~fresh /\ fresh' = fresh /\ plan' = plan /\ ex' = ex
    BY <1>22, JobKinds DEF SyncOrder, JobInv, Base, Syncing, exchange
  <2>2. n \in Syncs /\ n.at = "sync" /\ n \in Nexts /\ Beneath(n) = n
    BY <1>22, <2>1, TodoForm DEF SyncOrder, Nexts, Beneath, Syncs
  <2>3. CASE job' = n
    <3> HIDE DEF n
    <3> QED
      BY <2>1, <2>2, <2>3, JobSyncs
  <2>4. CASE job' = Idle
    BY <2>4, JobIdle
  <2>5. CASE ex[o].st # "none" /\ job' = Settling(o, ex[o],
               IF o \in intents THEN [at |-> "drain", order |-> o, next |-> n]
               ELSE IF Submitting /\ o = plan.target THEN Finishing(n)
               ELSE n)
    <3>1. ex[o] \in Answers
      BY <2>5, Typed, AnswerForm DEF States
    <3>2. o \in intents => o \in Pairs
      BY Typed
    <3> HIDE DEF n
    <3>3. CASE o \in intents
      BY <2>1, <2>2, <2>5, <3>1, <3>2, <3>3, DrainForm, JobSettling
    <3>4. CASE o \notin intents /\ Submitting /\ o = plan.target
      BY <2>1, <2>2, <2>5, <3>1, <3>4, FinishingForm, JobSettling DEF Submitting
    <3>5. CASE o \notin intents /\ ~(Submitting /\ o = plan.target)
      BY <2>1, <2>2, <2>5, <3>1, <3>5, JobSettling
    <3> QED
      BY <3>3, <3>4, <3>5
  <2> QED
    BY <1>22, <2>3, <2>4, <2>5 DEF SyncOrder, Ends
<1>23. ASSUME NEW o \in Orders, CancelOrder(o) PROVE JobInv'
  BY <1>23, CancelEffect, JobIdle, JobSettling DEF CancelOrder
<1> QED
  BY <1>1, <1>2, <1>3, <1>4, <1>5, <1>6, <1>7, <1>8, <1>9, <1>10, <1>11,
     <1>12, <1>13, <1>14, <1>15, <1>16, <1>17, <1>18, <1>19, <1>20, <1>21,
     <1>22, <1>23, NextCases

\* Nothing happened at the exchange, and an answer in hand is the present state.
LEMMA ExFrame ==
  ASSUME IInv, ex' = ex,
         \A p \in Pairs : ex[p].st = "none" /\ active[p] = 0 /\ managed[p] = 0
                            => active'[p] = 0 /\ managed'[p] = 0,
         \/ job' = job
         \/ job'.at # "settle"
         \/ \E o \in Orders : \E n : job' = Settling(o, ex[o], n)
  PROVE  ExInv'
<1>1. ExInv
  BY DEF IInv
<1>2. /\ \A o \in Orders :
           /\ ex'[o].left + ex'[o].done <= MaxPos
           /\ ex'[o].st = "open" => ex'[o].left > 0
           /\ ex'[o].st = "none" => ex'[o].left = 0 /\ ex'[o].done = 0
      /\ \A p \in Pairs : ex'[p].st = "none" => active'[p] = 0 /\ managed'[p] = 0
  BY <1>1 DEF ExInv
<1>3. job'.at = "settle" =>
         LET e == ex'[job'.order] IN
         \/ e = job'.seen
         \/ /\ job'.seen.st = "open" /\ e.st # "none"
            /\ e.done > job'.seen.done /\ e.left < job'.seen.left
  BY <1>1 DEF ExInv, Settling
<1> QED
  BY <1>2, <1>3 DEF ExInv

\* An order changed; what was seen of it, or of another one, is up to date.
LEMMA ExChange ==
  ASSUME IInv, NEW o \in Orders, ex' \in [Orders -> States],
         \A q \in Orders : q # o => ex'[q] = ex[q],
         ex'[o].left + ex'[o].done <= MaxPos, ex'[o].st # "none",
         ex'[o].st = "open" => ex'[o].left > 0,
         \A p \in Pairs : p # o => active'[p] = active[p] /\ managed'[p] = managed[p],
         \/ job'.at # "settle"
         \/ \E n : job' = Settling(o, ex'[o], n)
  PROVE  ExInv'
<1>1. ExInv
  BY DEF IInv
<1>2. \A q \in Orders :
           /\ ex'[q].left + ex'[q].done <= MaxPos
           /\ ex'[q].st = "open" => ex'[q].left > 0
           /\ ex'[q].st = "none" => ex'[q].left = 0 /\ ex'[q].done = 0
  BY <1>1 DEF ExInv
<1>3. \A p \in Pairs : ex'[p].st = "none" => active'[p] = 0 /\ managed'[p] = 0
  BY <1>1 DEF ExInv, Orders
<1>4. job'.at = "settle" => ex'[job'.order] = job'.seen
  BY DEF Settling
<1> QED
  BY <1>2, <1>3, <1>4 DEF ExInv

\* An order that was never there is accepted.
LEMMA ExAccept ==
  ASSUME IInv, NEW o \in Orders, NEW q \in 1..MaxPos, ex' = Accepted(o, q),
         \A p \in Pairs : p # o => active'[p] = active[p] /\ managed'[p] = managed[p],
         \/ job'.at # "settle"
         \/ \E n : job' = Settling(o, ex'[o], n)
  PROVE  ExInv'
<1>1. TypeOK /\ q \in Nat /\ q > 0 /\ q <= MaxPos
  BY PlanAssumption DEF IInv
<1>2. /\ ex' \in [Orders -> States]
      /\ \A p \in Orders : p # o => ex'[p] = ex[p]
      /\ ex'[o] = [st |-> "open", left |-> q, done |-> 0]
  BY <1>1, AcceptedForm
<1>3. ex'[o].left = q /\ ex'[o].done = 0 /\ ex'[o].st = "open"
  BY <1>2
<1>4. ex'[o].left + ex'[o].done <= MaxPos /\ ex'[o].left > 0
  BY <1>1, <1>3, PlanAssumption
<1> QED
  BY <1>2, <1>3, <1>4, ExChange

\* A cancellation leaves an order ended, or as it was.
LEMMA ExCancel ==
  ASSUME IInv, NEW o \in Orders, NEW n, CancelAndSettle(o, n),
         active' = active, managed' = managed
  PROVE  ExInv'
<1>1. TypeOK /\ ExInv /\ Idle.at # "settle"
  BY DEF IInv, Idle
<1>2. /\ ex' \in [Orders -> States]
      /\ \A q \in Orders : q # o => ex'[q] = ex[q]
      /\ ex'[o].left = ex[o].left /\ ex'[o].done = ex[o].done
      /\ ex'[o].st = ex[o].st \/ (ex[o].st = "open" /\ ex'[o].st = "ended")
      /\ job' = Idle \/ (ex'[o].st = "ended" /\ job' = Settling(o, ex'[o], n))
  BY <1>1, CancelEffect
<1>3. CASE ex'[o].st = "none"
  <2>1. ex[o] \in States /\ ex'[o] \in States
    BY <1>1, <1>2, Typed
  <2>2. ex'[o] = ex[o]
    BY <1>2, <1>3, <2>1 DEF States
  <2>3. ex' = ex
    BY <1>1, <1>2, <2>2, Typed
  <2> QED
    BY <1>1, <1>2, <1>3, <2>3, ExFrame
<1>4. CASE ex'[o].st # "none"
  BY <1>1, <1>2, <1>4, ExChange DEF ExInv
<1> QED
  BY <1>3, <1>4

\* One more unit of an order is executed.
LEMMA ExFills ==
  ASSUME IInv, NEW o \in Orders, ExchangeFills(o)
  PROVE  ExInv'
<1>1. TypeOK /\ ExInv /\ job \in Jobs /\ ex[o] \in States /\ ex[o].st = "open"
  BY Typed DEF IInv, JobInv, ExchangeFills
<1>2. /\ ex[o].left \in Nat /\ ex[o].done \in Nat /\ ex[o].left > 0
  BY <1>1, Numbers DEF ExInv
<1>3. /\ \A q \in Orders : q # o => ex'[q] = ex[q]
      /\ ex'[o].left = ex[o].left - 1 /\ ex'[o].done = ex[o].done + 1
      /\ ex'[o].st = IF ex[o].left = 1 THEN "ended" ELSE "open"
  BY <1>1, Typed DEF ExchangeFills, States
<1>4. UNCHANGED <<active, managed, job>>
  BY DEF ExchangeFills, durable, memory
<1>5. /\ \A q \in Orders :
           /\ ex'[q].left + ex'[q].done <= MaxPos
           /\ ex'[q].st = "open" => ex'[q].left > 0
           /\ ex'[q].st = "none" => ex'[q].left = 0 /\ ex'[q].done = 0
      /\ \A p \in Pairs : ex'[p].st = "none" => active'[p] = 0 /\ managed'[p] = 0
  BY <1>1, <1>2, <1>3, <1>4 DEF ExInv, Orders
<1>6. ASSUME job.at = "settle", job.order = o
      PROVE  /\ job.seen.st = "open" /\ ex'[o].st # "none"
             /\ ex'[o].done > job.seen.done /\ ex'[o].left < job.seen.left
  <2>1. job.seen.left \in Nat /\ job.seen.done \in Nat
    BY <1>6, Current
  <2> QED
    BY <1>1, <1>2, <1>3, <1>6, <2>1 DEF ExInv
<1>7. ASSUME job.at = "settle", job.order # o
      PROVE  ex'[job.order] = ex[job.order]
  BY <1>3, <1>7, Current
<1> QED
  BY <1>1, <1>4, <1>5, <1>6, <1>7 DEF ExInv

\* The exchange.
LEMMA ExKept ==
  ASSUME IInv, Next
  PROVE  ExInv'
<1>0. /\ TypeOK /\ ExInv /\ job \in Jobs /\ Idle.at = "idle"
  BY DEF IInv, JobInv, Idle
<1> USE <1>0
<1>1. CASE EntryFills
  BY <1>1, ExFrame DEF EntryFills, durable, memory
<1>2. CASE Pause
  BY <1>2, ExFrame DEF Pause, exchange, durable, memory
<1>3. CASE Resume
  BY <1>3, ExFrame DEF Resume, exchange, durable, memory
<1>4. CASE Crash
  <2>1. \A p \in Pairs : active'[p] = 0
    BY <1>4 DEF Crash, Orders
  <2> QED
    BY <1>4, <2>1, ExFrame DEF Crash, Ends, exchange, durable
<1>5. CASE Settle
  <2>1. job.order \in Orders /\ ex[job.order].st # "none" /\ job'.at # "settle"
    BY <1>5, Current, NextKinds DEF Settle, ExInv
  <2>2. \A p \in Pairs : p # job.order =>
          active'[p] = active[p] /\ managed'[p] = managed[p]
    BY <1>5, Typed DEF Settle, Adopts, Orders
  <2> QED
    BY <1>5, <2>1, <2>2, ExFrame DEF Settle, exchange
<1>6. CASE SettleFails
  <2>1. job.order \in Orders /\ ex[job.order].st # "none"
    BY <1>6, Current DEF SettleFails, ExInv
  <2>2. \A p \in Pairs : p # job.order =>
          active'[p] = active[p] /\ managed'[p] = managed[p]
    BY <1>6, Typed DEF SettleFails, Orders
  <2> QED
    BY <1>6, <2>1, <2>2, ExFrame DEF SettleFails, Ends, exchange
<1>7. CASE Recover
  BY <1>7, ExFrame DEF Recover, exchange, durable, memory
<1>8. CASE SyncPosition
  BY <1>8, ExFrame DEF SyncPosition, Ends, exchange
<1>9. CASE Interrupted
  BY <1>9, ExFrame DEF Interrupted, Ends, exchange, durable, memory
<1>10. CASE AdoptTarget
  <2>1. plan.target \in Orders /\ [at |-> "decide"].at # "settle"
    BY <1>10, Current DEF AdoptTarget
  <2>2. UNCHANGED <<ex, active, managed>>
    BY <1>10 DEF AdoptTarget, exchange, durable
  <2>3. \/ job' = [at |-> "decide"] \/ job' = Idle
        \/ job' = Settling(plan.target, ex[plan.target], Finishing(Idle))
    BY <1>10 DEF AdoptTarget, Adopting, Ends
  <2>4. CASE job' = [at |-> "decide"] \/ job' = Idle
    BY <2>1, <2>2, <2>4, ExFrame
  <2>5. CASE job' = Settling(plan.target, ex[plan.target], Finishing(Idle))
    BY <2>1, <2>2, <2>5, ExFrame
  <2> QED
    BY <2>3, <2>4, <2>5
<1>11. CASE Decide
  BY <1>11, ExFrame DEF Decide, Ends, exchange, memory
<1>12. CASE Send
  <2>1. plan.target \in Orders /\ plan.target \notin Pairs
    BY <1>12, Current DEF Send
  <2>2. plan.quantity \in 1..MaxPos
    BY <1>12, SendFits DEF Send
  <2>3. active' = active /\ managed' = managed
    BY <1>12 DEF Send, durable
  <2>4. CASE ex' = ex /\ job' = Idle
    BY <2>3, <2>4, ExFrame
  <2>5. CASE ex' = Accepted(plan.target, plan.quantity) /\ job' = Idle
    BY <2>1, <2>2, <2>3, <2>5, ExAccept
  <2>6. CASE /\ ex' = Accepted(plan.target, plan.quantity)
             /\ job' = Settling(plan.target, ex'[plan.target], Finishing(Idle))
    BY <2>1, <2>2, <2>3, <2>6, ExAccept
  <2> QED
    BY <1>12, <2>4, <2>5, <2>6 DEF Send, Ends
<1>13. CASE Finish
  <2>1. job'.at # "settle"
    BY <1>13, JobKinds DEF Finish, Finishes, Syncs
  <2> QED
    BY <1>13, <2>1, ExFrame DEF Finish, exchange, memory
<1>14. CASE Sync
  <2>1. \A p \in Pairs : active[p] = 0 /\ managed[p] = 0 => active'[p] = 0
    BY <1>14, MaxOfTwo DEF Sync, Orders
  <2> QED
    BY <1>14, <2>1, ExFrame DEF Sync, exchange, durable
<1>15. CASE DeleteIntent
  <2>1. job'.at # "settle"
    BY <1>15, JobKinds DEF DeleteIntent, Drains, Syncs
  <2> QED
    BY <1>15, <2>1, ExFrame DEF DeleteIntent, exchange, memory
<1>16. CASE SyncEnds
  BY <1>16, ExFrame DEF SyncEnds, Ends, exchange, durable
<1>17. CASE CancelPlan
  <2>1. plan.target \in Orders /\ active' = active /\ managed' = managed
    BY <1>17, Current DEF CancelPlan, durable
  <2>2. CASE TargetFound
    <3>1. CancelAndSettle(plan.target, Finishing(Idle))
      BY <1>17, <2>2 DEF CancelPlan
    <3> QED
      BY <2>1, <3>1, ExCancel
  <2>3. CASE ~TargetFound
    BY <1>17, <2>3, ExFrame DEF CancelPlan, Finishing, exchange, durable
  <2> QED
    BY <2>2, <2>3
<1>18. ASSUME NEW t \in Targets, Allocate(t) PROVE ExInv'
  BY <1>18, ExFrame DEF Allocate, exchange, memory
<1>19. ASSUME NEW g \in Grid, Place(g) PROVE ExInv'
  <2>1. g \in Orders /\ g \notin Pairs
    BY PlanAssumption DEF Orders
  <2>2. Full \in 1..MaxPos
    BY <1>19, FullFits DEF Place
  <2>3. \A p \in Pairs : active'[p] = active[p] /\ managed'[p] = managed[p]
    BY <1>19, <2>1, Typed DEF Place, Orders
  <2>4. job' = Idle /\ (ex' = ex \/ ex' = Accepted(g, Full))
    BY <1>19 DEF Place
  <2>5. CASE ex' = ex
    BY <2>3, <2>4, <2>5, ExFrame
  <2>6. CASE ex' = Accepted(g, Full)
    BY <2>1, <2>2, <2>3, <2>4, <2>6, ExAccept
  <2> QED
    BY <2>4, <2>5, <2>6
<1>20. ASSUME NEW o \in Orders, ExchangeFills(o) PROVE ExInv'
  BY <1>20, ExFills
<1>21. ASSUME NEW s \in Orders, CancelSource(s) PROVE ExInv'
  BY <1>21, ExCancel DEF CancelSource, durable
<1>22. ASSUME NEW o \in Orders, SyncOrder(o) PROVE ExInv'
  <2>1. CASE ex[o].st = "none" /\ Unknown(o) /\ job' = [job EXCEPT !.todo = @ \ {o}]
    <3>1. job'.at # "settle"
      BY <1>22, <2>1, JobKinds, TodoForm DEF SyncOrder
    <3>2. \A p \in Pairs : active[p] = 0 /\ managed[p] = 0 =>
                             active'[p] = 0 /\ managed'[p] = 0
      BY <2>1, Typed DEF Unknown, Orders
    <3> QED
      BY <1>22, <3>1, <3>2, ExFrame DEF SyncOrder, exchange
  <2>2. CASE UNCHANGED <<active, managed>> /\ (job' = Idle \/ \E n : job' = Settling(o, ex[o], n))
    BY <1>22, <2>2, ExFrame DEF SyncOrder, exchange
  <2> QED
    BY <1>22, <2>1, <2>2 DEF SyncOrder, Ends
<1>23. ASSUME NEW o \in Orders, CancelOrder(o) PROVE ExInv'
  BY <1>23, ExCancel DEF CancelOrder, durable
<1> QED
  BY <1>1, <1>2, <1>3, <1>4, <1>5, <1>6, <1>7, <1>8, <1>9, <1>10, <1>11,
     <1>12, <1>13, <1>14, <1>15, <1>16, <1>17, <1>18, <1>19, <1>20, <1>21,
     <1>22, <1>23, NextCases

\* Without a reconciliation nothing is claimed of memory.
LEMMA CoverLost ==
  ASSUME fresh' = FALSE, job' = Idle
  PROVE  CoverInv' /\ SlackInv'
<1>1. Base' = Idle /\ Idle.at = "idle"
  BY DEF Base, After, Beneath, Idle
<1> QED
  BY <1>1 DEF CoverInv, SlackInv, Syncing

\* What memory believes is free, whenever it covers every order and the
\* position was just read.
LEMMA SlackCovered ==
  ASSUME IInv, \A o \in Orders : Covered(o)
  PROVE  pos + Units(Left, Orders) <= pos + Units(Reserves, Orders)
<1>1. TypeOK /\ job \in Jobs
  BY DEF IInv, JobInv
<1>2. Units(Left, Orders) <= Units(Reserves, Orders)
  BY <1>1, Numbers, UnitsGrow DEF Covered
<1> QED
  BY <1>1, <1>2, Numbers, Typed

\* The orders and what they reserve are the same, and the work stands on what
\* it stood on.
LEMMA CoverFrame ==
  ASSUME IInv, fresh' => fresh,
         \A o \in Orders : /\ ex'[o].done = ex[o].done
                           /\ Left'[o] = Left[o] /\ Reserves'[o] = Reserves[o],
         Syncing' => Syncing /\ Base'.todo = Base.todo
  PROVE  /\ CoverInv'
         /\ Units(Left, Orders)' = Units(Left, Orders)
         /\ Units(Reserves, Orders)' = Units(Reserves, Orders)
<1>1. TypeOK /\ job \in Jobs /\ CoverInv
  BY DEF IInv, JobInv
<1>2. \A o \in Orders : Covered(o) => Covered(o)'
  BY DEF Covered
<1>3. CoverInv'
  BY <1>1, <1>2 DEF CoverInv
<1>4. Units(Left', Orders) = Units(Left, Orders)
  BY <1>1, Numbers, UnitsSame
<1>5. Units(Reserves', Orders) = Units(Reserves, Orders)
  BY <1>1, Numbers, UnitsSame
<1> QED
  BY <1>3, <1>4, <1>5

\* So are the positions.
LEMMA SlackFrame ==
  ASSUME IInv, fresh' => fresh, UNCHANGED <<known, pos>>,
         \A o \in Orders : /\ ex'[o].done = ex[o].done
                           /\ Left'[o] = Left[o] /\ Reserves'[o] = Reserves[o],
         Syncing' => Syncing /\ Base'.todo = Base.todo,
         job.at = "settle" /\ job.seen.done > 0 =>
           job'.at = "settle" /\ job'.seen.done > 0
  PROVE  CoverInv' /\ SlackInv'
<1>1. /\ CoverInv'
      /\ Units(Left, Orders)' = Units(Left, Orders)
      /\ Units(Reserves, Orders)' = Units(Reserves, Orders)
  BY CoverFrame
<1> QED
  BY <1>1 DEF IInv, SlackInv

\* No order is being settled, before or after.
LEMMA CoverPlain ==
  ASSUME IInv, UNCHANGED <<exchange, active, known>>, fresh' => fresh,
         job.at # "settle", job'.at # "settle",
         Syncing' => Syncing /\ Base'.todo = Base.todo
  PROVE  CoverInv' /\ SlackInv'
<1>1. \A o \in Orders : /\ ex'[o].done = ex[o].done
                        /\ Left'[o] = Left[o] /\ Reserves'[o] = Reserves[o]
  BY DEF exchange, Left, Reserves
<1> QED
  BY <1>1, SlackFrame DEF exchange

\* A settlement begins: the order will reserve what it was just seen to have
\* left, which is news only when it was executed.
LEMMA CoverBegins ==
  ASSUME IInv, NEW o \in Orders, NEW n \in Nexts, job.at # "settle",
         ex' \in [Orders -> States], \A q \in Orders : q # o => ex'[q] = ex[q],
         ex'[o] \in Answers, ex'[o].done = 0 => ex[o].done = 0,
         job' = Settling(o, ex'[o], n),
         UNCHANGED <<active, known, pos>>, fresh' => fresh,
         Beneath(n).at = "sync" =>
           /\ Syncing /\ Base.todo \subseteq Beneath(n).todo \cup {o}
  PROVE  CoverInv' /\ SlackInv'
<1>1. TypeOK /\ job \in Jobs /\ CoverInv /\ SlackInv
  BY DEF IInv, JobInv
<1>2. /\ job'.at = "settle" /\ job'.order = o /\ job'.seen = ex'[o]
      /\ Base' = Beneath(n)
  BY SettlingForm DEF Base, Settling, After
<1>3. ex'[o].left \in Nat /\ ex'[o].done \in Nat /\ ex'[o].st \in {"open", "ended"}
  BY PlanAssumption DEF Answers
<1>4. Left'[o] = IF ex'[o].st = "ended" THEN 0 ELSE ex'[o].left
  BY <1>3 DEF Left
<1>5. Reserves'[o] = Left'[o]
  BY <1>2, <1>4 DEF Reserves
<1>6. \A q \in Orders \ {o} : /\ Left'[q] = Left[q] /\ Reserves'[q] = Reserves[q]
                              /\ ex'[q].done = ex[q].done
  BY <1>2 DEF Left, Reserves
<1>7. /\ Left'[o] \in Nat
      /\ \A q \in Orders : /\ Left[q] \in Nat /\ Reserves[q] \in Nat
                           /\ Left'[q] \in Nat /\ Reserves'[q] \in Nat
  BY <1>1, <1>3, <1>4, <1>5, <1>6, Numbers
<1>8. Covered(o)'
  BY <1>5, <1>7 DEF Covered
<1>9. ASSUME NEW q \in Orders, q # o, Covered(q) PROVE Covered(q)'
  BY <1>6, <1>9 DEF Covered
<1>10. CoverInv'
  <2>1. ASSUME fresh', NEW q \in Orders PROVE Covered(q)'
    BY <1>1, <1>8, <1>9, <2>1 DEF CoverInv
  <2>2. ASSUME Syncing', NEW q \in Orders \ Base'.todo PROVE Covered(q)'
    BY <1>1, <1>2, <1>8, <1>9, <2>2 DEF CoverInv, Syncing
  <2> QED
    BY <2>1, <2>2 DEF CoverInv
<1>11. ASSUME fresh', ex'[o].done = 0
       PROVE  known' + Units(Left, Orders)' <= pos' + Units(Reserves, Orders)'
  <2>1. Reserves[o] = Left[o]
    BY <1>1, <1>11 DEF CoverInv, Covered
  <2>2. known + Units(Left, Orders) <= pos + Units(Reserves, Orders)
    BY <1>1, <1>11 DEF SlackInv
  <2>3. Units(Left', Orders) = Units(Left, Orders) - Left[o] + Left'[o]
    BY <1>6, <1>7, UnitsChange
  <2>4. Units(Reserves', Orders)
          = Units(Reserves, Orders) - Reserves[o] + Reserves'[o]
    BY <1>6, <1>7, UnitsChange
  <2>5. /\ Units(Left, Orders) \in Nat /\ Units(Reserves, Orders) \in Nat
        /\ Left[o] \in Nat /\ Left'[o] \in Nat /\ known \in Int /\ pos \in Int
    BY <1>1, <1>7, Numbers, Typed
  <2> QED
    BY <1>5, <2>1, <2>2, <2>3, <2>4, <2>5
<1>12. SlackInv'
  BY <1>2, <1>3, <1>11 DEF SlackInv
<1> QED
  BY <1>10, <1>12

\* A cancellation begins the settlement of its order.
LEMMA CoverCancel ==
  ASSUME IInv, NEW o \in Orders, NEW n \in Nexts, CancelAndSettle(o, n),
         job.at # "settle", UNCHANGED <<active, known>>, Beneath(n).at # "sync"
  PROVE  CoverInv' /\ SlackInv'
<1>1. TypeOK
  BY DEF IInv
<1>2. /\ pos' = pos /\ ex' \in [Orders -> States]
      /\ \A q \in Orders : q # o => ex'[q] = ex[q]
      /\ ex'[o].done = ex[o].done
      /\ \/ fresh' = FALSE /\ job' = Idle
         \/ /\ fresh' = fresh /\ ex'[o] \in Answers
            /\ job' = Settling(o, ex'[o], n)
  BY <1>1, CancelEffect
<1>3. CASE fresh' = FALSE /\ job' = Idle
  BY <1>3, CoverLost
<1>4. CASE fresh' = fresh /\ ex'[o] \in Answers /\ job' = Settling(o, ex'[o], n)
  BY <1>2, <1>4, CoverBegins
<1> QED
  BY <1>2, <1>3, <1>4

\* The settled order reserves what was claimed for it; an execution that was
\* seen comes with the position.
LEMMA CoverSettle ==
  ASSUME IInv, Settle
  PROVE  CoverInv' /\ SlackInv'
<1>1. /\ TypeOK /\ job \in Settlements /\ job.at = "settle" /\ job.next \in Nexts
      /\ job.order \in Orders /\ After(job) = job.next /\ job' = job.next
      /\ job.seen.done \in Nat /\ job.seen.st \in {"open", "ended"}
      /\ job.seen.left \in Nat
  BY Current, PlanAssumption DEF Settle, After, IInv
<1>2. job'.at # "settle" /\ Base' = Base /\ Syncing' = Syncing
  BY <1>1, NextKinds DEF Base, Syncing
<1>3. ex' = ex /\ pos' = pos /\ fresh' = fresh
  BY DEF Settle, exchange
<1>4. \A o \in Orders : Reserves'[o] = Reserves[o]
  <2>1. active \in [Orders -> 0..MaxPos]
    BY <1>1, Typed
  <2>2. active' = [active EXCEPT ![job.order] =
                     IF job.seen.st = "ended" THEN 0 ELSE job.seen.left]
    BY DEF Settle, Adopts
  <2> QED
    BY <1>1, <1>2, <2>1, <2>2 DEF Reserves
<1>5. \A o \in Orders : ex'[o].done = ex[o].done /\ Left'[o] = Left[o]
  BY <1>3 DEF Left
<1>6. /\ CoverInv'
      /\ Units(Left, Orders)' = Units(Left, Orders)
      /\ Units(Reserves, Orders)' = Units(Reserves, Orders)
  BY <1>2, <1>3, <1>4, <1>5, CoverFrame
<1>7. ASSUME fresh', job.seen.done > 0
      PROVE  known' + Units(Left, Orders) <= pos + Units(Reserves, Orders)
  <2>1. known' = pos
    BY <1>7 DEF Settle, PositionAfter
  <2> QED
    BY <1>3, <1>7, <2>1, SlackCovered DEF IInv, CoverInv
<1>8. ASSUME fresh', ~(job.seen.done > 0)
      PROVE  known' + Units(Left, Orders) <= pos + Units(Reserves, Orders)
  BY <1>1, <1>3, <1>8 DEF Settle, PositionAfter, IInv, SlackInv
<1> QED
  BY <1>3, <1>6, <1>7, <1>8 DEF SlackInv

\* An execution takes from the order and from the position.
LEMMA CoverFills ==
  ASSUME IInv, NEW o \in Orders, ExchangeFills(o)
  PROVE  CoverInv' /\ SlackInv'
<1>1. /\ TypeOK /\ ExInv /\ CoverInv /\ SlackInv /\ job \in Jobs
      /\ ex[o] \in States /\ ex[o].st = "open"
  BY Typed DEF IInv, JobInv, ExchangeFills
<1>2. /\ ex[o].left \in Nat /\ ex[o].done \in Nat /\ ex[o].left > 0
  BY <1>1, Numbers DEF ExInv
<1>3. /\ \A q \in Orders : q # o => ex'[q] = ex[q]
      /\ ex'[o].left = ex[o].left - 1 /\ ex'[o].done = ex[o].done + 1
      /\ ex'[o].st = IF ex[o].left = 1 THEN "ended" ELSE "open"
  BY <1>1, Typed DEF ExchangeFills, States
<1>4. UNCHANGED <<active, job, fresh, known>> /\ pos' = pos - 1
  BY DEF ExchangeFills, memory
<1>5. Reserves' = Reserves /\ Base' = Base /\ Syncing' = Syncing
  BY <1>4 DEF Reserves, Base, After, Beneath, Syncing
<1>6. Left[o] = ex[o].left /\ Left'[o] = Left[o] - 1
  BY <1>1, <1>2, <1>3 DEF Left
<1>7. \A q \in Orders \ {o} : Left'[q] = Left[q]
  BY <1>3 DEF Left
<1>8. \A q \in Orders : /\ Left[q] \in Nat /\ Left'[q] \in Nat
                        /\ Reserves[q] \in Nat
  BY <1>1, <1>2, <1>6, <1>7, Numbers
<1>9. \A q \in Orders : Covered(q) => Covered(q)'
  BY <1>2, <1>3, <1>5, <1>6, <1>7, <1>8 DEF Covered
<1>10. CoverInv'
  BY <1>1, <1>4, <1>5, <1>9 DEF CoverInv
<1>11. Units(Left', Orders) = Units(Left, Orders) - Left[o] + Left'[o]
  BY <1>7, <1>8, UnitsChange
<1>12. /\ Units(Left, Orders) \in Nat /\ Units(Reserves, Orders) \in Nat
       /\ Left[o] \in Nat /\ known \in Int /\ pos \in Int
  BY <1>1, <1>8, Numbers, Typed
<1>13. Units(Left', Orders) = Units(Left, Orders) - 1
  BY <1>6, <1>11, <1>12
<1>14. Units(Reserves', Orders) = Units(Reserves, Orders)
  BY <1>5
<1>15. SlackInv'
  BY <1>1, <1>4, <1>12, <1>13, <1>14 DEF SlackInv
<1> QED
  BY <1>10, <1>15

\* An order that is accepted reserves what it was placed with.
LEMMA CoverPlace ==
  ASSUME IInv, NEW g \in Grid, Place(g)
  PROVE  CoverInv' /\ SlackInv'
<1>1. /\ TypeOK /\ ExInv /\ CoverInv /\ SlackInv /\ job \in Jobs /\ g \in Orders
      /\ job = Idle /\ job.at = "idle" /\ job' = Idle /\ fresh
      /\ Base' = Idle /\ Full \in 1..MaxPos /\ Full \in Nat
  BY FullFits, PlanAssumption
     DEF Place, IInv, JobInv, Base, After, Beneath, Idle, Orders
<1>2. known' = known /\ pos' = pos /\ active' = [active EXCEPT ![g] = Full]
  BY DEF Place
<1>3. ex[g].done = 0 /\ Left[g] = 0 /\ active[g] = 0
  <2>1. ex[g].done = 0 /\ Left[g] = 0
    BY <1>1 DEF Place, ExInv, Left
  <2> QED
    BY <1>1, <2>1 DEF CoverInv, Covered, Reserves
<1>4. CASE fresh' = FALSE
  BY <1>1, <1>4, CoverLost
<1>5. CASE ex' = Accepted(g, Full) /\ fresh' = fresh
  <2>1. /\ \A p \in Orders : p # g => ex'[p] = ex[p]
        /\ ex'[g] = [st |-> "open", left |-> Full, done |-> 0]
    BY <1>1, <1>5, AcceptedForm
  <2>2. Left'[g] = Full /\ Reserves'[g] = Full /\ Reserves[g] = 0
    BY <1>1, <1>2, <1>3, <2>1, Typed DEF Left, Reserves
  <2>3. \A q \in Orders \ {g} : /\ Left'[q] = Left[q] /\ Reserves'[q] = Reserves[q]
                                /\ ex'[q].done = ex[q].done
    BY <1>1, <1>2, <2>1, Typed DEF Left, Reserves
  <2>4. \A q \in Orders : /\ Left[q] \in Nat /\ Reserves[q] \in Nat
                          /\ Left'[q] \in Nat /\ Reserves'[q] \in Nat
    BY <1>1, <2>2, <2>3, Numbers
  <2>5. Covered(g)'
    BY <1>1, <2>2 DEF Covered
  <2>6. ASSUME NEW q \in Orders, q # g PROVE Covered(q)'
    BY <1>1, <2>3, <2>6 DEF CoverInv, Covered
  <2>7. CoverInv'
    BY <1>1, <2>5, <2>6 DEF CoverInv, Syncing
  <2>8. Units(Left', Orders) = Units(Left, Orders) - Left[g] + Left'[g]
    BY <1>1, <2>3, <2>4, UnitsChange
  <2>9. Units(Reserves', Orders)
          = Units(Reserves, Orders) - Reserves[g] + Reserves'[g]
    BY <1>1, <2>3, <2>4, UnitsChange
  <2>10. known + Units(Left, Orders) <= pos + Units(Reserves, Orders)
    BY <1>1 DEF SlackInv
  <2>11. /\ Units(Left, Orders) \in Nat /\ Units(Reserves, Orders) \in Nat
         /\ known \in Int /\ pos \in Int
    BY <1>1, Numbers, Typed
  <2>12. known + Units(Left', Orders) <= pos + Units(Reserves', Orders)
    BY <1>1, <1>3, <2>2, <2>8, <2>9, <2>10, <2>11
  <2>13. SlackInv'
    BY <1>2, <2>12 DEF SlackInv
  <2> QED
    BY <2>7, <2>13
<1> QED
  BY <1>4, <1>5 DEF Place

\* A reconciliation begins: what it will not look up neither is nor was open.
LEMMA CoverSync ==
  ASSUME IInv, Sync
  PROVE  CoverInv' /\ SlackInv'
<1>1. /\ TypeOK /\ ClosingRecorded /\ PlanInv /\ job \in Jobs
      /\ job = Idle /\ ex' = ex /\ fresh' = FALSE
      /\ job' = [at |-> "sync", todo |-> Unsettled]
      /\ active' = [o \in Orders |-> Max({active[o], managed[o]})]
  BY DEF Sync, exchange, IInv, JobInv
<1>2. job'.at = "sync" /\ Base' = job' /\ Base'.todo = Unsettled
  BY <1>1 DEF Base, After, Beneath
<1>3. ASSUME NEW o \in Orders \ Unsettled
      PROVE  Covered(o)'
  <2>1. active[o] \in Nat /\ managed[o] \in Nat
    BY <1>1, Typed
  <2>2. active[o] + managed[o] = 0 \/ active[o] + managed[o] > 0
    BY <2>1
  <2>3. active[o] = 0 /\ managed[o] = 0 /\ o \notin intents
    BY <1>3, <2>1, <2>2 DEF Unsettled
  <2>4. ~(Submitting /\ o = plan.target)
    BY <1>3 DEF Unsettled
  <2>5. ex[o].st # "open"
    <3>1. SUFFICES ASSUME ex[o].st = "open" PROVE FALSE
      OBVIOUS
    <3>2. plan # None /\ o = plan.target
      BY <1>1, <2>3, <3>1 DEF ClosingRecorded
    <3>3. plan.phase = "canceling"
      BY <1>1, <2>4, <3>2, Typed DEF Submitting, Plans
    <3> QED
      BY <1>1, <3>1, <3>2, <3>3 DEF PlanInv
  <2>6. active'[o] = 0
    <3>1. Max({active[o], managed[o]}) = 0
      BY <2>1, <2>3, MaxOfTwo
    <3> QED
      BY <1>1, <3>1
  <2>7. Left'[o] = 0 /\ Reserves'[o] = 0
    BY <1>1, <1>2, <2>5, <2>6 DEF Left, Reserves
  <2> QED
    BY <2>7 DEF Covered
<1> QED
  BY <1>1, <1>2, <1>3 DEF CoverInv, SlackInv, Syncing

\* An order the exchange never had reserves nothing.
LEMMA CoverUnknown ==
  ASSUME IInv, NEW o \in Orders, job.at = "sync", ex[o].st = "none", Unknown(o),
         job' = [job EXCEPT !.todo = @ \ {o}],
         UNCHANGED <<exchange, fresh>>
  PROVE  CoverInv' /\ SlackInv'
<1>1. /\ TypeOK /\ ExInv /\ CoverInv /\ job \in Jobs /\ job \in Syncs /\ ex' = ex
  BY JobKinds DEF IInv, JobInv, exchange
<1>2. /\ job'.at = "sync" /\ job'.todo = job.todo \ {o}
      /\ Base = job /\ Base' = job' /\ Syncing
  BY <1>1, TodoForm DEF Base, After, Beneath, Syncing
<1>3. ~fresh /\ ~fresh'
  BY <1>2 DEF IInv, JobInv
<1>4. active'[o] = 0
  BY <1>1, Typed DEF Unknown, ExInv
<1>5. \A q \in Orders : q # o => active'[q] = active[q]
  BY <1>1, Typed DEF Unknown
<1>6. Covered(o)'
  BY <1>1, <1>2, <1>4 DEF Covered, Left, Reserves
<1>7. ASSUME NEW q \in Orders, q # o, Covered(q) PROVE Covered(q)'
  BY <1>1, <1>2, <1>5, <1>7 DEF Covered, Left, Reserves
<1>8. \A q \in Orders \ Base'.todo : Covered(q)'
  BY <1>1, <1>2, <1>6, <1>7 DEF CoverInv
<1> QED
  BY <1>3, <1>8 DEF CoverInv, SlackInv

\* Memory covers the exchange, and what it believes is free is free there.
LEMMA CoverKept ==
  ASSUME IInv, Next
  PROVE  CoverInv' /\ SlackInv'
<1>0. /\ TypeOK /\ JobInv /\ ExInv /\ CoverInv /\ SlackInv /\ job \in Jobs
      /\ Idle \in Nexts /\ Beneath(Idle) = Idle /\ Idle.at = "idle"
  BY DEF IInv, JobInv, Idle, Nexts, Beneath
<1> USE <1>0
<1>1. CASE EntryFills
  <2>1. UNCHANGED <<ex, active, job, fresh, known>> /\ pos' = pos + 1
    BY <1>1 DEF EntryFills, memory
  <2>2. Left' = Left /\ Reserves' = Reserves /\ Base' = Base /\ Syncing' = Syncing
    BY <2>1 DEF Left, Reserves, Base, After, Beneath, Syncing
  <2>3. /\ CoverInv'
        /\ Units(Left, Orders)' = Units(Left, Orders)
        /\ Units(Reserves, Orders)' = Units(Reserves, Orders)
    BY <2>1, <2>2, CoverFrame
  <2>4. /\ Units(Left, Orders) \in Nat /\ Units(Reserves, Orders) \in Nat
        /\ known \in Int /\ pos \in Int
    BY Numbers, Typed
  <2> QED
    BY <2>1, <2>3, <2>4 DEF SlackInv
<1>2. CASE Pause \/ Resume
  <2>1. UNCHANGED <<ex, pos, active, job, fresh, known>>
    BY <1>2 DEF Pause, Resume, exchange, memory
  <2>2. Left' = Left /\ Reserves' = Reserves /\ Base' = Base /\ Syncing' = Syncing
    BY <2>1 DEF Left, Reserves, Base, After, Beneath, Syncing
  <2> QED
    BY <2>1, <2>2, SlackFrame
<1>3. CASE Crash \/ SettleFails
  BY <1>3, CoverLost DEF Crash, SettleFails, Ends
<1>4. CASE Settle
  BY <1>4, CoverSettle
<1>5. CASE Interrupted
  BY <1>5, CoverPlain DEF Interrupted, Ends, memory, Syncing, Base, After, Beneath
<1>6. CASE Recover
  <2>1. /\ job'.at \in {"cancel", "adopt"} /\ job.at # "settle"
        /\ UNCHANGED <<exchange, memory>>
    BY <1>6 DEF Recover
  <2> QED
    BY <2>1, CoverPlain DEF memory, Syncing, Base, After, Beneath
<1>7. CASE SyncPosition
  <2>1. CASE fresh' = FALSE /\ job' = Idle
    BY <2>1, CoverLost
  <2>2. CASE known' = pos /\ fresh' = fresh /\ job' \in {[at |-> "adopt"], Idle}
    <3>1. /\ job.at = "cancel" /\ job'.at \in {"adopt", "idle"} /\ fresh
          /\ UNCHANGED <<ex, pos, active>> /\ Base'.at \in {"adopt", "idle"}
      BY <1>7, <2>2, Current
         DEF SyncPosition, SourcesEnded, exchange, Idle, Base, After, Beneath
    <3>2. \A o \in Orders : /\ ex'[o].done = ex[o].done
                            /\ Left'[o] = Left[o] /\ Reserves'[o] = Reserves[o]
      BY <3>1 DEF Left, Reserves
    <3>3. /\ CoverInv'
          /\ Units(Left, Orders)' = Units(Left, Orders)
          /\ Units(Reserves, Orders)' = Units(Reserves, Orders)
      BY <2>2, <3>1, <3>2, CoverFrame DEF Syncing
    <3>4. pos + Units(Left, Orders) <= pos + Units(Reserves, Orders)
      BY <3>1, SlackCovered DEF CoverInv
    <3> QED
      BY <2>2, <3>1, <3>3, <3>4 DEF SlackInv
  <2> QED
    BY <1>7, <2>1, <2>2 DEF SyncPosition, Ends
<1>8. CASE AdoptTarget
  <2>1. /\ plan.target \in Orders /\ job.at # "settle" /\ ex' = ex /\ pos' = pos
        /\ UNCHANGED <<active, known>> /\ ex \in [Orders -> States]
    BY <1>8, Current, Typed DEF AdoptTarget, exchange
  <2>2. CASE fresh' = FALSE /\ job' = Idle
    BY <2>2, CoverLost
  <2>3. CASE job' = [at |-> "decide"] /\ fresh' = fresh
    <3>1. job'.at = "decide" /\ Base'.at = "decide"
      BY <2>3 DEF Base, After, Beneath
    <3> QED
      BY <2>1, <2>3, <3>1, CoverPlain DEF exchange, Syncing
  <2>4. CASE /\ ex[plan.target].st # "none" /\ fresh' = fresh
             /\ job' = Settling(plan.target, ex[plan.target], Finishing(Idle))
    <3>1. ex[plan.target] \in Answers
      BY <2>1, <2>4, AnswerForm DEF States
    <3>2. Finishing(Idle) \in Nexts /\ Beneath(Finishing(Idle)) = Idle
      BY FinishingForm
    <3> QED
      BY <2>1, <2>4, <3>1, <3>2, CoverBegins
  <2> QED
    BY <1>8, <2>2, <2>3, <2>4 DEF AdoptTarget, Adopting, Ends
<1>9. CASE Decide
  <2>1. /\ job'.at \in {"idle", "send"} /\ job.at # "settle"
        /\ UNCHANGED <<exchange, memory>>
    BY <1>9 DEF Decide, Ends
  <2> QED
    BY <2>1, CoverPlain DEF memory, Syncing, Base, After, Beneath
<1>10. CASE Send
  <2>1. /\ plan.target \in Orders /\ job.at = "send"
        /\ UNCHANGED <<pos, active, known>> /\ plan.quantity \in 1..MaxPos
    BY <1>10, Current, SendFits DEF Send
  <2>2. CASE fresh' = FALSE /\ job' = Idle
    BY <2>2, CoverLost
  <2>3. CASE /\ ex' = Accepted(plan.target, plan.quantity) /\ fresh' = fresh
             /\ job' = Settling(plan.target, ex'[plan.target], Finishing(Idle))
    <3>1. /\ ex' \in [Orders -> States] /\ ex'[plan.target] \in Answers
          /\ \A q \in Orders : q # plan.target => ex'[q] = ex[q]
      BY <2>1, <2>3, AcceptedForm
    <3>2. ex[plan.target].done = 0
      BY <2>1 DEF IInv, PlanInv, ExInv
    <3>3. Finishing(Idle) \in Nexts /\ Beneath(Finishing(Idle)) = Idle
      BY FinishingForm
    <3> QED
      BY <2>1, <2>3, <3>1, <3>2, <3>3, CoverBegins
  <2> QED
    BY <1>10, <2>2, <2>3 DEF Send, Ends
<1>11. CASE Finish
  <2>1. job \in Finishes /\ job' = job.next /\ UNCHANGED <<exchange, memory>>
    BY <1>11, JobKinds DEF Finish
  <2>2. job.at = "finish" /\ job'.at # "settle" /\ Base = job' /\ Base' = job'
    BY <2>1 DEF Finishes, Syncs, Idle, Base, After, Beneath
  <2> QED
    BY <2>1, <2>2, CoverPlain DEF memory, Syncing
<1>12. CASE DeleteIntent
  <2>1. job \in Drains /\ job' = job.next /\ UNCHANGED <<exchange, memory>>
    BY <1>12, JobKinds DEF DeleteIntent
  <2>2. job.at = "drain" /\ job'.at # "settle" /\ Base = job' /\ Base' = job'
    BY <2>1 DEF Drains, Syncs, Base, After, Beneath
  <2> QED
    BY <2>1, <2>2, CoverPlain DEF memory, Syncing
<1>13. CASE Sync
  BY <1>13, CoverSync
<1>14. CASE SyncEnds
  <2>1. /\ job.at = "sync" /\ job.todo = {} /\ known' = pos /\ job' = Idle
        /\ UNCHANGED <<ex, pos, active>> /\ Base = job /\ Base' = Idle
    BY <1>14 DEF SyncEnds, Ends, exchange, Base, After, Beneath, Idle
  <2>2. Left' = Left /\ Reserves' = Reserves
    BY <2>1 DEF Left, Reserves
  <2>3. \A o \in Orders : Covered(o)
    BY <2>1 DEF CoverInv, Syncing
  <2>4. \A o \in Orders : Covered(o)'
    BY <2>1, <2>2, <2>3 DEF Covered
  <2>5. pos + Units(Left, Orders) <= pos + Units(Reserves, Orders)
    BY <2>3, SlackCovered
  <2> QED
    BY <2>1, <2>2, <2>4, <2>5 DEF CoverInv, SlackInv, Syncing
<1>15. CASE CancelPlan
  <2>1. plan.target \in Orders /\ UNCHANGED <<active, known>> /\ job = Idle
    BY <1>15, Current DEF CancelPlan
  <2>2. CASE TargetFound
    <3>1. CancelAndSettle(plan.target, Finishing(Idle))
      BY <1>15, <2>2 DEF CancelPlan
    <3>2. Finishing(Idle) \in Nexts /\ Beneath(Finishing(Idle)) = Idle
      BY FinishingForm
    <3> QED
      BY <2>1, <3>1, <3>2, CoverCancel
  <2>3. CASE ~TargetFound
    <3>1. /\ job' = Idle \/ job' = Finishing(Idle)
          /\ UNCHANGED <<exchange, fresh>>
      BY <1>15, <2>1, <2>3 DEF CancelPlan
    <3>2. job'.at # "settle" /\ Base' = Idle
      BY <3>1, FinishingForm, NextKinds DEF Base
    <3> QED
      BY <2>1, <3>1, <3>2, CoverPlain DEF Syncing
  <2> QED
    BY <2>2, <2>3
<1>16. ASSUME NEW t \in Targets, Allocate(t) PROVE CoverInv' /\ SlackInv'
  <2>1. /\ job'.at = "cancel" /\ job = Idle /\ UNCHANGED <<exchange, memory>>
    BY <1>16 DEF Allocate
  <2> QED
    BY <2>1, CoverPlain DEF memory, Syncing, Base, After, Beneath
<1>17. ASSUME NEW g \in Grid, Place(g) PROVE CoverInv' /\ SlackInv'
  BY <1>17, CoverPlace
<1>18. ASSUME NEW o \in Orders, ExchangeFills(o) PROVE CoverInv' /\ SlackInv'
  BY <1>18, CoverFills
<1>19. ASSUME NEW s \in Orders, CancelSource(s) PROVE CoverInv' /\ SlackInv'
  <2> DEFINE n == [job EXCEPT !.todo = @ \ {s}]
  <2>1. job \in Cancels /\ job.at = "cancel" /\ UNCHANGED <<active, known>>
    BY <1>19, JobKinds DEF CancelSource
  <2>2. n \in Nexts /\ Beneath(n).at # "sync"
    BY <2>1, TodoForm DEF Nexts, Beneath, Cancels
  <2>3. CancelAndSettle(s, n)
    BY <1>19 DEF CancelSource
  <2> HIDE DEF n
  <2> QED
    BY <2>1, <2>2, <2>3, CoverCancel
<1>20. ASSUME NEW o \in Orders, SyncOrder(o) PROVE CoverInv' /\ SlackInv'
  <2> DEFINE n == [job EXCEPT !.todo = @ \ {o}]
  <2>1. /\ job \in Syncs /\ job.at = "sync" /\ fresh' = fresh /\ ex' = ex
        /\ pos' = pos /\ known' = known /\ Base = job /\ Syncing /\ ~fresh
        /\ ex \in [Orders -> States]
    BY <1>20, JobKinds, Typed
       DEF SyncOrder, JobInv, Base, After, Beneath, Syncing, exchange
  <2>2. n \in Syncs /\ n.at = "sync" /\ n \in Nexts /\ Beneath(n) = n
        /\ n.todo = job.todo \ {o}
    BY <2>1, TodoForm DEF Nexts, Beneath, Syncs
  <2>3. CASE ex[o].st = "none" /\ Unknown(o) /\ job' = n
    BY <2>1, <2>3, CoverUnknown DEF exchange
  <2>4. CASE job' = Idle
    <3>1. fresh' = FALSE
      BY <2>1, Typed
    <3> QED
      BY <2>4, <3>1, CoverLost
  <2>5. CASE /\ ex[o].st # "none" /\ active' = active
             /\ job' = Settling(o, ex[o],
                  IF o \in intents
                  THEN [at |-> "drain", order |-> o, next |-> n]
                  ELSE IF Submitting /\ o = plan.target THEN Finishing(n)
                  ELSE n)
    <3>1. ex[o] \in Answers
      BY <2>1, <2>5, AnswerForm DEF States
    <3>2. o \in intents => o \in Pairs
      BY Typed
    <3> HIDE DEF n
    <3>3. PICK m : m \in Nexts /\ Beneath(m) = n /\ job' = Settling(o, ex[o], m)
      BY <2>2, <2>5, <3>2, DrainForm, FinishingForm
    <3>4. Base.todo \subseteq n.todo \cup {o}
      BY <2>1, <2>2
    <3> QED
      BY <2>1, <2>2, <2>5, <3>1, <3>3, <3>4, CoverBegins
  <2> QED
    BY <1>20, <2>3, <2>4, <2>5 DEF SyncOrder, Ends
<1>21. ASSUME NEW o \in Orders, CancelOrder(o) PROVE CoverInv' /\ SlackInv'
  BY <1>21, CoverCancel DEF CancelOrder
<1> QED
  BY <1>1, <1>2, <1>3, <1>4, <1>5, <1>6, <1>7, <1>8, <1>9, <1>10, <1>11,
     <1>12, <1>13, <1>14, <1>15, <1>16, <1>17, <1>18, <1>19, <1>20, <1>21,
     NextCases

\* A target that is not on the exchange stays off it, and the work is not, or
\* is still, the submission.
LEMMA PlanFrame ==
  ASSUME IInv, plan' = plan,
         \A o \in Orders : ex[o].st = "none" => ex'[o].st = "none",
         \/ job'.at \notin {"decide", "send"}
         \/ UNCHANGED <<job, known, active>>
  PROVE  PlanInv'
<1>1. PlanInv
  BY DEF IInv
<1>2. plan # None => plan.target \in Orders
  BY Current
<1>3. job.at \in {"decide", "send"} => plan # None
  BY Current
<1> QED
  BY <1>1, <1>2, <1>3 DEF PlanInv

\* Nothing is claimed where there is no plan.
LEMMA PlanGone ==
  ASSUME plan' = None, job'.at \notin {"decide", "send"}
  PROVE  PlanInv'
BY DEF PlanInv

\* What follows a settlement is no submission.
LEMMA NextPlain ==
  ASSUME NEW n \in Nexts
  PROVE  n.at \notin {"decide", "send"}
BY DEF Nexts, Idle, Syncs, Cancels, Finishes, Drains

\* A target is sent once, under its saved identity, and fits.
LEMMA PlanKept ==
  ASSUME IInv, Next
  PROVE  PlanInv'
<1>0. /\ TypeOK /\ JobInv /\ PlanInv /\ job \in Jobs /\ Idle.at = "idle"
  BY DEF IInv, JobInv, Idle
<1> USE <1>0
<1>1. CASE EntryFills \/ Pause \/ Resume
  BY <1>1, PlanFrame
     DEF EntryFills, Pause, Resume, exchange, durable, memory
<1>2. CASE Crash \/ SettleFails \/ Interrupted
  BY <1>2, PlanFrame
     DEF Crash, SettleFails, Interrupted, Ends, exchange, durable
<1>3. CASE Settle
  <2>1. job'.at \notin {"decide", "send"}
    BY <1>3, Current, NextPlain DEF Settle
  <2> QED
    BY <1>3, <2>1, PlanFrame DEF Settle, exchange
<1>4. CASE Recover
  <2>1. job'.at \in {"cancel", "adopt"} /\ UNCHANGED <<exchange, durable>>
    BY <1>4 DEF Recover
  <2> QED
    BY <2>1, PlanFrame DEF exchange, durable
<1>5. CASE SyncPosition
  <2>1. job'.at \in {"adopt", "idle"} /\ ex' = ex
    BY <1>5 DEF SyncPosition, Ends, exchange
  <2>2. CASE plan' = plan
    BY <2>1, <2>2, PlanFrame
  <2>3. CASE plan' = [plan EXCEPT !.phase = "submitting"]
    <3>1. plan \in Plans
      BY <1>5, Current DEF SyncPosition, SourcesEnded
    <3>2. plan'.phase = "submitting"
      BY <2>3, <3>1 DEF Plans
    <3> QED
      BY <2>1, <3>2 DEF PlanInv
  <2> QED
    BY <1>5, <2>2, <2>3 DEF SyncPosition
<1>6. CASE AdoptTarget
  <2>1. /\ plan.target \in Orders /\ ex' = ex /\ plan' = plan
        /\ plan.phase = "submitting"
    BY <1>6, Current DEF AdoptTarget, exchange, durable, JobInv
  <2>2. CASE ex[plan.target].st = "none" /\ job' = [at |-> "decide"]
    BY <2>1, <2>2 DEF PlanInv
  <2>3. CASE job'.at \notin {"decide", "send"}
    BY <2>1, <2>3, PlanFrame
  <2> QED
    BY <1>6, <2>2, <2>3 DEF AdoptTarget, Adopting, Settling, Ends
<1>7. CASE Decide
  <2>1. CASE plan' = None /\ job' = Idle
    BY <2>1, PlanGone
  <2>2. CASE plan' = plan /\ job' = Idle
    BY <1>7, <2>2, PlanFrame DEF Decide, exchange
  <2>3. CASE /\ Quantity > 0 /\ plan' = [plan EXCEPT !.quantity = Quantity]
             /\ job' = [at |-> "send"]
    <3>1. /\ plan \in Plans /\ plan.phase = "submitting"
          /\ UNCHANGED <<ex, active, known>> /\ ex[plan.target].st = "none"
      BY <1>7, Current DEF Decide, exchange, memory, JobInv, PlanInv
    <3>2. /\ plan'.phase = "submitting" /\ plan'.target = plan.target
          /\ plan'.quantity = Quantity
      BY <2>3, <3>1 DEF Plans
    <3>3. /\ Units(active, Reserving) \in Nat /\ plan.quantity \in Int
          /\ Units(active, Reserving) = Units(active, Orders)
      BY <3>1, Numbers, ReservingNat DEF Plans
    <3>4. Available(Reserving) \in Int
      BY <3>3, Typed DEF Available
    <3>5. Quantity <= Available(Reserving)
      BY <3>3, <3>4, MinOfTwo DEF Quantity
    <3>6. plan'.quantity <= known' - Units(active, Orders)'
      BY <3>1, <3>2, <3>3, <3>5 DEF Available
    <3> QED
      BY <2>3, <3>1, <3>2, <3>6 DEF PlanInv
  <2> QED
    BY <1>7, <2>1, <2>2, <2>3 DEF Decide, Ends
<1>8. CASE Send
  <2>1. /\ plan' = plan /\ plan.phase = "submitting"
        /\ \/ job' = Idle
           \/ \E s : job' = Settling(plan.target, s, Finishing(Idle))
    BY <1>8 DEF Send, JobInv, Ends, durable
  <2>2. job'.at \notin {"decide", "send"}
    BY <2>1 DEF Settling
  <2> QED
    BY <2>1, <2>2 DEF PlanInv
<1>9. CASE Finish
  <2>1. job'.at \notin {"decide", "send"} /\ plan' = None
    BY <1>9, JobKinds DEF Finish, Finishes, Syncs
  <2> QED
    BY <2>1, PlanGone
<1>10. CASE Sync \/ SyncEnds
  <2>1. job'.at \notin {"decide", "send"} /\ UNCHANGED <<exchange, durable>>
    BY <1>10 DEF Sync, SyncEnds, Ends
  <2> QED
    BY <2>1, PlanFrame DEF exchange, durable
<1>11. CASE DeleteIntent
  <2>1. job'.at \notin {"decide", "send"}
    BY <1>11, JobKinds DEF DeleteIntent, Drains, Syncs
  <2> QED
    BY <1>11, <2>1, PlanFrame DEF DeleteIntent, exchange
<1>12. CASE CancelPlan
  <2>1. plan.target \in Orders /\ plan' = plan /\ job = Idle
    BY <1>12, Current DEF CancelPlan, durable
  <2>2. CASE TargetFound
    <3>1. CancelAndSettle(plan.target, Finishing(Idle))
      BY <1>12, <2>2 DEF CancelPlan
    <3>2. \A o \in Orders : ex[o].st = "none" => ex'[o].st = "none"
      BY <2>1, <3>1, CancelEffect
    <3>3. job'.at \notin {"decide", "send"}
      BY <3>1 DEF CancelAndSettle, Settling, Ends
    <3> QED
      BY <2>1, <3>2, <3>3, PlanFrame
  <2>3. CASE ~TargetFound
    <3>1. job'.at \notin {"decide", "send"} /\ ex' = ex
      BY <1>12, <2>1, <2>3 DEF CancelPlan, Finishing, exchange
    <3> QED
      BY <2>1, <3>1, PlanFrame
  <2> QED
    BY <2>2, <2>3
<1>13. ASSUME NEW t \in Targets, Allocate(t) PROVE PlanInv'
  <2>1. /\ plan'.target = t /\ ex'[t].st = "none"
        /\ job'.at \notin {"decide", "send"}
    BY <1>13 DEF Allocate, exchange
  <2> QED
    BY <2>1 DEF PlanInv
<1>14. ASSUME NEW g \in Grid, Place(g) PROVE PlanInv'
  BY <1>14, PlanGone DEF Place
<1>15. ASSUME NEW o \in Orders, ExchangeFills(o) PROVE PlanInv'
  <2>1. \A q \in Orders : ex[q].st = "none" => ex'[q].st = "none"
    BY <1>15, Typed DEF ExchangeFills
  <2> QED
    BY <1>15, <2>1, PlanFrame DEF ExchangeFills, durable, memory
<1>16. ASSUME NEW o \in Orders, NEW n, CancelAndSettle(o, n), plan' = plan
       PROVE  PlanInv'
  <2>1. \A q \in Orders : ex[q].st = "none" => ex'[q].st = "none"
    BY <1>16, CancelEffect
  <2>2. job'.at \notin {"decide", "send"}
    BY <1>16 DEF CancelAndSettle, Settling, Ends
  <2> QED
    BY <1>16, <2>1, <2>2, PlanFrame
<1>17. ASSUME NEW s \in Orders, CancelSource(s) PROVE PlanInv'
  BY <1>16, <1>17 DEF CancelSource, durable
<1>18. ASSUME NEW o \in Orders, SyncOrder(o) PROVE PlanInv'
  <2> DEFINE k == [job EXCEPT !.todo = @ \ {o}]
  <2>1. k.at = "sync"
    BY <1>18, JobKinds, TodoForm DEF SyncOrder
  <2>2. job' = k \/ job' = Idle \/ \E n : job' = Settling(o, ex[o], n)
    BY <1>18 DEF SyncOrder, Ends
  <2> HIDE DEF k
  <2>3. job'.at \notin {"decide", "send"}
    BY <2>1, <2>2 DEF Settling
  <2> QED
    BY <1>18, <2>3, PlanFrame DEF SyncOrder, exchange
<1>19. ASSUME NEW o \in Orders, CancelOrder(o) PROVE PlanInv'
  BY <1>16, <1>19 DEF CancelOrder, durable
<1> QED
  BY <1>1, <1>2, <1>3, <1>4, <1>5, <1>6, <1>7, <1>8, <1>9, <1>10, <1>11,
     <1>12, <1>13, <1>14, <1>15, <1>17, <1>18, <1>19, NextCases

-----------------------------------------------------------------------------
(* The position.                                                            *)

\* No order has more left, and the position is no smaller.
LEMMA ClosesFrame ==
  ASSUME IInv, TypeOK', job' \in Jobs, pos <= pos',
         \A o \in Orders : Left'[o] <= Left[o]
  PROVE  ClosesWithinPosition'
<1>1. TypeOK /\ job \in Jobs /\ ClosesWithinPosition
  BY DEF IInv, JobInv
<1>2. \A o \in Orders : Left[o] \in Nat
  BY <1>1, Numbers
<1>3. \A o \in Orders : Left'[o] \in Nat
  BY Typed DEF TypeOK, Left
<1>4. Units(Left', Orders) <= Units(Left, Orders)
  BY <1>2, <1>3, UnitsGrow
<1>5. /\ Units(Left, Orders) \in Nat /\ Units(Left', Orders) \in Nat
      /\ pos \in Int /\ pos' \in Int
  BY <1>1, <1>2, <1>3, UnitsNat, Typed DEF TypeOK
<1> QED
  BY <1>1, <1>4, <1>5 DEF ClosesWithinPosition

\* An order that is accepted fits into what memory believes is free.
LEMMA ClosesAccepted ==
  ASSUME IInv, NEW o \in Orders, NEW q \in 1..MaxPos, ex' = Accepted(o, q),
         ex[o].st = "none", fresh, job.at # "settle", pos' = pos,
         q <= known - Units(active, Orders)
  PROVE  ClosesWithinPosition'
<1>1. TypeOK /\ job \in Jobs
  BY DEF IInv, JobInv
<1>2. /\ \A p \in Orders : p # o => ex'[p] = ex[p]
      /\ ex'[o] = [st |-> "open", left |-> q, done |-> 0]
  BY <1>1, AcceptedForm
<1>3. Left[o] = 0 /\ Left'[o] = q /\ q \in Nat
  BY <1>2, PlanAssumption DEF Left
<1>4. \A p \in Orders \ {o} : Left'[p] = Left[p]
  BY <1>2 DEF Left
<1>5. \A p \in Orders : Left[p] \in Nat /\ Left'[p] \in Nat
  BY <1>1, <1>3, <1>4, Numbers
<1>6. Units(Left', Orders) = Units(Left, Orders) - Left[o] + Left'[o]
  BY <1>4, <1>5, UnitsChange
<1>7. \A p \in Orders : active[p] \in Nat /\ Reserves[p] = active[p]
  BY <1>1, Numbers DEF Reserves
<1>8. Units(Reserves, Orders) = Units(active, Orders)
  BY <1>7, UnitsSame
<1>9. known + Units(Left, Orders) <= pos + Units(Reserves, Orders)
  BY DEF IInv, SlackInv
<1>10. /\ Units(Left, Orders) \in Nat /\ Units(active, Orders) \in Nat
       /\ known \in Int /\ pos \in Int
  BY <1>1, Numbers, Typed
<1>11. Units(Left', Orders) <= pos
  BY <1>3, <1>6, <1>8, <1>9, <1>10
<1> QED
  BY <1>11 DEF ClosesWithinPosition

\* Closing orders stay within the position.
LEMMA ClosesKept ==
  ASSUME IInv, Next
  PROVE  ClosesWithinPosition'
<1>0. /\ TypeOK /\ job \in Jobs /\ TypeOK' /\ job' \in Jobs /\ pos \in Int
  BY Typed, TypeKept, JobKept DEF IInv, JobInv
<1>1. \A o \in Orders : Left[o] \in Nat
  BY <1>0, Numbers
<1> USE <1>0
<1>2. CASE ex' = ex /\ pos <= pos'
  <2>1. Left' = Left
    BY <1>2 DEF Left
  <2> QED
    BY <1>1, <1>2, <2>1, ClosesFrame
<1>3. ASSUME NEW o \in Orders, NEW n, CancelAndSettle(o, n)
      PROVE  ClosesWithinPosition'
  <2>1. /\ pos' = pos /\ \A q \in Orders : q # o => ex'[q] = ex[q]
        /\ ex'[o].left = ex[o].left
        /\ \/ ex'[o].st = ex[o].st
           \/ ex[o].st = "open" /\ ex'[o].st = "ended"
    BY <1>3, CancelEffect
  <2>2. \A q \in Orders : Left'[q] = Left[q] \/ Left'[q] = 0
    BY <2>1 DEF Left
  <2>3. \A q \in Orders : Left'[q] <= Left[q]
    BY <1>1, <2>2
  <2> QED
    BY <2>1, <2>3, ClosesFrame
<1>4. CASE EntryFills
  BY <1>2, <1>4 DEF EntryFills
<1>4a. CASE SettleFails
  <2>1. UNCHANGED <<ex, pos>>
    BY <1>4a DEF SettleFails, exchange
  <2> QED
    BY <1>2, <2>1, Typed
<1>5. CASE \/ Pause \/ Resume \/ Crash \/ Settle \/ Recover
           \/ SyncPosition \/ Interrupted \/ AdoptTarget \/ Decide \/ Finish
           \/ Sync \/ DeleteIntent \/ SyncEnds
  BY <1>2, <1>5
     DEF Pause, Resume, Crash, Settle, Recover, SyncPosition,
         Interrupted, AdoptTarget, Decide, Finish, Sync, DeleteIntent, SyncEnds,
         exchange
<1>6. CASE Send
  <2>1. /\ plan.target \in Orders /\ job.at = "send" /\ fresh /\ pos' = pos
        /\ ex[plan.target].st = "none" /\ plan.quantity \in 1..MaxPos
        /\ plan.quantity <= known - Units(active, Orders)
    BY <1>6, Current, SendFits DEF Send, IInv, PlanInv
  <2>2. CASE ex' = Accepted(plan.target, plan.quantity)
    BY <2>1, <2>2, ClosesAccepted
  <2>3. CASE ex' = ex
    BY <1>2, <2>1, <2>3
  <2> QED
    BY <1>6, <2>2, <2>3 DEF Send
<1>7. CASE CancelPlan
  <2>1. plan.target \in Orders
    BY <1>7, Current DEF CancelPlan
  <2>2. CASE TargetFound
    BY <1>3, <1>7, <2>1, <2>2 DEF CancelPlan
  <2>3. CASE ~TargetFound
    BY <1>2, <1>7, <2>3 DEF CancelPlan, exchange
  <2> QED
    BY <2>2, <2>3
<1>8. ASSUME NEW t \in Targets, Allocate(t) PROVE ClosesWithinPosition'
  BY <1>2, <1>8 DEF Allocate, exchange
<1>9. ASSUME NEW g \in Grid, Place(g) PROVE ClosesWithinPosition'
  <2>1. /\ g \in Orders /\ job.at # "settle" /\ fresh /\ pos' = pos
        /\ ex[g].st = "none" /\ Full \in 1..MaxPos
    BY <1>9, FullFits DEF Place, Idle, Orders
  <2>2. Full <= known - Units(active, Orders)
    <3>1. /\ Units(active, Reserving) = Units(active, Orders)
          /\ Units(active, Orders) \in Nat
      BY ReservingNat
    <3> QED
      BY <1>9, <3>1, Typed DEF Place, Available
  <2>3. CASE ex' = Accepted(g, Full)
    BY <2>1, <2>2, <2>3, ClosesAccepted
  <2>4. CASE ex' = ex
    BY <1>2, <2>1, <2>4
  <2> QED
    BY <1>9, <2>3, <2>4 DEF Place
<1>10. ASSUME NEW o \in Orders, ExchangeFills(o) PROVE ClosesWithinPosition'
  <2>1. ex[o] \in States /\ ex[o].st = "open" /\ ex[o].left \in Nat /\ ex[o].left > 0
    BY <1>10, Numbers DEF ExchangeFills, IInv, ExInv
  <2>2. /\ \A q \in Orders : q # o => ex'[q] = ex[q]
        /\ ex'[o].left = ex[o].left - 1
        /\ ex'[o].st = IF ex[o].left = 1 THEN "ended" ELSE "open"
    BY <1>10, <2>1, Typed DEF ExchangeFills, States
  <2>3. Left[o] = ex[o].left /\ Left'[o] = Left[o] - 1
    BY <2>1, <2>2 DEF Left
  <2>4. \A q \in Orders \ {o} : Left'[q] = Left[q]
    BY <2>2 DEF Left
  <2>5. \A q \in Orders : Left'[q] \in Nat
    BY <1>1, <2>1, <2>3, <2>4
  <2>6. Units(Left', Orders) = Units(Left, Orders) - Left[o] + Left'[o]
    BY <1>1, <2>4, <2>5, UnitsChange
  <2>7. Units(Left, Orders) \in Nat /\ Units(Left, Orders) <= pos /\ Left[o] \in Nat
    BY <1>1, Numbers DEF IInv, ClosesWithinPosition
  <2>8. Units(Left', Orders) <= pos'
    BY <1>10, <2>3, <2>6, <2>7 DEF ExchangeFills
  <2> QED
    BY <2>8 DEF ClosesWithinPosition
<1>11. ASSUME NEW s \in Orders, CancelSource(s) PROVE ClosesWithinPosition'
  BY <1>3, <1>11 DEF CancelSource
<1>12. ASSUME NEW o \in Orders, SyncOrder(o) PROVE ClosesWithinPosition'
  BY <1>2, <1>12 DEF SyncOrder, exchange
<1>13. ASSUME NEW o \in Orders, CancelOrder(o) PROVE ClosesWithinPosition'
  BY <1>3, <1>13 DEF CancelOrder
<1> QED
  BY <1>4, <1>4a, <1>5, <1>6, <1>7, <1>8, <1>9, <1>10, <1>11, <1>12, <1>13, NextCases

-----------------------------------------------------------------------------
(* The records.                                                             *)

\* Only a stored intent or the plan speaks for an order that is not kept.
LEMMA RecordedParts ==
  ClosingRecorded <=>
    \A o \in Orders : \/ Kept(o) \/ o \in intents
                      \/ plan # None /\ o = plan.target
BY DEF ClosingRecorded, Kept

\* Orders stay kept, and an intent or the plan is only dropped for one that is.
LEMMA RecordedFrame ==
  ASSUME IInv, \A o \in Orders : Kept(o) => Kept(o)',
         \A o \in Orders : o \in intents => o \in intents' \/ Kept(o)',
         \A o \in Orders : plan # None /\ o = plan.target =>
           \/ plan' # None /\ plan'.target = o
           \/ Kept(o)'
  PROVE  ClosingRecorded'
<1>1. \A o \in Orders : \/ Kept(o) \/ o \in intents
                        \/ plan # None /\ o = plan.target
  BY RecordedParts DEF IInv
<1>2. \A o \in Orders : \/ Kept(o)' \/ o \in intents'
                        \/ plan' # None /\ o = plan'.target
  BY <1>1
<1> QED
  BY <1>2 DEF ClosingRecorded, Kept

\* A cancellation only ends what was open, and so kept.
LEMMA RecordedCancel ==
  ASSUME IInv, NEW o \in Orders, NEW n, CancelAndSettle(o, n), UNCHANGED durable
  PROVE  ClosingRecorded'
<1>1. /\ \A q \in Orders : q # o => ex'[q] = ex[q]
      /\ ex'[o].done = ex[o].done
      /\ \/ ex'[o].st = ex[o].st
         \/ ex[o].st = "open" /\ ex'[o].st = "ended"
  BY CancelEffect DEF IInv
<1>2. \A q \in Orders : Kept(q) => Kept(q)'
  BY <1>1 DEF Kept, durable
<1> QED
  BY <1>2, RecordedFrame DEF durable

\* An order the exchange accepted stays on record.
LEMMA RecordedKept ==
  ASSUME IInv, Next
  PROVE  ClosingRecorded'
<1>0. /\ TypeOK /\ JobInv /\ ExInv /\ PlanInv /\ job \in Jobs
      /\ managed \in [Orders -> 0..MaxPos]
  BY Typed DEF IInv, JobInv
<1> USE <1>0
<1>1. CASE UNCHANGED <<ex, durable>>
  <2>1. \A o \in Orders : Kept(o) => Kept(o)'
    BY <1>1 DEF Kept, durable
  <2> QED
    BY <1>1, <2>1, RecordedFrame DEF durable
<1>2. CASE \/ EntryFills \/ Pause \/ Resume \/ Crash \/ Recover \/ Interrupted
           \/ AdoptTarget \/ Sync \/ SyncEnds
  BY <1>1, <1>2
     DEF EntryFills, Pause, Resume, Crash, Recover, Interrupted, AdoptTarget,
         Sync, SyncEnds, exchange
<1>3. CASE Settle
  <2>1. \A q \in Orders : q = job.order => Kept(q)'
    BY <1>3, SettleKeeps
  <2>2. /\ ex' = ex /\ plan' = plan /\ intents' = intents
        /\ booked \subseteq booked'
        /\ \A q \in Orders : q # job.order => managed'[q] = managed[q]
    BY <1>3 DEF Settle, Adopts, exchange
  <2>3. \A q \in Orders : Kept(q) => Kept(q)'
    BY <2>1, <2>2 DEF Kept
  <2> QED
    BY <2>2, <2>3, RecordedFrame
<1>4. CASE SettleFails
  <2> DEFINE o == job.order
             kept == Max({active[o], job.seen.left, 1})
  <2>1. o \in Orders /\ active[o] \in Nat /\ job.seen.left \in Nat /\ 1 \in Nat
    BY <1>4, Current, Numbers, PlanAssumption DEF SettleFails
  <2>2. kept >= 1 /\ kept \in Nat
    BY <2>1, MaxOfThree
  <2>3. /\ \/ managed' = [managed EXCEPT ![o] = kept]
           \/ managed' = managed
        /\ UNCHANGED <<ex, plan, intents, booked>>
    BY <1>4 DEF SettleFails, exchange
  <2> HIDE DEF kept
  <2>4. /\ managed'[o] > 0 \/ managed'[o] = managed[o]
        /\ \A q \in Orders : q # o => managed'[q] = managed[q]
    BY <2>1, <2>2, <2>3
  <2>5. \A q \in Orders : Kept(q) => Kept(q)'
    BY <2>3, <2>4 DEF Kept
  <2> QED
    BY <2>3, <2>5, RecordedFrame
<1>5. CASE SyncPosition
  <2>1. plan # None /\ plan \in Plans
    BY <1>5, Current DEF SyncPosition, SourcesEnded
  <2>2. plan' \in Plans /\ plan'.target = plan.target
    BY <1>5, <2>1 DEF SyncPosition, Plans
  <2>3. UNCHANGED <<ex, managed, intents, booked>>
    BY <1>5 DEF SyncPosition, exchange
  <2>4. \A q \in Orders : Kept(q) => Kept(q)'
    BY <2>3 DEF Kept
  <2> QED
    BY <2>2, <2>3, <2>4, PlansReal, RecordedFrame
<1>6. CASE Decide
  <2>1. /\ plan # None /\ plan \in Plans /\ plan.target \in Orders
        /\ ex[plan.target].st = "none" /\ ex[plan.target].done = 0
    BY <1>6, Current DEF Decide, PlanInv, ExInv
  <2>2. UNCHANGED <<ex, managed, intents, booked>>
    BY <1>6 DEF Decide, exchange
  <2>3. \A q \in Orders : Kept(q) \/ q = plan.target => Kept(q)'
    BY <2>1, <2>2 DEF Kept
  <2> QED
    BY <2>2, <2>3, RecordedFrame
<1>7. CASE Send
  <2>1. /\ plan # None /\ plan.target \in Orders /\ UNCHANGED durable
        /\ plan.quantity \in 1..MaxPos
    BY <1>7, Current, SendFits DEF Send
  <2>2. CASE ex' = ex
    BY <1>1, <2>1, <2>2
  <2>3. CASE ex' = Accepted(plan.target, plan.quantity)
    <3>1. \A q \in Orders : q # plan.target => ex'[q] = ex[q]
      BY <2>1, <2>3, AcceptedForm
    <3>2. \A q \in Orders : q # plan.target /\ Kept(q) => Kept(q)'
      BY <2>1, <3>1 DEF Kept, durable
    <3>3. \A q \in Orders : \/ Kept(q) \/ q \in intents
                            \/ plan # None /\ q = plan.target
      BY RecordedParts DEF IInv
    <3>4. \A q \in Orders : \/ Kept(q)' \/ q \in intents'
                            \/ plan' # None /\ q = plan'.target
      BY <2>1, <3>2, <3>3 DEF durable
    <3> QED
      BY <3>4 DEF ClosingRecorded, Kept
  <2> QED
    BY <1>7, <2>2, <2>3 DEF Send
<1>8. CASE Finish
  <2>1. Kept(plan.target) /\ UNCHANGED <<ex, managed, intents, booked>>
    BY <1>8 DEF Finish, exchange, JobInv
  <2>2. \A q \in Orders : Kept(q) \/ q = plan.target => Kept(q)'
    BY <2>1 DEF Kept
  <2> QED
    BY <2>1, <2>2, RecordedFrame
<1>9. CASE DeleteIntent
  <2>1. /\ Kept(job.order) /\ UNCHANGED <<ex, managed, plan, booked>>
        /\ intents' = intents \ {job.order}
    BY <1>9 DEF DeleteIntent, exchange, JobInv
  <2>2. \A q \in Orders : Kept(q) \/ q = job.order => Kept(q)'
    BY <2>1 DEF Kept
  <2> QED
    BY <2>1, <2>2, RecordedFrame
<1>10. CASE CancelPlan
  <2>1. plan.target \in Orders /\ UNCHANGED durable
    BY <1>10, Current DEF CancelPlan
  <2>2. CASE TargetFound
    BY <1>10, <2>1, <2>2, RecordedCancel DEF CancelPlan
  <2>3. CASE ~TargetFound
    BY <1>1, <1>10, <2>1, <2>3 DEF CancelPlan, exchange
  <2> QED
    BY <2>2, <2>3
<1>11. ASSUME NEW t \in Targets, Allocate(t) PROVE ClosingRecorded'
  <2>1. plan = None /\ UNCHANGED <<ex, managed, intents, booked>>
    BY <1>11 DEF Allocate, exchange
  <2>2. \A q \in Orders : Kept(q) => Kept(q)'
    BY <2>1 DEF Kept
  <2> QED
    BY <2>1, <2>2, RecordedFrame
<1>12. ASSUME NEW g \in Grid, Place(g) PROVE ClosingRecorded'
  <2>1. g \in Orders /\ Full \in 1..MaxPos /\ Full > 0
    BY <1>12, FullFits, PlanAssumption DEF Place, Orders
  <2>2. ex' = ex \/ ex' = Accepted(g, Full)
    BY <1>12 DEF Place
  <2>3. /\ UNCHANGED <<plan, intents, booked>>
        /\ managed' = [managed EXCEPT ![g] = Full]
        /\ \A q \in Orders : q # g => ex'[q] = ex[q]
    <3>1. \A q \in Orders : q # g => Accepted(g, Full)[q] = ex[q]
      BY <2>1, AcceptedForm
    <3> QED
      BY <1>12, <2>2, <3>1 DEF Place
  <2>4. managed'[g] > 0 /\ \A q \in Orders : q # g => managed'[q] = managed[q]
    BY <2>1, <2>3
  <2>5. \A q \in Orders : Kept(q) => Kept(q)'
    BY <2>3, <2>4 DEF Kept
  <2> QED
    BY <2>3, <2>5, RecordedFrame
<1>13. ASSUME NEW o \in Orders, ExchangeFills(o) PROVE ClosingRecorded'
  <2>1. \A q \in Orders : Kept(q) => Kept(q)'
    BY <1>13, Typed DEF ExchangeFills, durable, Kept, States
  <2> QED
    BY <1>13, <2>1, RecordedFrame DEF ExchangeFills, durable
<1>14. ASSUME NEW s \in Orders, CancelSource(s) PROVE ClosingRecorded'
  BY <1>14, RecordedCancel DEF CancelSource
<1>15. ASSUME NEW o \in Orders, SyncOrder(o) PROVE ClosingRecorded'
  <2>1. UNCHANGED <<ex, plan, booked>>
    BY <1>15 DEF SyncOrder, exchange
  <2>2. CASE UNCHANGED <<managed, intents>>
    BY <1>1, <2>1, <2>2 DEF durable
  <2>3. CASE ex[o].st = "none" /\ managed' = [managed EXCEPT ![o] = 0]
             /\ intents' = intents \ {o}
    <3>1. ex[o].done = 0
      BY <2>3 DEF ExInv
    <3>2. Kept(o)' /\ \A q \in Orders : Kept(q) => Kept(q)'
      BY <2>1, <2>3, <3>1 DEF Kept
    <3> QED
      BY <2>1, <2>3, <3>2, RecordedFrame
  <2> QED
    BY <1>15, <2>2, <2>3 DEF SyncOrder, Unknown
<1>16. ASSUME NEW o \in Orders, CancelOrder(o) PROVE ClosingRecorded'
  BY <1>16, RecordedCancel DEF CancelOrder
<1> QED
  BY <1>2, <1>3, <1>4, <1>5, <1>6, <1>7, <1>8, <1>9, <1>10, <1>11, <1>12,
     <1>13, <1>14, <1>15, <1>16, NextCases

-----------------------------------------------------------------------------
(* The theorems.                                                            *)

\* Every step keeps the invariant.
LEMMA StepKept ==
  ASSUME IInv, [Next]_vars
  PROVE  IInv'
<1>1. CASE Next
  BY <1>1, TypeKept, JobKept, ExKept, CoverKept, PlanKept, ClosesKept,
     RecordedKept DEF IInv
<1>2. CASE UNCHANGED vars
  BY <1>2 DEF vars, exchange, durable, memory, counters, IInv, TypeOK, JobInv,
     ExInv, CoverInv, SlackInv, PlanInv, ClosesWithinPosition, ClosingRecorded,
     Base, After, Beneath, Syncing, Kept, Reserves, Left, Covered
<1> QED
  BY <1>1, <1>2

\* What memory, the plan and the engine's work may be, in every reachable
\* state (remainder.rs, execute_remainder_plan).
THEOREM Invariance == Spec => []IInv
<1>1. Init => IInv
  BY InitHolds
<1>2. IInv /\ [Next]_vars => IInv'
  BY StepKept
<1> QED
  BY <1>1, <1>2, PTL DEF Spec

\* Quantities stay within the position's bound, and a plan names a target of its
\* own (model.rs, RemainderPlan).
THEOREM TypeCorrect == Spec => []TypeOK
<1>1. IInv => TypeOK
  BY DEF IInv
<1> QED
  BY <1>1, Invariance, PTL

\* Merging remainders never lets closing orders exceed the position, and never
\* loses an order the exchange accepted (remainder.rs, execute_remainder_plan
\* and settle_remainder_order).
THEOREM ClosingCorrect == Spec => []ClosingHolds
<1>1. IInv => ClosingHolds
  BY DEF IInv, ClosingHolds
<1> QED
  BY <1>1, Invariance, PTL

=============================================================================
