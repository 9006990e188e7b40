------------------------------ MODULE GridWindow ------------------------------
(* The orders of one grid around the market (strategy/grid.rs,                *)
(* maintain_grid_window and what it calls).                                   *)
(*                                                                            *)
(* Levels are multiples of Interval.  Each side keeps its next levels below   *)
(* or above the mark price, without the level of the last trade and those     *)
(* beside an order that is partly executed.  A round cancels what must go and *)
(* ends; a round with nothing to cancel places what is missing and can be     *)
(* had.  Between its steps somebody may pause, and an order that is cancelled *)
(* may prove executed.  On paper the last price executes what it crosses.     *)
EXTENDS Integers, SequencesExt

CONSTANTS
    Setups,      \* [paper, long, policy] of the pair
    Markets,     \* <<last price, mark price>>
    Interval, MinPrice, MaxPrice, Amount, Windows, \* of the configuration
    Limit,       \* max_position_usdc
    Dangers,     \* mark prices too close to the liquidation
    Restored,    \* the orders restored by the start
    MaxMoves,    \* bound: prices that come, or stay away
    MaxFills,    \* bound: executions and trades of others
    MaxFaults,   \* bound: requests that fail
    MaxToggles   \* bound: pauses

VARIABLES setup, last, mark, fresh, size, orders, lastFill, running, step, used

market == <<last, mark, fresh>>
book == <<size, orders, lastFill>>
vars == <<setup, market, book, running, step, used>>

Sides == {"Buy", "Sell"}
Opening == IF setup.long THEN "Buy" ELSE "Sell"
Closing == IF setup.long THEN "Sell" ELSE "Buy"
Sign == IF setup.long THEN 1 ELSE -1
Loop == [at |-> "loop"]

Abs(n) == IF n < 0 THEN -n ELSE n
Most(a, b) == IF a < b THEN b ELSE a
Least(a, b) == IF a < b THEN a ELSE b
Sum(S, value(_)) == FoldSet(LAMBDA o, n : n + value(o), 0, S)

Book == ToSet(orders)
On(side) == {o \in Book : o.side = side}
Idle(o) == ~o.partly   \* is_window_order
Held == Most(size * Sign, 0)
Reserved == LET of(o) == o.qty IN Sum(On(Closing), of)

Use(what, bound) == used[what] < bound /\ used' = [used EXCEPT ![what] = @ + 1]

-----------------------------------------------------------------------------
(* Levels (strategy/precision.rs).                                           *)

Quantity(price) == Amount \div price
IsLevel(price) == price % Interval = 0
Lowest == Most(MinPrice, Interval)

\* The nearest level on each side; none at the market price.
Start(side) ==
    IF side = "Buy"
    THEN Least((mark + Interval - 1) \div Interval - 1, MaxPrice \div Interval)
           * Interval
    ELSE Most(mark \div Interval + 1, (Lowest + Interval - 1) \div Interval)
           * Interval
\* Beside the last trade there is no order.
Free(price) == lastFill = 0 \/ Abs(price - lastFill) >= Interval

WindowPrices(side) ==
    LET levels == {p \in Lowest..MaxPrice : IsLevel(p) /\ Free(p)
                     /\ IF side = "Buy" THEN p <= Start(side) ELSE p >= Start(side)}
        nearer(p, q) == IF side = "Buy" THEN p > q ELSE p < q
        sorted == SetToSortSeq(levels, nearer)
    IN SubSeq(sorted, 1, Least(Windows[side], Len(sorted)))

IsMaker(side, price) == IF side = "Buy" THEN price < last ELSE price > last
Near(prices, price) == \E p \in prices : Abs(p - price) < Interval

-----------------------------------------------------------------------------
(* Limits.                                                                   *)

LimitReached ==
    setup.policy = "pause" /\ size # 0 /\ Abs(size) * mark >= Limit

\* opening_suspended_at_limit
Suspended ==
    /\ size # 0
    /\ \/ setup.policy = "cancel" /\ (~fresh \/ Abs(size) * mark >= Limit)
       \/ setup.policy = "liquidation" /\ (~fresh \/ mark \in Dangers)

\* A full order more would not fit.
Projected(price) ==
    /\ setup.policy = "pause"
    /\ Abs(size + Sign * Quantity(price)) * mark > Most(Limit, Abs(size) * mark)
Exposure(price) ==
    LET value(o) == o.price * o.qty
    IN Held * Most(Most(mark, last), price) + Sum(On(Opening), value)
         + price * Quantity(price)

-----------------------------------------------------------------------------
(* Orders.                                                                   *)

\* The book is in the order of creation.
Older(p, o) == \E j, k \in DOMAIN orders : j < k /\ orders[j] = p /\ orders[k] = o
NewId == CHOOSE n \in 1..(Len(orders) + 1) : \A o \in Book : o.id # n
Removed(id) == SelectSeq(orders, LAMBDA o : o.id # id)
Place(side, price) ==
    orders' = Append(orders, [id |-> NewId, side |-> side, price |-> price,
                              qty |-> Quantity(price), partly |-> FALSE])
Bought(o, n) == IF o.side = "Buy" THEN n ELSE -n

Executed(o, n, left) ==
    /\ size' = size + Bought(o, n) /\ lastFill' = o.price
    /\ orders' = left

\* cancel_single_order: cancelled, executed before that as a whole or in part,
\* or not known to be cancelled.
Cancelled(o) ==
    /\ orders' = Removed(o.id)
    /\ UNCHANGED <<size, lastFill, used>>
Filled(o) ==
    /\ ~setup.paper /\ Use("fills", MaxFills)
    /\ \E n \in {1, o.qty} : Executed(o, n, Removed(o.id))
NotCancelled ==
    /\ ~setup.paper /\ Use("faults", MaxFaults) /\ UNCHANGED book

\* cancel_all_orders after a pause of the engine's own.
PauseAndCancel ==
    /\ running' = FALSE /\ step' = Loop
    /\ \/ orders' = <<>> /\ UNCHANGED used
       \/ ~setup.paper /\ Use("faults", MaxFaults) /\ UNCHANGED orders
    /\ UNCHANGED <<setup, market, size, lastFill>>

\* On to another step, or back to the loop.
Goto(s) == step' = s /\ UNCHANGED <<setup, market, book, running, used>>

\* A round cancels a set of orders one by one while it is not paused, and may
\* go on after one that failed.
CancelOne(kind, patient) ==
    /\ step.at = kind /\ step.rest # {} /\ running
    /\ \E o \in step.rest :
         \/ /\ Cancelled(o) \/ Filled(o)
            /\ step' = [step EXCEPT !.rest = @ \ {o}]
         \/ /\ NotCancelled
            /\ step' = IF patient
                       THEN [step EXCEPT !.rest = @ \ {o}, !.ok = FALSE]
                       ELSE Loop
    /\ UNCHANGED <<setup, market, running>>
Interrupted(kind) ==
    /\ step.at = kind /\ step.rest # {} /\ ~running /\ Goto(Loop)

-----------------------------------------------------------------------------
(* A round.                                                                  *)

WrongWay == size * Sign < 0

\* cancel_suspended_opening_orders; then is the step after it.
Protecting(then) ==
    [at |-> "suspend", ok |-> TRUE, then |-> then,
     rest |-> IF Suspended THEN {o \in On(Opening) : Idle(o)} ELSE {}]
Begin ==
    /\ step.at = "loop" /\ running
    /\ IF WrongWay THEN PauseAndCancel
       ELSE Goto(Protecting([at |-> "check", for |-> "window"]))
Protected ==
    /\ step.at = "suspend" /\ step.rest = {}
    /\ Goto(IF step.ok \/ step.then.at = "place" THEN step.then ELSE Loop)

\* trim_closing_orders_to_position, the nearest first.
NearestClosing ==
    LET before(a, b) == \/ IF setup.long THEN a.price < b.price
                                         ELSE a.price > b.price
                        \/ a.price = b.price /\ a.id < b.id
    IN SetToSortSeq(On(Closing), before)
Trimming == [at |-> "trim", todo |-> NearestClosing, left |-> Held]
Check ==
    /\ step.at = "check"
    /\ IF running /\ LimitReached THEN PauseAndCancel
       ELSE Goto(CASE step.for = "fills" -> [at |-> "match"]
                   [] step.for = "window" /\ fresh -> Trimming
                   [] OTHER -> Loop)

KeepsClosing(o) == TRUE   \* faulty: the position is not looked at
Covered(o) == o.qty <= step.left
Trim ==
    /\ step.at = "trim" /\ step.todo # <<>>
    /\ LET o == Head(step.todo)
           next == [step EXCEPT !.todo = Tail(@)]
       IN \/ /\ Covered(o)
             /\ Goto([next EXCEPT !.left = @ - o.qty])
          \/ /\ ~Covered(o) /\ (Cancelled(o) \/ Filled(o)) /\ step' = next
             /\ UNCHANGED <<setup, market, running>>
          \/ /\ ~Covered(o) /\ NotCancelled /\ step' = [next EXCEPT !.left = 0]
             /\ UNCHANGED <<setup, market, running>>

\* Orders of another interval are cancelled first of all.
Misaligned == {o \in Book : Idle(o) /\ ~IsLevel(o.price)}
Align ==
    /\ step.at = "trim" /\ step.todo = <<>>
    /\ Goto(IF Misaligned = {} THEN [at |-> "window"]
            ELSE [at |-> "cancel", rest |-> Misaligned])

Desired(side) ==
    LET kept == {o.price : o \in {p \in On(side) : ~Idle(p)}}
    IN IF side = Opening /\ Suspended THEN <<>>
       ELSE SelectSeq(WindowPrices(side), LAMBDA p : ~Near(kept, p))

\* prune_grid_window: what stands where nothing is wanted, and all but the
\* oldest of those that stand on one level.
Obsolete(wanted) ==
    {o \in Book :
       /\ Idle(o)
       /\ \/ o.price \notin wanted[o.side]
          \/ \E p \in Book : /\ p.side = o.side /\ p.price = o.price
                             /\ ~Idle(p) \/ (Idle(p) /\ Older(p, o))}
Window ==
    /\ step.at = "window"
    /\ LET wanted == [s \in Sides |-> ToSet(Desired(s))]
           levels(s) == [k \in DOMAIN Desired(s) |-> <<s, Desired(s)[k]>>]
           had == {<<o.side, o.price>> : o \in Book}
       IN Goto(IF Obsolete(wanted) # {}
               THEN [at |-> "cancel", rest |-> Obsolete(wanted)]
               ELSE [at |-> "place", todo |-> levels("Buy") \o levels("Sell"),
                     wanted |-> wanted, had |-> had])

CancelEnds ==
    /\ step.at = "cancel" /\ step.rest = {} /\ Goto(Loop)

-----------------------------------------------------------------------------
(* place_grid_order, for the next level of either side.                      *)

Level == step.todo[1]
Left == [step EXCEPT !.todo = Tail(@)]
Skip == Goto(Left)

\* The window is computed again: what was executed meanwhile counts.
CanStand(side, price) ==
    /\ IsMaker(side, price)
    /\ Contains(WindowPrices(side), price)
    /\ ~Near({o.price : o \in On(side)}, price)
    /\ Quantity(price) > 0
Affordable(side, price) ==
    IF side = Opening
    THEN setup.policy = "none" \/ Exposure(price) <= Limit
    ELSE Quantity(price) <= Held - Reserved

Had == LET side == Level[1]
       IN Near({h[2] : h \in {g \in step.had : g[1] = side}}, Level[2])
PlaceNext ==
    /\ step.at = "place" /\ step.todo # <<>>
    /\ LET side == Level[1]
           price == Level[2]
       IN CASE Had \/ ~running -> Skip
            [] ~Had /\ running /\ WrongWay -> PauseAndCancel
            [] ~Had /\ running /\ ~WrongWay /\ side = Opening /\ Suspended ->
                 Goto(Protecting(Left))
            [] ~Had /\ running /\ ~WrongWay /\ ~(side = Opening /\ Suspended) ->
                 IF LimitReached THEN PauseAndCancel
                 ELSE IF ~fresh \/ ~CanStand(side, price) THEN Skip
                 ELSE IF side = Opening /\ Projected(price) THEN PauseAndCancel
                 ELSE IF ~Affordable(side, price) THEN Skip
                 ELSE \/ /\ Place(side, price)
                         /\ step' = [Left EXCEPT !.at = "placed",
                                       !.had = @ \cup {<<side, price>>}]
                         /\ UNCHANGED <<setup, market, size, lastFill, running,
                                        used>>
                      \/ /\ ~setup.paper /\ Use("faults", MaxFaults)
                         /\ step' = Left
                         /\ UNCHANGED <<setup, market, book, running>>

\* After each order, and at the end, the window is pruned again.
Prune ==
    /\ \/ step.at = "placed"
       \/ step.at = "place" /\ step.todo = <<>>
    /\ LET gone == Obsolete(step.wanted)
       IN Goto(CASE gone # {} -> [at |-> "cancel", rest |-> gone]
                 [] gone = {} /\ step.at = "placed" -> [step EXCEPT !.at = "place"]
                 [] OTHER -> Loop)

-----------------------------------------------------------------------------
(* simulate_order_fills, on paper.                                           *)

Crossed(o) == IF o.side = "Buy" THEN last <= o.price ELSE last >= o.price
Fills ==
    LET before(a, b) ==
          \/ a.side = "Buy" /\ b.side = "Sell"
          \/ /\ a.side = b.side
             /\ \/ IF a.side = "Buy" THEN a.price > b.price ELSE a.price < b.price
                \/ a.price = b.price /\ a.id < b.id
    IN SetToSortSeq({o \in Book : Crossed(o)}, before)
Match ==
    /\ step.at = "match"
    /\ IF running /\ WrongWay THEN PauseAndCancel
       ELSE Goto(IF running /\ fresh THEN [at |-> "fills", todo |-> Fills] ELSE Loop)

\* A closing order is executed as far as the position goes.
FillNext ==
    /\ step.at = "fills" /\ step.todo # <<>> /\ running
    /\ LET o == Head(step.todo)
           n == IF o.side = Closing THEN Least(o.qty, Held) ELSE o.qty
       IN IF n = 0 THEN orders' = Removed(o.id) /\ UNCHANGED <<size, lastFill>>
          ELSE Executed(o, n, Removed(o.id))
    /\ step' = [step EXCEPT !.at = "filled", !.todo = Tail(@)]
    /\ UNCHANGED <<setup, market, running, used>>
FilledLimit ==
    /\ step.at = "filled"
    /\ IF running /\ LimitReached THEN PauseAndCancel
       ELSE Goto([step EXCEPT !.at = "fills"])
FillsEnd ==
    /\ step.at = "fills" /\ (step.todo = <<>> \/ ~running) /\ Goto(Loop)

-----------------------------------------------------------------------------
(* The market, the exchange, others, and the controls.                       *)

\* A price is taken by the loop.
Prices(m) ==
    /\ step.at = "loop" /\ Use("moves", MaxMoves) /\ <<last, mark>> # m
    /\ last' = m[1] /\ mark' = m[2] /\ fresh' = TRUE
    /\ step' = [at |-> "came"]
    /\ UNCHANGED <<setup, book, running>>
Came ==
    /\ step.at = "came"
    /\ Goto(IF running
            THEN Protecting([at |-> "check",
                             for |-> IF setup.paper THEN "fills" ELSE "loop"])
            ELSE Loop)
Silence ==
    /\ fresh /\ Use("moves", MaxMoves) /\ fresh' = FALSE
    /\ UNCHANGED <<setup, last, mark, book, running, step>>

\* What the synchronization finds: an order executed as a whole or in part, a
\* position that somebody else changed.
SyncFill(o) ==
    /\ step.at = "loop" /\ ~setup.paper /\ Use("fills", MaxFills)
    /\ \/ Executed(o, o.qty, Removed(o.id))
       \/ /\ o.qty > 1
          /\ size' = size + Bought(o, 1)
          /\ orders' = [k \in DOMAIN orders |->
                IF orders[k] = o THEN [o EXCEPT !.qty = @ - 1, !.partly = TRUE]
                ELSE orders[k]]
          /\ UNCHANGED lastFill
    /\ UNCHANGED <<setup, market, running, step>>
SyncPosition(n) ==
    /\ step.at = "loop" /\ ~setup.paper /\ Use("fills", MaxFills)
    /\ size' = size + n
    /\ UNCHANGED <<setup, market, orders, lastFill, running, step>>

Pause ==
    /\ running /\ Use("toggles", MaxToggles) /\ running' = FALSE
    /\ UNCHANGED <<setup, market, book, step>>
CancelAll ==
    /\ step.at = "loop" /\ ~running /\ orders # <<>> /\ orders' = <<>>
    /\ UNCHANGED <<setup, market, size, lastFill, running, step, used>>
Resume ==
    /\ step.at = "loop" /\ ~running /\ orders = <<>> /\ running' = TRUE
    /\ used.toggles < MaxToggles + 1
    /\ used' = [used EXCEPT !.toggles = @ + 1]
    /\ UNCHANGED <<setup, market, book, step>>

Init ==
    /\ setup \in Setups
    /\ \E m \in Markets : last = m[1] /\ mark = m[2]
    /\ fresh = TRUE /\ size = 0 /\ lastFill = 0
    /\ orders \in Restored
    /\ running = TRUE /\ step = Loop
    /\ used = [moves |-> 0, fills |-> 0, faults |-> 0, toggles |-> 0]

EngineStep ==
    \/ Begin \/ Protected \/ Check \/ Trim \/ Align \/ Window \/ PlaceNext \/ Prune
    \/ CancelOne("suspend", TRUE) \/ CancelOne("cancel", FALSE)
    \/ Interrupted("suspend") \/ Interrupted("cancel") \/ CancelEnds
    \/ Match \/ FillNext \/ FilledLimit \/ FillsEnd \/ Came
Next ==
    \/ EngineStep \/ Silence \/ Pause \/ CancelAll \/ Resume
    \/ \E m \in Markets : Prices(m)
    \/ \E o \in Book : SyncFill(o)
    \/ \E n \in {-1, 1} : SyncPosition(n)

\* The timer of the synchronization begins rounds again and again.
Fairness == WF_vars(EngineStep)
Spec == Init /\ [][Next]_vars /\ Fairness

-----------------------------------------------------------------------------
TypeOK ==
    /\ setup \in Setups /\ <<last, mark>> \in Markets /\ fresh \in BOOLEAN
    /\ size \in Int /\ lastFill \in 0..MaxPrice /\ running \in BOOLEAN
    /\ \A o \in Book : /\ o.side \in Sides /\ o.price \in 1..MaxPrice
                       /\ o.qty \in 1..Amount /\ o.partly \in BOOLEAN
    /\ \A j, k \in DOMAIN orders : orders[j].id = orders[k].id => j = k

\* What must be there, without the code's way to it: the nearest levels of
\* each side of the mark price.
Nearest(side) ==
    LET all == {p \in Lowest..MaxPrice : p % Interval = 0 /\ Free(p)
                  /\ IF side = "Buy" THEN p < mark ELSE p > mark}
    IN {p \in all : Cardinality({q \in all : Abs(q - mark) < Abs(p - mark)})
                      < Windows[side]}
Standing(side) == {o.price : o \in {p \in On(side) : Idle(p)}}
Established ==
    /\ ~WrongWay /\ Reserved <= Held
    /\ \A side \in Sides :
         /\ Standing(side) \subseteq Nearest(side)
         /\ \A o, p \in On(side) : o # p => Abs(o.price - p.price) >= Interval
         /\ IF side = Opening /\ Suspended THEN Standing(side) = {}
            ELSE \A p \in Nearest(side) :
                   \/ p \in Standing(side)
                   \/ ~IsMaker(side, p) \/ Quantity(p) = 0
                   \/ Near({o.price : o \in On(side)}, p)
                   \/ ~Affordable(side, p)

\* Once prices, executions and controls rest, a running grid becomes the
\* nearest levels that can be had, and stays so: no two rules undo each other's
\* orders for ever (strategy/grid.rs, maintain_grid_window).
GridSettles == <>[](running /\ fresh => Established)
==============================================================================
