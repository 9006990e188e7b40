--------------------------- MODULE OrderLifecycle ---------------------------
(***************************************************************************)
(* One live strategy's opening orders, from the intent to the trade         *)
(* history (GridBot in strategy/grid.rs and strategy/reconciliation.rs).    *)
(*                                                                          *)
(* The engine is one task, but nothing it talks to waits for it.  The       *)
(* exchange accepts, fills and ends orders at any moment; its answers may   *)
(* be lost or lag behind; the database may refuse a write; the user may     *)
(* pause; the process may die.  What an order still claims is kept twice:   *)
(* active_orders in memory, which the exposure check reads, and             *)
(* managed_orders in the database, which a start restores.                  *)
(*                                                                          *)
(* An order id is used once, so an order is its id.  Prices are abstracted  *)
(* to the level of the order and amounts to units; closing orders, legacy   *)
(* pair intents, remainder plans and contradicting identities are left out. *)
(***************************************************************************)
EXTENDS Integers, FiniteSets, Functions

CONSTANTS
    Orders,      \* the ids of the orders
    Levels,      \* the levels of the grid window
    Size,        \* the quantity of every order, in units
    Limit,       \* max_position_usdc, in units
    MaxFaults,   \* bound: lost or lagging answers and failed writes
    MaxCrashes,  \* bound: ends of the process
    MaxInputs    \* bound: pauses, resumes and rebalances

ASSUME OrderAssumption ==
    /\ IsFiniteSet(Orders) /\ Orders # {}
    /\ "none" \notin Orders /\ Levels # {}
    /\ Size \in Nat \ {0} /\ Limit \in Nat
    /\ MaxFaults \in Nat /\ MaxCrashes \in Nat /\ MaxInputs \in Nat

VARIABLES
    level,     \* the grid level each order is meant for
    ex,        \* the exchange: the state of each order and its executed units
    active,    \* active_orders: what each order still reserves
    managed,   \* managed_orders: the same, in the database
    ledger,    \* the recorded and the cleared trades
    pos,       \* position.size, as last synced
    ready,     \* last_orders_sync and last_account_sync are set and unblocked
    running,   \* status = Running
    engine,    \* where the engine is
    asked,     \* a pause waits for its cancellation in the control queue
    used       \* faults, crashes and inputs used

bot == <<pos, ready, running, engine, asked>>
outside == <<level, ex, ledger, asked>>
vars == <<level, ex, active, managed, ledger, pos, ready, running, engine,
          asked, used>>

ExStates == {"unsent", "flying", "open", "filled", "canceled", "refused", "gone"}
EnginePcs == {"down", "bootAccount", "idle", "intent", "sent", "query",
              "partial", "adopt", "confirm", "fill", "commit", "remove",
              "list", "restore", "refresh", "save", "lookup", "settle",
              "account", "load", "cancelList", "cancelEach", "clear"}
Purposes == {"boot", "tick", "cancel"}

PartialFunctions(S, T) == UNION {[D -> T] : D \in SUBSET S}
\* f, and g where f says nothing.
Over(f, g) ==
    [o \in DOMAIN f \cup DOMAIN g |-> IF o \in DOMAIN f THEN f[o] ELSE g[o]]
Put(f, o, q) == Over([p \in {o} |-> q], f)
Drop(f, o) == Restrict(f, DOMAIN f \ {o})
Empty == [o \in {} |-> 0]

Accepted(o) == ex[o].st \in {"open", "filled", "canceled"}
Ended(o) == ex[o].st \in {"filled", "canceled"}
Live(o) == ex[o].st \in {"flying", "open"}
Open == {o \in Orders : ex[o].st = "open"}
Executed == [o \in Orders |-> ex[o].done]
Position == SumFunction(Executed)
Recorded == ledger.trades \cup ledger.cleared

\* A call may fail while the bound on faults allows it.
Outcome == IF used.faults < MaxFaults THEN BOOLEAN ELSE {TRUE}
Spent(ok) == used' = IF ok THEN used ELSE [used EXCEPT !.faults = @ + 1]

-----------------------------------------------------------------------------
(* The exchange.                                                            *)

Exchange(o, from, to) ==
    /\ ex[o].st = from
    /\ ex' = [ex EXCEPT ![o].st = to]
    /\ UNCHANGED <<level, active, managed, ledger, bot, used>>

Accept(o) == Exchange(o, "flying", "open")
Refuse(o) == Exchange(o, "flying", "refused")
Expire(o) == Exchange(o, "open", "canceled")

Fill(o) ==
    /\ ex[o].st = "open"
    /\ LET done == ex[o].done + 1 IN
         ex' = [ex EXCEPT ![o] = [st |-> IF done = Size THEN "filled" ELSE "open",
                                  done |-> done]]
    /\ UNCHANGED <<level, active, managed, ledger, bot, used>>

\* UNKNOWN_SUBMISSION_GRACE_SECS is over.  A request still on its way is
\* younger: the exchange refuses it once its receive window is over.
Age(o) ==
    /\ \/ Exchange(o, "refused", "gone")
       \/ /\ o \in DOMAIN managed
          /\ ~(engine.pc = "intent" /\ engine.order = o)
          /\ Exchange(o, "unsent", "gone")

\* A listing may lag: it misses an order accepted a moment ago, or shows one
\* as it was before its last execution.
Listed == [o \in Open |-> ex[o].done]
Lagging ==
    {Drop(Listed, o) : o \in Open} \cup
    {Put(Listed, o, d) : o \in {p \in Orders : Accepted(p)}, d \in 0..(Size - 1)}
Listings == {Listed} \cup
    IF used.faults < MaxFaults
    THEN {l \in Lagging : \A o \in DOMAIN l : l[o] <= ex[o].done}
    ELSE {}

-----------------------------------------------------------------------------
(* The engine task.                                                         *)

NoWork == [pc |-> "idle", order |-> "none", purpose |-> "tick", seen |-> Empty,
           todo |-> {}, ended |-> {}, bad |-> FALSE, stale |-> FALSE,
           keep |-> FALSE]
At(pc) == engine.pc = pc
Step(pc) == [engine EXCEPT !.pc = pc]
OnOrder(pc, o) == [NoWork EXCEPT !.pc = pc, !.order = o]

\* report_reconciliation_state
Blocked == [ready EXCEPT !.orders = FALSE]

\* pause_trading from within the engine moves pause_epoch as the user's does.
Halted(e) == [e EXCEPT !.stale = TRUE, !.keep = FALSE]

\* cancel_all_orders remembers whether it may restore Running.
CancelAll(keep) == [NoWork EXCEPT !.pc = "load", !.keep = keep]

\* sync_live_orders reads pause_epoch first.
SyncOrders(purpose) ==
    [NoWork EXCEPT !.pc = "list", !.purpose = purpose, !.keep = engine.keep]

\* What follows a sync that reports ok and leaves these reservations.
AfterTick == /\ engine' = IF engine.stale THEN NoWork ELSE Step("account")
             /\ UNCHANGED running
AfterBoot(ok) == /\ running' = (running /\ ok)
                 /\ engine' = IF running' THEN NoWork ELSE CancelAll(FALSE)
AfterCancel(ok) == IF ok THEN engine' = Step("clear") /\ UNCHANGED running
                   ELSE engine' = NoWork /\ running' = FALSE
SyncEnds(ok, left) ==
    CASE engine.purpose = "tick" -> AfterTick
      [] engine.purpose = "boot" -> AfterBoot(ok)
      [] engine.purpose = "cancel" -> AfterCancel(ok /\ left = Empty)

-----------------------------------------------------------------------------
(* place_grid_order                                                         *)

Reserved == SumFunction(active)
LevelOccupied(o) == \E p \in DOMAIN active : level[p] = level[o]
Fits == pos + Reserved + Size <= Limit

PlaceIntent(o) ==
    /\ At("idle") /\ running /\ ready.orders /\ ready.account
    /\ ex[o].st = "unsent" /\ o \notin DOMAIN managed   \* a fresh id
    /\ ~LevelOccupied(o)
    /\ Fits
    /\ \E ok \in Outcome :
         /\ Spent(ok)
         /\ running' = ok
         /\ managed' = IF ok THEN Put(managed, o, Size) ELSE managed
         /\ engine' = IF ok THEN OnOrder("intent", o) ELSE engine
    /\ UNCHANGED <<outside, active, pos, ready>>

Send ==
    /\ At("intent") /\ running
    /\ ex' = [ex EXCEPT ![engine.order].st = "flying"]
    /\ engine' = Step("sent")
    /\ UNCHANGED <<level, active, managed, ledger, pos, ready, running, asked, used>>

\* The status changed, the price is stale, or the risk gate closed: nothing is
\* sent.  An intent that stays in the database only blocks reconciliation when
\* the gate was what closed.
Withdraw ==
    /\ At("intent")
    /\ \E ok \in Outcome :
         /\ Spent(ok)
         /\ managed' = IF ok THEN Drop(managed, engine.order) ELSE managed
         /\ ready' \in IF ok \/ ~running THEN {ready} ELSE {ready, Blocked}
    /\ engine' = NoWork
    /\ UNCHANGED <<outside, active, pos, running>>

\* The exchange answers with the order as it is now.
Answered ==
    LET o == engine.order
        done == ex[o].done
    IN
    /\ At("sent") /\ Accepted(o)
    /\ active' = Put(active, o, Size)
    /\ \E ok \in Outcome :
         /\ Spent(ok)
         /\ running' = (running /\ ok)
         /\ ready' = [orders |-> ready.orders /\ ok,
                      account |-> ready.account /\ (ok \/ done = 0)]
         /\ engine' = CASE ~ok \/ (done = 0 /\ ~Ended(o)) -> NoWork
                        [] ok /\ done = 0 /\ Ended(o) -> OnOrder("remove", o)
                        [] ok /\ done > 0 /\ Ended(o) -> OnOrder("fill", o)
                        [] ok /\ done > 0 /\ ~Ended(o) ->
                             [OnOrder("partial", o) EXCEPT !.seen = [p \in {o} |-> done]]
    /\ UNCHANGED <<outside, managed, pos>>

Rejected ==
    /\ At("sent") /\ ex[engine.order].st \in {"refused", "gone"}
    /\ \E ok \in Outcome :
         /\ Spent(ok)
         /\ running' = (running /\ ok)
         /\ managed' = IF ok THEN Drop(managed, engine.order) ELSE managed
    /\ engine' = NoWork
    /\ UNCHANGED <<outside, active, pos, ready>>

\* execution_status_unknown: the request may have arrived, or still may.
Unknown ==
    /\ At("sent")
    /\ FALSE \in Outcome /\ Spent(FALSE)
    /\ ready' = [ready EXCEPT !.orders = FALSE]
    /\ engine' = Step("query")
    /\ UNCHANGED <<outside, active, managed, pos, running>>

ForgetsUnknown(o) == active   \* faulty: waits for the next listing
ReservesUnknown(o) == Put(active, o, Size)

Query ==
    LET o == engine.order
        done == ex[o].done
    IN
    /\ At("query")
    /\ active' = ReservesUnknown(o)
    /\ engine' = NoWork
    /\ \E found \in BOOLEAN, saved \in Outcome :
         /\ found => Accepted(o)
         /\ ~saved => found
         /\ Accepted(o) /\ ~found => FALSE \in Outcome
         /\ Spent(saved /\ (found \/ ~Accepted(o)))
         /\ ready' = [ready EXCEPT !.account = @ /\ ~(found /\ done > 0)]
         /\ running' = (running /\ saved)
    /\ UNCHANGED <<outside, managed, pos>>

\* prepare_partial_adoption: position and account first.  A pause meanwhile
\* (stale) has the effect of a failed refresh.
RefreshPartial ==
    /\ At("partial")
    /\ \E ok \in Outcome :
         /\ Spent(ok)
         /\ pos' = IF ok THEN Position ELSE pos
         /\ ready' = [ready EXCEPT !.account = ok]
         /\ engine' = [Step("adopt") EXCEPT !.bad = ~ok \/ engine.stale]
    /\ UNCHANGED <<outside, active, managed, running>>

\* Only then is the reservation reduced, in the database before in memory.
AdoptPartial ==
    LET o == engine.order
        kept == IF engine.bad THEN active[o] ELSE Size - engine.seen[o]
    IN
    /\ At("adopt")
    /\ \E ok \in Outcome :
         /\ Spent(ok)
         /\ managed' = IF ok THEN Put(managed, o, kept) ELSE managed
         /\ active' = IF ok THEN Put(active, o, kept) ELSE active
         /\ ready' = [ready EXCEPT !.orders = @ /\ ok /\ ~engine.bad]
         /\ running' = (running /\ ok)
    /\ engine' = NoWork
    /\ UNCHANGED <<outside, pos>>

-----------------------------------------------------------------------------
(* cancel_single_order, for window orders the window has left.              *)

CancelOrder(o) ==
    /\ At("idle") /\ running
    /\ o \in DOMAIN active /\ active[o] = Size
    /\ \E arrives \in Outcome :
         /\ Spent(arrives)
         /\ ex' = IF arrives /\ ex[o].st = "open"
                  THEN [ex EXCEPT ![o].st = "canceled"] ELSE ex
    /\ engine' = OnOrder("confirm", o)
    /\ UNCHANGED <<level, active, managed, ledger, pos, ready, running, asked>>

ConfirmCanceled ==
    LET o == engine.order IN
    /\ At("confirm")
    /\ \E ok \in Outcome :
         /\ Spent(ok)
         /\ engine' = CASE ~ok \/ ~Ended(o) -> NoWork
                        [] ok /\ Ended(o) /\ ex[o].done > 0 -> OnOrder("fill", o)
                        [] ok /\ Ended(o) /\ ex[o].done = 0 -> OnOrder("remove", o)
         /\ ready' = [ready EXCEPT !.orders = @ /\ ~(ok /\ ex[o].st = "open")]
    /\ UNCHANGED <<outside, active, managed, pos, running>>

\* remove_managed_and_active_order
Remove ==
    LET o == engine.order IN
    /\ At("remove")
    /\ \E ok \in Outcome :
         /\ Spent(ok)
         /\ managed' = IF ok THEN Drop(managed, o) ELSE managed
         /\ active' = IF ok THEN Drop(active, o) ELSE active
         /\ ready' = [ready EXCEPT !.orders = @ /\ ok]
         /\ running' = (running /\ ok)
    /\ engine' = NoWork
    /\ UNCHANGED <<outside, pos>>

\* on_order_filled: the caches are dropped, and without a fresh position the
\* reservation stays (the order is active wherever this is called).
FillRefreshed ==
    /\ At("fill")
    /\ \E ok \in Outcome :
         LET fresh == ok /\ ~engine.stale IN
         /\ Spent(ok)
         /\ pos' = IF ok THEN Position ELSE pos
         /\ ready' = [ready EXCEPT !.account = fresh]
         /\ engine' = IF fresh THEN Step("commit") ELSE NoWork
    /\ UNCHANGED <<outside, active, managed, running>>

\* commit_order_fill: a trade that is recorded, or was and has been cleared,
\* only loses its reservation.  Else trade and managed order change together.
InHistory(o) == o \in ledger.trades   \* faulty: forgets the cleared trades
IsRecorded(o) == o \in Recorded

CommitOrder(o, committed, failed) ==
    \E ok \in Outcome, halts \in BOOLEAN :
      /\ Spent(ok)
      /\ ok => ~halts
      /\ ~ok /\ ~IsRecorded(o) => halts
      /\ managed' = IF ok THEN Drop(managed, o) ELSE managed
      /\ active' = IF ok THEN Drop(active, o) ELSE active
      /\ running' = (running /\ ~halts)
      /\ ledger' = IF ok /\ ~IsRecorded(o)
                   THEN [ledger EXCEPT !.trades = @ \cup {o},
                                       !.booked[o] = @ + ex[o].done]
                   ELSE ledger
      /\ engine' = IF ok THEN committed
                   ELSE IF halts THEN Halted(failed) ELSE failed

CommitFill ==
    /\ At("commit")
    /\ CommitOrder(engine.order, NoWork, NoWork)
    /\ UNCHANGED <<level, ex, asked, pos, ready>>

-----------------------------------------------------------------------------
(* sync_live_orders, run by every tick, by a start and by a cancellation.   *)

Tick ==
    /\ At("idle")
    /\ engine' = SyncOrders("tick")
    /\ UNCHANGED <<outside, active, managed, pos, ready, running, used>>

List ==
    /\ At("list")
    /\ \/ \E l \in Listings :
            /\ Spent(l = Listed)
            /\ engine' = [Step("restore") EXCEPT !.seen = l]
            /\ UNCHANGED running
       \/ /\ FALSE \in Outcome /\ Spent(FALSE)
          /\ SyncEnds(FALSE, active)
    /\ ready' = Blocked
    /\ UNCHANGED <<outside, active, managed, pos>>

Both(a, b) == a + b   \* faulty: adds the reservations up
Larger(a, b) == IF a > b THEN a ELSE b
AtLeast(o, q, new) == IF o \in DOMAIN active THEN Larger(active[o], q) ELSE new

\* A listed order gets its saved record back.  If the database cannot be read
\* its full quantity is reserved until it can.
Restore ==
    LET listed == DOMAIN engine.seen IN
    /\ At("restore")
    /\ \/ /\ Spent(TRUE)
          /\ active' = Over([o \in listed \cap DOMAIN managed |->
                             AtLeast(o, managed[o], managed[o])], active)
          /\ engine' = Step("refresh")
          /\ UNCHANGED running
       \/ /\ listed # {}
          /\ FALSE \in Outcome /\ Spent(FALSE)
          /\ active' = Over([o \in listed |-> Size], active)
          /\ SyncEnds(FALSE, active')
    /\ UNCHANGED <<outside, managed, pos, ready>>

Remaining(o) == Size - engine.seen[o]

\* An execution moves units from the order to the position: the position is
\* read again before any reservation is reduced.
NeedsNoRefresh == FALSE   \* faulty: reduces reservations at once
NeedsRefresh ==
    \E o \in DOMAIN engine.seen :
      /\ engine.seen[o] > 0
      /\ \/ ~ready.account
         \/ o \notin DOMAIN active
         \/ active[o] > Remaining(o)

Refresh ==
    /\ At("refresh")
    /\ \E ok \in IF NeedsRefresh /\ ~engine.stale THEN Outcome ELSE {TRUE} :
         LET fresh == ok /\ ~engine.stale
             quantity(o) == IF fresh THEN Remaining(o)
                            ELSE AtLeast(o, Remaining(o), Size)
         IN
         /\ Spent(ok)
         /\ pos' = IF NeedsRefresh /\ fresh THEN Position ELSE pos
         /\ ready' = [ready EXCEPT !.account = IF NeedsRefresh THEN fresh ELSE @]
         /\ active' = Over([o \in DOMAIN engine.seen |-> quantity(o)], active)
         /\ engine' = [Step("save") EXCEPT !.bad = ~fresh]
    /\ UNCHANGED <<outside, managed, running>>

Save ==
    LET listed == DOMAIN engine.seen IN
    /\ At("save")
    /\ \E ok \in IF listed = {} THEN {TRUE} ELSE Outcome :
         /\ Spent(ok)
         /\ managed' = IF ok THEN Over(Restrict(active, listed), managed) ELSE managed
         /\ IF ok /\ ~engine.bad /\ ~engine.stale
            THEN /\ engine' = [Step("lookup") EXCEPT
                                 !.todo = DOMAIN active \ listed]
                 /\ UNCHANGED running
            ELSE SyncEnds(FALSE, active)
    /\ UNCHANGED <<outside, active, pos, ready>>

LookedUp(o, bad) == [engine EXCEPT !.todo = @ \ {o}, !.bad = @ \/ bad]

\* The intent is retired only if the exchange does not know it and the grace
\* period is over.
NoGrace(o) == ~Accepted(o)   \* faulty: takes the first negative answer
NeverRetires(o) == FALSE     \* faulty: waits for an answer for ever
MayRetire(o) == ex[o].st = "gone"

LookupAbsent(o) ==
    /\ MayRetire(o)
    /\ \E ok \in Outcome :
         /\ Spent(ok)
         /\ managed' = IF ok THEN Drop(managed, o) ELSE managed
         /\ active' = IF ok THEN Drop(active, o) ELSE active
         /\ engine' = LookedUp(o, ~ok)

\* An answer that settles nothing: not known yet, still open, or an error of
\* the query or of saving the id it confirms.
LookupUnresolved(o) ==
    /\ Ended(o) \/ MayRetire(o) => FALSE \in Outcome
    /\ Spent(~(Ended(o) \/ MayRetire(o)))
    /\ engine' = LookedUp(o, TRUE)
    /\ UNCHANGED <<active, managed>>

LookupEnded(o) ==
    /\ Ended(o)
    /\ engine' = [LookedUp(o, FALSE) EXCEPT !.ended = @ \cup {o}]
    /\ UNCHANGED <<active, managed, used>>

Lookup ==
    /\ At("lookup") /\ ~engine.stale
    /\ \E o \in engine.todo :
         LookupAbsent(o) \/ LookupUnresolved(o) \/ LookupEnded(o)
    /\ UNCHANGED <<outside, pos, ready, running>>

\* One refresh covers every execution the lookups found.
LookupsDone ==
    LET settles == ~engine.bad /\ ~engine.stale
        refreshes == settles /\ \E o \in engine.ended : ex[o].done > 0
    IN
    /\ At("lookup")
    /\ engine.stale \/ engine.todo = {}
    /\ \E ok \in IF refreshes THEN Outcome ELSE {TRUE} :
         /\ Spent(ok)
         /\ pos' = IF refreshes /\ ok THEN Position ELSE pos
         /\ ready' = [ready EXCEPT !.account = IF refreshes THEN ok ELSE @]
         /\ IF ok /\ settles
            THEN engine' = Step("settle") /\ UNCHANGED running
            ELSE SyncEnds(FALSE, active)
    /\ UNCHANGED <<outside, active, managed>>

\* A failure does not stop the others.
Settle ==
    /\ At("settle")
    /\ \E o \in engine.ended :
         LET rest == [engine EXCEPT !.ended = @ \ {o}]
             failed == [rest EXCEPT !.bad = TRUE]
         IN IF ex[o].done > 0
            THEN CommitOrder(o, rest, failed)
            ELSE \E ok \in Outcome :
                   /\ Spent(ok)
                   /\ managed' = IF ok THEN Drop(managed, o) ELSE managed
                   /\ active' = IF ok THEN Drop(active, o) ELSE active
                   /\ engine' = IF ok THEN rest ELSE failed
                   /\ UNCHANGED <<ledger, running>>
    /\ UNCHANGED <<level, ex, asked, pos, ready>>

Synced ==
    /\ At("settle") /\ engine.ended = {}
    /\ LET ok == ~engine.bad /\ ~engine.stale IN
         /\ SyncEnds(ok, active)
         /\ ready' = [ready EXCEPT !.orders = ok]
    /\ UNCHANGED <<outside, active, managed, pos, used>>

\* A tick also syncs account and position, whatever the orders sync said.
\* While the last sync stands the shared cache may answer, with a position
\* read no earlier than that.
SyncAccount ==
    /\ At("account")
    /\ \E ok \in Outcome :
         /\ Spent(ok)
         /\ ready' = [ready EXCEPT !.account = IF engine.stale THEN @ ELSE ok]
    /\ pos' \in IF ready.account THEN pos..Position ELSE {Position}
    /\ engine' = NoWork
    /\ UNCHANGED <<outside, active, managed, running>>

-----------------------------------------------------------------------------
(* cancel_all_orders, after a pause, on a rebalance and at a paused start.  *)

BeginCancel ==
    /\ At("idle")
    /\ \/ asked /\ asked' = FALSE /\ UNCHANGED used
       \/ /\ running /\ used.inputs < MaxInputs
          /\ used' = [used EXCEPT !.inputs = @ + 1]
          /\ UNCHANGED asked
    /\ engine' = CancelAll(running)
    /\ running' = FALSE
    /\ UNCHANGED <<level, ex, active, managed, ledger, pos, ready>>

ForgetsManaged == active   \* faulty: trusts the memory
RestoredAll == Over(active, managed)

\* The silent pause or the read of the saved orders may fail; the orders are
\* canceled all the same.
LoadManaged ==
    /\ At("load")
    /\ \/ /\ Spent(TRUE)
          /\ active' = RestoredAll
          /\ engine' = Step("cancelList")
          /\ UNCHANGED ready
       \/ /\ FALSE \in Outcome /\ Spent(FALSE)
          /\ active' \in {active, RestoredAll}
          /\ engine' = Halted([Step("cancelList") EXCEPT !.bad = TRUE])
          /\ ready' \in {ready, Blocked}
    /\ UNCHANGED <<outside, managed, pos, running>>

Canceled(S) == [o \in Orders |-> IF o \in S \cap Open
                                 THEN [ex[o] EXCEPT !.st = "canceled"] ELSE ex[o]]

\* Without the list the known orders are canceled one by one, unconfirmed.
CancelList ==
    /\ At("cancelList")
    /\ \/ \E l \in Listings :
            /\ Spent(l = Listed)
            /\ engine' = [Step("cancelEach") EXCEPT !.todo = DOMAIN l]
            /\ UNCHANGED ex
       \/ /\ FALSE \in Outcome /\ Spent(FALSE)
          /\ \E S \in SUBSET DOMAIN active : ex' = Canceled(S)
          /\ engine' = NoWork
    /\ UNCHANGED <<level, active, managed, ledger, pos, ready, running, asked>>

CancelEach ==
    /\ At("cancelEach")
    /\ \E o \in engine.todo, ok \in Outcome :
         /\ Spent(ok)
         /\ ex' \in {Canceled({o})} \cup (IF ok THEN {} ELSE {ex})
         /\ engine' = LET rest == [engine EXCEPT !.todo = @ \ {o}]
                      IN IF ok THEN rest ELSE Halted([rest EXCEPT !.bad = TRUE])
    /\ UNCHANGED <<level, active, managed, ledger, pos, ready, running, asked>>

\* The orders may be forgotten only after a sync has accounted for them all.
CancelsConfirmed ==
    /\ At("cancelEach") /\ engine.todo = {}
    /\ engine' = IF engine.bad THEN NoWork ELSE SyncOrders("cancel")
    /\ UNCHANGED <<outside, active, managed, pos, ready, running, used>>

Clear ==
    /\ At("clear")
    /\ \E ok, restored \in Outcome :
         /\ ok \/ restored
         /\ Spent(ok /\ restored)
         /\ managed' = IF ok THEN Empty ELSE managed
         /\ running' = (ok /\ restored /\ engine.keep)
    /\ engine' = NoWork
    /\ UNCHANGED <<outside, active, pos, ready>>

-----------------------------------------------------------------------------
(* The process and its user.                                                *)

NotReady == [orders |-> FALSE, account |-> FALSE]

Crash ==
    /\ ~At("down") /\ used.crashes < MaxCrashes
    /\ used' = [used EXCEPT !.crashes = @ + 1]
    /\ active' = Empty /\ pos' = 0 /\ ready' = NotReady
    /\ running' = FALSE /\ asked' = FALSE
    /\ engine' = [NoWork EXCEPT !.pc = "down"]
    /\ UNCHANGED <<level, ex, managed, ledger>>

\* initialize restores the saved orders before any request can fail.  Whether
\* the saved status starts Running is TradingStatus's question.
Start ==
    /\ At("down")
    /\ \/ /\ Spent(TRUE)
          /\ active' = managed
          /\ running' \in BOOLEAN
          /\ engine' = OnOrder("bootAccount", "none")
       \/ /\ FALSE \in Outcome /\ Spent(FALSE)
          /\ engine' = CancelAll(FALSE)
          /\ UNCHANGED <<active, running>>
    /\ UNCHANGED <<outside, managed, pos, ready>>

StartAccount ==
    /\ At("bootAccount")
    /\ \E ok \in Outcome :
         /\ Spent(ok)
         /\ pos' = IF ok THEN Position ELSE pos
         /\ ready' = [ready EXCEPT !.account = ok]
         /\ running' = (running /\ ok)
         /\ engine' = IF ok THEN SyncOrders("boot") ELSE CancelAll(FALSE)
    /\ UNCHANGED <<outside, active, managed>>

Input ==
    /\ ~At("down") /\ used.inputs < MaxInputs
    /\ used' = [used EXCEPT !.inputs = @ + 1]

\* A pause stops the status at once and asks the engine to cancel.
Pause ==
    /\ Input
    /\ running' = FALSE /\ asked' = TRUE
    /\ engine' = Halted(engine)
    /\ UNCHANGED <<level, ex, active, managed, ledger, pos, ready>>

Resume ==
    /\ Input /\ At("idle") /\ ~asked
    /\ running' = TRUE
    /\ engine' = SyncOrders("tick")
    /\ UNCHANGED <<outside, active, managed, pos, ready>>

ClearHistory ==
    /\ ~At("down") /\ ledger.trades # {}
    /\ ledger' = [ledger EXCEPT !.trades = {}, !.cleared = @ \cup ledger.trades]
    /\ UNCHANGED <<level, ex, active, managed, bot, used>>

-----------------------------------------------------------------------------
Init ==
    /\ level \in [Orders -> Levels]
    /\ ex = [o \in Orders |-> [st |-> "unsent", done |-> 0]]
    /\ active = Empty /\ managed = Empty
    /\ ledger = [trades |-> {}, cleared |-> {}, booked |-> [o \in Orders |-> 0]]
    /\ pos = 0 /\ ready = NotReady /\ running = FALSE
    /\ engine = [NoWork EXCEPT !.pc = "down"]
    /\ asked = FALSE
    /\ used = [faults |-> 0, crashes |-> 0, inputs |-> 0]

Place == (\E o \in Orders : PlaceIntent(o)) \/ Send \/ Withdraw \/ Answered
         \/ Rejected \/ Unknown \/ Query \/ RefreshPartial \/ AdoptPartial
Settling == ConfirmCanceled \/ Remove \/ FillRefreshed \/ CommitFill
Sync == List \/ Restore \/ Refresh \/ Save \/ Lookup \/ LookupsDone \/ Settle
        \/ Synced \/ SyncAccount
Cancel == LoadManaged \/ CancelList \/ CancelEach \/ CancelsConfirmed \/ Clear
Market(o) == Accept(o) \/ Refuse(o) \/ Fill(o) \/ Expire(o) \/ Age(o)
Env == Crash \/ Pause \/ Resume \/ ClearHistory \/ \E o \in Orders : Market(o)
Next == Place \/ (\E o \in Orders : CancelOrder(o)) \/ Settling \/ Tick \/ Sync
        \/ BeginCancel \/ Cancel \/ Start \/ StartAccount \/ Env

Spec == Init /\ [][Next]_vars

\* Every await of the engine ends.  The select of its loop is biased: control
\* messages go first and price updates before a due tick, so that a tick is
\* taken because both pause again and again.  A request in flight is accepted
\* or refused in the end, and time passes.
EngineGoesOn == (Place /\ ~At("idle")) \/ Settling \/ Sync \/ Cancel \/ Start
                \/ StartAccount
Fairness ==
    /\ WF_vars(EngineGoesOn)
    /\ SF_vars(Tick) /\ SF_vars(BeginCancel /\ asked)
    /\ \A o \in Orders : WF_vars(Accept(o) \/ Refuse(o)) /\ WF_vars(Age(o))
FairSpec == Spec /\ Fairness

-----------------------------------------------------------------------------
(* Properties                                                               *)

\* The type invariant: what each variable of the bot may hold, and that an
\* executed order on the exchange is no longer waiting.
TypeOK ==
    /\ level \in [Orders -> Levels]
    /\ ex \in [Orders -> [st : ExStates, done : 0..Size]]
    /\ active \in PartialFunctions(Orders, 1..Size)
    /\ managed \in PartialFunctions(Orders, 1..Size)
    /\ ledger \in [trades : SUBSET Orders, cleared : SUBSET Orders,
                   booked : [Orders -> Nat]]
    /\ pos \in 0..Position
    /\ ready \in [orders : BOOLEAN, account : BOOLEAN]
    /\ running \in BOOLEAN /\ asked \in BOOLEAN
    /\ engine \in [pc : EnginePcs, order : Orders \cup {"none"},
                   purpose : Purposes,
                   seen : PartialFunctions(Orders, 0..(Size - 1)),
                   todo : SUBSET Orders, ended : SUBSET Orders,
                   bad : BOOLEAN, stale : BOOLEAN, keep : BOOLEAN]
    /\ used \in [faults : 0..MaxFaults, crashes : 0..MaxCrashes,
                 inputs : 0..MaxInputs]

\* An order that may still be executed, or was executed and is not in the
\* history yet, has a saved record from which a start can recover it.
Unsettled(o) == Live(o) \/ (ex[o].done > 0 /\ o \notin Recorded)
NothingForgotten == \A o \in Orders : Unsettled(o) => o \in DOMAIN managed

\* An execution is booked at most once and with everything the order executed,
\* however often the order is seen again after it was recorded or the history
\* was cleared.
BookedOnce ==
    \A o \in Orders :
      ledger.booked[o] = IF o \in Recorded THEN ex[o].done ELSE 0

\* What the orders executed and what they still may execute stays within the
\* limit the placement checked, in spite of everything the engine knows late.
Committed(o) == IF Live(o) THEN Size ELSE ex[o].done
ExposureWithinLimit ==
    SumFunction([o \in Orders |-> Committed(o)]) <= Limit

\* No two orders that may still be executed stand on the same grid level.
OneOrderPerLevel ==
    \A o, p \in Orders :
      Live(o) /\ Live(p) /\ level[o] = level[p] => o = p

\* While the process lives a reservation is given up only for an order that
\* cannot be executed any more, that is in the history if it was executed,
\* and whose execution the synced position already counts.
Released(o) == o \in DOMAIN active /\ o \notin DOMAIN active'
ReleasedWhenSettled ==
    [][~Crash =>
        \A o \in Orders : Released(o) =>
            /\ ~Live(o)
            /\ ex[o].done > 0 =>
                 /\ o \in Recorded'
                 /\ pos' >= SumFunction([p \in Orders |->
                      IF p \in DOMAIN active' THEN 0 ELSE ex[p].done])]_vars

\* A new order is sent only while every order that may still be executed, or
\* whose execution is not booked yet, has its reservation in memory.
PlacesOnlyRestored ==
    [][Send => {o \in Orders : Unsettled(o)} \subseteq DOMAIN active]_vars

\* Nothing stays reserved for ever: an order that has ended or never came to
\* be loses its reservation, unless the process ends first.
Settles ==
    \A o \in Orders :
      (o \in DOMAIN active /\ ~Live(o)) ~> (o \notin DOMAIN active \/ At("down"))
=============================================================================
