------------------------------- MODULE MCLoops -------------------------------
(* What is asked for again and again until it succeeds, as scenes of one run, *)
(* with fair scheduling: the cancellations of the global gate, the rounds     *)
(* that verify trades, the requests for prices, and the rounds that keep the  *)
(* grid around the market.  A behaviour is one scene; the gate stays at its   *)
(* initial state in the others, and the variables of the rest stay Off.       *)
EXTENDS GlobalRiskGate, TLC

CONSTANTS eth, btc, Off

VARIABLES
    scene,
    \* FillPages
    shown, gone, row, revision, cache, waiters, gen, offset, round, call, spent,
    \* MarketPrices
    ticker, mode, going, epoch, stopping, marking, asking, waits, pending, step,
    filled, since, inputs,
    \* GridWindow
    setup, last, mark, fresh, size, resting, lastFill, trading, turn, counts

fillVars == <<shown, gone, row, revision, cache, waiters, gen, offset, round,
              call, spent>>
priceVars == <<ticker, mode, going, epoch, stopping, marking, asking, waits,
               pending, step, filled, since, inputs>>
gridVars == <<setup, last, mark, fresh, size, resting, lastFill, trading, turn,
              counts>>
gateVars == <<gate, check, pc, flag, pos, real, orders, owes, used>>
allVars == <<scene, gateVars, fillVars, priceVars, gridVars>>

\* Three trades, two of them of one round, and one cursor between them.
Fills == INSTANCE FillPages WITH
    used <- spent, Orders <- 1..3, Total <- 3, Page <- 2, Slots <- 1,
    Steps <- 1, Batch <- 2, Width <- 2, MaxStalled <- 1, MaxClears <- 0,
    MaxFaults <- 1

\* Answers come a tick before their prices are stale.
Prices == INSTANCE MarketPrices WITH
    running <- going, used <- inputs, MaxAge <- 3, FallbackAge <- 2,
    SnapshotAge <- 1, Timeout <- 2, MaxPauses <- 0, MaxSwitches <- 0,
    MaxFaults <- 1

\* Four pairs, between them every policy; the market moves twice.
Setup(paper, long, policy) == [paper |-> paper, long |-> long, policy |-> policy]
Idle(id, side, price) ==
    [id |-> id, side |-> side, price |-> price, qty |-> 1, partly |-> FALSE]
Grid == INSTANCE GridWindow WITH
    orders <- resting, running <- trading, step <- turn, used <- counts,
    Setups <- {Setup(TRUE, TRUE, "none"), Setup(FALSE, TRUE, "cancel"),
               Setup(FALSE, FALSE, "pause"), Setup(FALSE, FALSE, "liquidation")},
    Markets <- {<<5, 5>>, <<3, 3>>, <<5, 7>>},
    Interval <- 2, MinPrice <- 1, MaxPrice <- 7, Amount <- 8,
    Windows <- ("Buy" :> 1 @@ "Sell" :> 2), Limit <- 17, Dangers <- {5},
    Restored <- {<<>>, <<Idle(1, "Buy", 3), Idle(2, "Sell", 6)>>,
                 <<Idle(1, "Buy", 4), Idle(2, "Buy", 4)>>},
    MaxMoves <- 2, MaxFills <- 1, MaxFaults <- 1, MaxToggles <- 1

GateStep(A) ==
    scene = "gate" /\ A /\ UNCHANGED <<scene, fillVars, priceVars, gridVars>>
FillStep(A) ==
    scene = "fills" /\ A /\ UNCHANGED <<scene, gateVars, priceVars, gridVars>>
PriceStep(A) ==
    scene = "prices" /\ A /\ UNCHANGED <<scene, gateVars, fillVars, gridVars>>
GridStep(A) ==
    scene = "grid" /\ A /\ UNCHANGED <<scene, gateVars, fillVars, priceVars>>

FillsOff ==
    /\ shown = Off /\ gone = Off /\ row = Off /\ revision = Off
    /\ cache = Off /\ waiters = Off /\ gen = Off /\ offset = Off
    /\ round = Off /\ call = Off /\ spent = Off
PricesOff ==
    /\ ticker = Off /\ mode = Off /\ going = Off /\ epoch = Off
    /\ stopping = Off /\ marking = Off /\ asking = Off /\ waits = Off
    /\ pending = Off /\ step = Off /\ filled = Off /\ since = Off
    /\ inputs = Off
GridOff ==
    /\ setup = Off /\ last = Off /\ mark = Off /\ fresh = Off /\ size = Off
    /\ resting = Off /\ lastFill = Off /\ trading = Off /\ turn = Off
    /\ counts = Off

LoopsInit ==
    /\ Init
    /\ \/ scene = "gate" /\ FillsOff /\ PricesOff /\ GridOff
       \/ /\ flag.running = {}
          /\ \/ scene = "fills" /\ Fills!Init /\ PricesOff /\ GridOff
             \/ scene = "prices" /\ FillsOff /\ Prices!Init /\ GridOff
             \/ scene = "grid" /\ FillsOff /\ PricesOff /\ Grid!Init

LoopsNext ==
    \/ GateStep(Next) \/ FillStep(Fills!Next) \/ PriceStep(Prices!Next)
    \/ GridStep(Grid!Next)

\* The fairness of each module in its scene: one formula constrains an action
\* of every scene, because only one of them is ever enabled.
LoopsFairness ==
    /\ WF_allVars(\/ GateStep(CheckStep) \/ FillStep(Fills!RoundGoesOn)
                  \/ PriceStep(Prices!EngineStep) \/ GridStep(Grid!EngineStep))
    /\ WF_allVars(\/ GateStep(TimerCheck) \/ FillStep(Fills!Listing)
                  \/ PriceStep(Prices!RetryReady("last")))
    /\ WF_allVars(FillStep(Fills!Forgetting)
                  \/ PriceStep(Prices!RetryReady("mark")))
    /\ \A m \in Members : WF_allVars(GateStep(EngineStep(m)))
    /\ \A m \in Members :
         /\ SF_allVars(GateStep(EngineCheck(m)) \/ PriceStep(Prices!Sync))
         /\ SF_allVars(\/ GateStep(Acquire(m))
                       \/ PriceStep(Prices!CompleteMark \/ Prices!FailMark))
         /\ SF_allVars(\/ GateStep(CancelStart(m))
                       \/ PriceStep(Prices!CompleteTicker \/ Prices!FailTicker))

LoopsSpec == LoopsInit /\ [][LoopsNext]_allVars /\ LoopsFairness

-----------------------------------------------------------------------------
\* FillPages: every trade is verified in the end, unless the exchange does not
\* find its order any more (strategy/grid.rs, reconcile_unverified_trades).
Verified ==
    <>[](scene = "fills" =>
            \A o \in 1..3 : row[o] = "pending" => o \in gone)

\* MarketPrices: however silent the stream is, each price is fresh again and
\* again until the engine stops (strategy/grid.rs, sync_cycle).
FreshAgain ==
    \A k \in {"last", "mark"} :
      []<>(scene = "prices" => Prices!Holds(ticker[k]) \/ stopping)

\* GridWindow: once prices, executions and controls rest, a running grid
\* becomes the nearest levels that can be had, and stays so (strategy/grid.rs,
\* maintain_grid_window).
GridSettles == <>[](scene = "grid" /\ trading /\ fresh => Grid!Established)
=============================================================================
