------------------------------- MODULE MCShared ------------------------------
(* The safety runs of what strategies share or fetch from the exchange, as    *)
(* scenes of one run: the global gate, the pages of fills, the prices, and    *)
(* the budget of all requests.  A behaviour is one scene; the gate stays at   *)
(* its initial state in the others, and the variables of the rest stay Off.   *)
EXTENDS GlobalRiskGate, TLC

CONSTANTS eth, btc, Off

VARIABLES
    scene,
    \* FillPages
    shown, gone, row, revision, cache, waiters, gen, offset, round, call, spent,
    \* MarketPrices
    ticker, mode, going, epoch, stopping, marking, asking, waits, pending, step,
    filled, since, inputs,
    \* RateLimit
    weight, pnl, orders10, orders1, blocked, published, flying, ghost

fillVars == <<shown, gone, row, revision, cache, waiters, gen, offset, round,
              call, spent>>
priceVars == <<ticker, mode, going, epoch, stopping, marking, asking, waits,
               pending, step, filled, since, inputs>>
rateVars == <<weight, pnl, orders10, orders1, blocked, published, flying, ghost>>
gateVars == <<gate, check, pc, flag, pos, real, orders, owes, used>>
allVars == <<scene, gateVars, fillVars, priceVars, rateVars>>

Pair == {eth, btc}
Interchangeable == Permutations(Pair)

\* Three trades, two of them of one round, and one cursor between them.
Fills == INSTANCE FillPages WITH
    used <- spent, Orders <- 1..3, Total <- 3, Page <- 2, Slots <- 1,
    Steps <- 1, Batch <- 2, Width <- 2, MaxStalled <- 1, MaxClears <- 1,
    MaxFaults <- 1

\* Answers come before their prices are stale, or when they are.
Prices == INSTANCE MarketPrices WITH
    running <- going, used <- inputs, MaxAge <- 3, FallbackAge <- 2,
    SnapshotAge <- 1, Timeout <- 3, MaxPauses <- 1, MaxSwitches <- 1,
    MaxFaults <- 1

\* What reads, against a tenth of the published weight.
Request(class, w) == [class |-> class, weight |-> w]
Weights == INSTANCE RateLimit WITH
    Requests <- {Request("Normal", 5), Request("Critical", 5),
                 Request("PnlReconciliation", 5), Request("MarketFallback", 10)},
    TenSeconds <- 1, Minute <- 2, IpNormal <- 20, IpCritical <- 30,
    PnlMinute <- 10, OrdersNormal10 <- 2, OrdersCritical10 <- 3,
    OrdersNormal1 <- 3, OrdersCritical1 <- 5,
    Limits <- {[ip |-> 24, ten |-> 0, one |-> 0]},
    Counts <- {[weight |-> n, ten |-> 0, one |-> 0] : n \in {0, 15, 25}},
    Waits <- {1, 2}, MaxFlying <- 2

\* Orders, against a handful.
Placing == INSTANCE RateLimit WITH
    Requests <- {Request("OpeningOrder", 0), Request("ClosingOrder", 0)},
    TenSeconds <- 1, Minute <- 2, IpNormal <- 20, IpCritical <- 30,
    PnlMinute <- 10, OrdersNormal10 <- 2, OrdersCritical10 <- 3,
    OrdersNormal1 <- 3, OrdersCritical1 <- 5,
    Limits <- {[ip |-> 0, ten |-> 3, one |-> 5]},
    Counts <- {[weight |-> 0, ten |-> n, one |-> m] : n \in {0, 2}, m \in {0, 3}},
    Waits <- {1, 2}, MaxFlying <- 2

GateStep(A) ==
    scene = "gate" /\ A /\ UNCHANGED <<scene, fillVars, priceVars, rateVars>>
FillStep(A) ==
    scene = "fills" /\ A /\ UNCHANGED <<scene, gateVars, priceVars, rateVars>>
PriceStep(A) ==
    scene = "prices" /\ A /\ UNCHANGED <<scene, gateVars, fillVars, rateVars>>
RateStep ==
    /\ \/ scene = "weights" /\ Weights!Next
       \/ scene = "placing" /\ Placing!Next
    /\ UNCHANGED <<scene, gateVars, fillVars, priceVars>>

FillsOff ==
    /\ shown = Off /\ gone = Off /\ row = Off /\ revision = Off
    /\ cache = Off /\ waiters = Off /\ gen = Off /\ offset = Off
    /\ round = Off /\ call = Off /\ spent = Off
PricesOff ==
    /\ ticker = Off /\ mode = Off /\ going = Off /\ epoch = Off
    /\ stopping = Off /\ marking = Off /\ asking = Off /\ waits = Off
    /\ pending = Off /\ step = Off /\ filled = Off /\ since = Off
    /\ inputs = Off
RatesOff ==
    /\ weight = Off /\ pnl = Off /\ orders10 = Off /\ orders1 = Off
    /\ blocked = Off /\ published = Off /\ flying = Off /\ ghost = Off

SharedInit ==
    /\ Init
    /\ \/ scene = "gate" /\ FillsOff /\ PricesOff /\ RatesOff
       \/ /\ flag.running = {}
          /\ \/ scene = "fills" /\ Fills!Init /\ PricesOff /\ RatesOff
             \/ scene = "prices" /\ FillsOff /\ Prices!Init /\ RatesOff
             \/ scene = "weights" /\ FillsOff /\ PricesOff /\ Weights!Init
             \/ scene = "placing" /\ FillsOff /\ PricesOff /\ Placing!Init

SharedNext ==
    GateStep(Next) \/ FillStep(Fills!Next) \/ PriceStep(Prices!Next) \/ RateStep

SharedSpec == SharedInit /\ [][SharedNext]_allVars

-----------------------------------------------------------------------------
\* Every component keeps its type.
TypesOK ==
    /\ TypeOK
    /\ scene = "fills" => Fills!TypeOK
    /\ scene = "prices" => Prices!TypeOK
    /\ scene = "weights" => Weights!TypeOK
    /\ scene = "placing" => Placing!TypeOK

\* FillPages: cursors keep to their slots and to who works on them
\* (exchange/client.rs, get_user_trades).
SlotsHold == scene = "fills" => Fills!SlotsHold

\* MarketPrices: a price that passes for fresh was the market's lately, and
\* paper orders are filled by fresh prices accepted after the last pause
\* (strategy/grid.rs, apply_mark_price_completion, match_pending_paper_ticker).
PricesHold == scene = "prices" => Prices!PricesCurrent /\ Prices!FillsHold

\* RateLimit: other requests leave what is kept for critical ones and for
\* closing orders (exchange/rate_limit.rs, reserve).
CriticalRoom ==
    /\ scene = "weights" => Weights!CriticalRoom
    /\ scene = "placing" => Placing!CriticalRoom

\* RateLimit: what is granted fits with all that was granted and heard of
\* within the window (exchange/rate_limit.rs, reserve and observe).
GrantsFit ==
    [][/\ scene = "weights" => Weights!FitsAll
       /\ scene = "placing" => Placing!FitsAll]_allVars
=============================================================================
