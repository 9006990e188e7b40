----------------------------- MODULE MarketPrices -----------------------------
(* The last and the mark price of one pair.                                   *)
(*                                                                            *)
(* A stream pushes both (exchange/ws.rs); when it is silent the periodic sync *)
(* of strategy/grid.rs asks for each price with a request of its own, the     *)
(* mark price through the cache that the pairs share (exchange/               *)
(* market_cache.rs).  Prices are stamped with the time of the event, or with  *)
(* the time before the request, and hold for MaxAge.  On paper a price fills  *)
(* the orders it crosses, once both prices hold.                              *)
(*                                                                            *)
(* Times are ages in ticks, up to MaxAge, from which on they are alike.  A    *)
(* price is its two ages: that of its stamp, and the largest it may really    *)
(* have.  The engine is one task: what it does after a price is a step of its *)
(* own, so that a pause or time may come between.                             *)
EXTENDS Naturals, Sequences

CONSTANTS
    MaxAge,       \* MARKET_PRICE_MAX_AGE_SECS, 15 s
    FallbackAge,  \* MARKET_FALLBACK_AFTER_SECS, 8 s
    SnapshotAge,  \* of another pair's answer that is shared, 3 s
    Timeout,      \* bound: ticks until an answer is dealt with
    MaxPauses,    \* bound: pauses
    MaxSwitches,  \* bound: changes of the mode
    MaxFaults     \* bound: requests that fail

VARIABLES
    ticker,        \* the prices, each [stamp, real]
    mode, running, epoch, stopping,
    marking, asking,   \* mark_price_task and ticker_task
    waits,         \* mark_retry and ticker_retry: those that are not ready
    pending,       \* pending_paper_ticker
    step,          \* what the engine goes on with
    filled,        \* ghosts: did the prices that filled orders hold, were they
                   \* accepted after the last pause
    since,         \* ghost: epoch in which the last price was accepted
    used

scope == <<mode, running, epoch, stopping>>
tasks == <<marking, asking>>
ghosts == <<filled, since>>
vars == <<ticker, scope, tasks, waits, pending, step, ghosts, used>>

Kinds == {"last", "mark"}
Price(stamp, real) == [stamp |-> stamp, real |-> real]
Stale == Price(MaxAge, MaxAge)
Never == [stamp |-> MaxAge + 1, real |-> MaxAge + 1]   \* no price so far
NoTask == [on |-> FALSE, asked |-> 0, same |-> FALSE]
Task == [on |-> TRUE, asked |-> 0, same |-> TRUE]
NoStep == [at |-> "loop"]
NoPending == [on |-> FALSE]

Holds(p) == p.stamp < MaxAge
\* TickerInfo: a mark price that was never known is not needed.
PricesFresh(t) == Holds(t.last) /\ (t.mark = Never \/ Holds(t.mark))
AskedLately(p) == p.stamp < FallbackAge

-----------------------------------------------------------------------------
(* What the engine does with a price.                                        *)

Accepts(kind, p) == Holds(p) /\ p.stamp <= ticker[kind].stamp
MayFill == running /\ mode = "paper"
Fills(p) == filled' = [holds |-> filled.holds /\ p.real < MaxAge,
                       since |-> filled.since /\ since = epoch]

Sets(kind, p, by) ==
    /\ ticker' = [ticker EXCEPT ![kind] = p]
    /\ waits' = waits \ {kind}
    /\ step' = [at |-> "priced", by |-> by, kind |-> kind, price |-> p,
                epoch |-> epoch]
    /\ since' = IF kind = "last" THEN epoch ELSE since

\* handle_ticker_update with a pushed price, which may come late, again, in
\* another order, or never.
Handle(kind, age) ==
    /\ step.at = "loop" /\ Accepts(kind, Price(age, age))
    /\ Sets(kind, Price(age, age), "push")
    /\ marking' = [marking EXCEPT !.same = @ /\ ticker'.mark = ticker.mark]
    /\ UNCHANGED <<scope, asking, pending, filled, used>>

\* match_pending_paper_ticker.
VoidPrice == pending.price # ticker.last   \* faulty: forgets the pause
Void == pending.epoch # epoch \/ pending.price # ticker.last
MatchPending ==
    IF pending.on /\ (Void \/ PricesFresh(ticker))
    THEN /\ pending' = NoPending
         /\ IF ~Void /\ MayFill
            THEN \/ Fills(ticker.last)
                 \/ UNCHANGED filled   \* not protected
            ELSE UNCHANGED filled
    ELSE UNCHANGED <<pending, filled>>

\* After an update the openings are protected first, which may not succeed.
\* A pushed mark price, too, is matched whatever happened since.
Match(protected) ==
    /\ step.at = "priced"
    /\ CASE ~protected -> UNCHANGED <<pending, filled>>
         [] protected /\ step.kind = "last" ->
              IF MayFill /\ PricesFresh(ticker)
              THEN pending' = NoPending /\ Fills(step.price)
              ELSE UNCHANGED <<pending, filled>>
         [] protected /\ step.kind = "mark" ->
              IF step.by = "push" \/ step.epoch = epoch THEN MatchPending
              ELSE UNCHANGED <<pending, filled>>
    /\ step' = IF step.by = "request" /\ step.kind = "last"
               THEN [step EXCEPT !.at = "remember"] ELSE NoStep
    /\ UNCHANGED <<ticker, scope, tasks, waits, since, used>>

\* A last price that came before its mark price waits for it.
Remember ==
    /\ step.at = "remember"
    /\ pending' = IF MayFill /\ step.epoch = epoch /\ ticker.last = step.price
                     /\ ~PricesFresh(ticker)
                  THEN [on |-> TRUE, price |-> step.price, epoch |-> epoch]
                  ELSE pending
    /\ step' = NoStep
    /\ UNCHANGED <<ticker, scope, tasks, waits, ghosts, used>>

-----------------------------------------------------------------------------
(* Requests.                                                                 *)

Due(kind, task) ==
    ~task.on /\ ~AskedLately(ticker[kind]) /\ kind \notin waits
Start(kind, task) == IF Due(kind, task) THEN Task ELSE task
\* What is fresh needs no request; its retry starts anew.
Rested(kind, task) == ~task.on /\ AskedLately(ticker[kind])

\* The periodic sync starts what is due, at most one request of each kind.
Sync ==
    /\ step.at = "loop" /\ ~stopping
    /\ marking' = Start("mark", marking) /\ asking' = Start("last", asking)
    /\ waits' = {k \in waits : ~Rested(k, IF k = "mark" THEN marking
                                          ELSE asking)}
    /\ UNCHANGED <<ticker, scope, pending, step, ghosts, used>>

\* With many pairs the answer may be that to another pair's request, of any
\* age that is shared.
AskShared ==
    /\ marking.on
    /\ \E age \in 0..(SnapshotAge - 1) : marking' = [marking EXCEPT !.asked = age]
    /\ UNCHANGED <<ticker, scope, asking, waits, pending, step, ghosts, used>>

\* Without the statistics of the day the last price is asked for alone.
AskPrice ==
    /\ asking.on /\ used.faults < MaxFaults
    /\ asking' = [asking EXCEPT !.asked = 0]
    /\ used' = [used EXCEPT !.faults = @ + 1]
    /\ UNCHANGED <<ticker, scope, marking, waits, pending, step,
                   ghosts>>

Remains(task) == task   \* faulty
\* A task whose answer was taken is gone.
Finished(task) == NoTask

StampOnArrival(task) == 0   \* faulty
\* The stamp is the time before the request.
StampOf(task) == task.asked

\* apply_mark_price_completion; what changed meanwhile is not overwritten.
CompleteMark ==
    /\ step.at = "loop" /\ marking.on /\ marking' = Finished(marking)
    /\ LET p == Price(StampOf(marking), marking.asked)
       IN IF stopping THEN UNCHANGED <<ticker, waits, step, since>>
          ELSE IF /\ Holds(p) /\ marking.same
                  /\ ticker.mark = Never \/ p.stamp <= ticker.mark.stamp
          THEN Sets("mark", p, "request")
          ELSE waits' = waits \ {"mark"} /\ UNCHANGED <<ticker, step, since>>
    /\ UNCHANGED <<scope, asking, pending, filled, used>>

\* apply_ticker_completion.
CompleteTicker ==
    /\ step.at = "loop" /\ asking.on /\ asking' = Finished(asking)
    /\ LET p == Price(StampOf(asking), asking.asked)
       IN IF ~stopping /\ Accepts("last", p) THEN Sets("last", p, "request")
          ELSE UNCHANGED <<ticker, waits, step, since>>
    /\ UNCHANGED <<scope, marking, pending, filled, used>>

Backoff(kind) == IF stopping THEN UNCHANGED waits ELSE waits' = waits \cup {kind}
FailMark ==
    /\ step.at = "loop" /\ marking.on /\ marking' = Finished(marking)
    /\ used.faults < MaxFaults /\ used' = [used EXCEPT !.faults = @ + 1]
    /\ Backoff("mark")
    /\ UNCHANGED <<ticker, scope, asking, pending, step, ghosts>>
FailTicker ==
    /\ step.at = "loop" /\ asking.on /\ asking' = Finished(asking)
    /\ used.faults < MaxFaults /\ used' = [used EXCEPT !.faults = @ + 1]
    /\ Backoff("last")
    /\ UNCHANGED <<ticker, scope, marking, pending, step, ghosts>>

RetryReady(kind) ==
    /\ kind \in waits /\ waits' = waits \ {kind}
    /\ UNCHANGED <<ticker, scope, tasks, pending, step, ghosts,
                   used>>

-----------------------------------------------------------------------------
(* The scope.                                                                *)

Pause ==
    /\ used.pauses < MaxPauses /\ used' = [used EXCEPT !.pauses = @ + 1]
    /\ running' = FALSE /\ epoch' = epoch + 1
    /\ UNCHANGED <<ticker, mode, stopping, tasks, waits, pending,
                   step, ghosts>>
Resume ==
    /\ step.at = "loop" /\ ~running /\ ~stopping /\ running' = TRUE
    /\ UNCHANGED <<ticker, mode, epoch, stopping, tasks, waits,
                   pending, step, ghosts, used>>

\* retire_market_requests.
Retire == marking' = NoTask /\ asking' = NoTask /\ pending' = NoPending

\* apply_config with another mode: the price is asked for before the orders
\* are cancelled.  It is stamped when the configuration is installed, and so
\* taken for the price of that moment here.
BeginSwitch ==
    /\ step.at = "loop" /\ ~stopping /\ used.switches < MaxSwitches
    /\ used' = [used EXCEPT !.switches = @ + 1]
    /\ Retire /\ step' = [at |-> "switch"]
    /\ UNCHANGED <<ticker, scope, waits, ghosts>>
Switch ==
    /\ step.at = "switch" /\ step' = NoStep
    /\ mode' = IF mode = "paper" THEN "live" ELSE "paper"
    /\ ticker' = [last |-> Price(0, 0), mark |-> Never]
    /\ waits' = {} /\ since' = epoch
    /\ UNCHANGED <<running, epoch, stopping, tasks, pending,
                   filled, used>>
SwitchFails ==
    /\ step.at = "switch" /\ step' = NoStep
    /\ UNCHANGED <<ticker, scope, tasks, waits, pending, ghosts,
                   used>>

Stop ==
    /\ ~stopping /\ stopping' = TRUE
    /\ UNCHANGED <<ticker, mode, running, epoch, tasks, waits,
                   pending, step, ghosts, used>>
\* shutdown_inner: the loop is left.
End ==
    /\ stopping /\ step.at = "loop" /\ step' = [at |-> "ended"] /\ Retire
    /\ UNCHANGED <<ticker, scope, waits, ghosts, used>>

Older(age) == IF age < MaxAge THEN age + 1 ELSE age
OlderPrice(p) == Price(Older(p.stamp), Older(p.real))
OlderTask(t) == IF t.on THEN [t EXCEPT !.asked = Older(@)] ELSE t
Tick ==
    /\ marking.asked < Timeout /\ asking.asked < Timeout
    /\ ticker' = [k \in Kinds |-> OlderPrice(ticker[k])]
    /\ marking' = OlderTask(marking) /\ asking' = OlderTask(asking)
    /\ pending' = IF pending.on THEN [pending EXCEPT !.price = OlderPrice(@)]
                  ELSE pending
    /\ step' = CASE step.at \in {"priced", "remember"} ->
                       [step EXCEPT !.price = OlderPrice(@)]
                 [] OTHER -> step
    /\ UNCHANGED <<scope, waits, ghosts, used>>

Init ==
    /\ ticker = [k \in Kinds |-> Never]
    /\ mode \in {"paper", "live"} /\ running = TRUE /\ epoch = 0
    /\ stopping = FALSE
    /\ marking = NoTask /\ asking = NoTask
    /\ waits = {}
    /\ pending = NoPending /\ step = NoStep
    /\ filled = [holds |-> TRUE, since |-> TRUE] /\ since = 0
    /\ used = [pauses |-> 0, switches |-> 0, faults |-> 0]

EngineStep == \/ Match(TRUE) \/ Match(FALSE) \/ Remember \/ Switch \/ SwitchFails
              \/ End
Next ==
    \/ EngineStep \/ Sync \/ CompleteMark \/ CompleteTicker
    \/ FailMark \/ FailTicker \/ AskShared \/ AskPrice
    \/ \E k \in Kinds : RetryReady(k) \/ \E age \in 0..(MaxAge - 1) : Handle(k, age)
    \/ Pause \/ Resume \/ BeginSwitch \/ Stop \/ Tick

\* The engine goes on; its timers fire; requests are answered.
Fairness ==
    /\ WF_vars(EngineStep) /\ SF_vars(Sync)
    /\ SF_vars(CompleteMark \/ FailMark) /\ SF_vars(CompleteTicker \/ FailTicker)
    /\ \A k \in Kinds : WF_vars(RetryReady(k))

Spec == Init /\ [][Next]_vars /\ Fairness

-----------------------------------------------------------------------------
Ages == 0..MaxAge
TypeOK ==
    /\ \A k \in Kinds : ticker[k] = Never \/ ticker[k] \in [stamp : Ages,
                                                            real : Ages]
    /\ mode \in {"paper", "live"} /\ {running, stopping} \subseteq BOOLEAN
    /\ {marking, asking} \subseteq [on : BOOLEAN, asked : Ages, same : BOOLEAN]
    /\ waits \subseteq Kinds

\* A price that passes for fresh was the market's within that time
\* (strategy/grid.rs, apply_mark_price_completion and start_ticker_request;
\* exchange/market_cache.rs).
PricesCurrent == \A k \in Kinds : Holds(ticker[k]) => ticker[k].real < MaxAge

\* A price that fills orders on paper was the market's lately and was accepted
\* after the last pause (match_pending_paper_ticker).
FillsHold == filled.holds /\ filled.since

\* Whatever the stream does, each price is fresh again and again, unless the
\* engine stops: the periodic sync asks again after every answer, late, failed
\* or overtaken (sync_cycle, finish_mark_price_task).
FreshAgain == \A k \in Kinds : []<>(Holds(ticker[k]) \/ stopping)
=============================================================================
