------------------------------ MODULE MCTrading ------------------------------
(***************************************************************************)
(* The safety runs of the components that keep orders, trades and money, as *)
(* scenes of one run: each behaviour is one component's, chosen by          *)
(* TradingInit.  The bounds of the remainders are those of the              *)
(* configuration, the others are given to the INSTANCE of the scene; in the *)
(* other scenes the remainders stay at an initial state, the rest Off.      *)
(***************************************************************************)
EXTENDS RemainderPlan, TLC

CONSTANTS low, high, eth, btc, Off

VARIABLES
    scene,  \* whose behaviour this is
    \* OrderLifecycle
    level, orders, held, recorded, ledger, position, ready, going, engine,
    asked, used,
    \* TradeHistory
    rows, kept, frontier, rollup, saved, revision, clearing, conn, commit,
    mode, stats, recent, changing, doubt, spoiled, late, task, charts,
    reader, publisher, shown, today, version, spent,
    \* PaperWallet
    row, legacy, wallet, mem, past, modes, engines, tasks, failed, won,
    tick, fills, turns, failures,
    \* OrderEvidence
    market, record, batches, seen, blocked, order, conflict, tracked,
    pending, disputed, loaded, settled, sync, heard, asks

ordersVars == <<level, orders, held, recorded, ledger, position, ready,
    going, engine, asked, used>>
historyVars == <<rows, kept, frontier, rollup, saved, revision, clearing,
    conn, commit, mode, stats, recent, changing, doubt, spoiled, late, task,
    charts, reader, publisher, shown, today, version, spent>>
walletVars == <<row, legacy, wallet, mem, past, modes, engines, tasks,
    failed, won, tick, fills, turns, failures>>
evidenceVars == <<market, record, batches, seen, blocked, order, conflict,
    tracked, pending, disputed, loaded, settled, sync, heard, asks>>

\* Two orders over two levels, where what both reserve exceeds the limit.
Opening == INSTANCE OrderLifecycle WITH
    ex <- orders, active <- held, managed <- recorded, pos <- position,
    running <- going,
    Orders <- Sources, Levels <- {low, high}, Size <- 2, Limit <- 3,
    MaxFaults <- 1, MaxCrashes <- 1, MaxInputs <- 1

\* Two pairs record, clear and verify; a mode changes; something fails.
Ledger == INSTANCE TradeHistory WITH
    used <- spent,
    Symbols <- {eth, btc}, LiveOrders <- {1, 2}, PaperOrders <- {3},
    SymbolOf <- (1 :> eth @@ 2 :> btc @@ 3 :> btc), Readers <- {}, Tries <- 2,
    MaxClears <- 1, MaxSwitches <- 1, MaxFaults <- 1, MaxQuestions <- 0

\* The fills of one pair are cleared twice.
Clearings == INSTANCE TradeHistory WITH
    used <- spent,
    Symbols <- {eth}, LiveOrders <- {1, 2}, PaperOrders <- {},
    SymbolOf <- (1 :> eth @@ 2 :> eth), Readers <- {}, Tries <- 2,
    MaxClears <- 2, MaxSwitches <- 1, MaxFaults <- 1, MaxQuestions <- 0

\* The timer and a clearing collect and publish snapshots of one pair.
Snapshots == INSTANCE TradeHistory WITH
    used <- spent,
    Symbols <- {eth}, LiveOrders <- {1}, PaperOrders <- {2},
    SymbolOf <- (1 :> eth @@ 2 :> eth), Readers <- {"t", "c"}, Tries <- 3,
    MaxClears <- 1, MaxSwitches <- 1, MaxFaults <- 0, MaxQuestions <- 0

\* Snapshots are published while a recording is interrupted or a read fails.
Interruption == INSTANCE TradeHistory WITH
    used <- spent,
    Symbols <- {eth}, LiveOrders <- {1}, PaperOrders <- {2},
    SymbolOf <- (1 :> eth @@ 2 :> eth), Readers <- {"t", "c"}, Tries <- 3,
    MaxClears <- 1, MaxSwitches <- 0, MaxFaults <- 1, MaxQuestions <- 0

\* The profit of the day is asked for twice while the history changes.
Day == INSTANCE TradeHistory WITH
    used <- spent,
    Symbols <- {eth}, LiveOrders <- {1}, PaperOrders <- {2},
    SymbolOf <- (1 :> eth @@ 2 :> eth), Readers <- {}, Tries <- 3,
    MaxClears <- 1, MaxSwitches <- 1, MaxFaults <- 1, MaxQuestions <- 2

\* Two pairs share the wallet of one asset.
Wallet == INSTANCE PaperWallet WITH
    ledger <- wallet, mode <- modes, engine <- engines, task <- tasks,
    booked <- won, faults <- failures,
    Pairs <- Sources, AssetOf <- [p \in Sources |-> "USDC"],
    MaxFills <- 2, MaxTicks <- 1, MaxTurns <- 2, MaxFaults <- 1

\* Two identities under one client order id, at an exchange that lags.
Lagging == INSTANCE OrderEvidence WITH
    ex <- market, managed <- record, rows <- batches, stored <- seen,
    ready <- settled, job <- sync, used <- asks,
    Ids <- Sources, Times <- {1}, Honest <- TRUE, MaxLies <- 0,
    MaxSyncs <- 3, MaxFaults <- 0, MaxCrashes <- 0

\* The same with a wrong answer and the end of the process.
Lying == INSTANCE OrderEvidence WITH
    ex <- market, managed <- record, rows <- batches, stored <- seen,
    ready <- settled, job <- sync, used <- asks,
    Ids <- Sources, Times <- {1}, Honest <- FALSE, MaxLies <- 1,
    MaxSyncs <- 2, MaxFaults <- 0, MaxCrashes <- 1

\* Two names are the remainders, the orders, the pairs of the wallet or the
\* identities of a scene, and alike in each; so are two levels.
Interchangeable == Permutations(Sources) \cup Permutations({low, high})

\* Two remainders merged into one target while the grid closes beside them, or
\* one beside a paired order whose request may have been accepted.
ClosingInit ==
    /\ Init
    /\ Cardinality({s \in Sources : managed[s] > 0}) + Cardinality(intents) = 2

\* The remainders in the scenes of the others.
PlansIdle == Init /\ intents = {} /\ pos = 0

OrdersOff ==
    /\ level = Off /\ orders = Off /\ held = Off /\ recorded = Off
    /\ ledger = Off /\ position = Off /\ ready = Off /\ going = Off
    /\ engine = Off /\ asked = Off /\ used = Off

HistoryOff ==
    /\ rows = Off /\ kept = Off /\ frontier = Off /\ rollup = Off
    /\ saved = Off /\ revision = Off /\ clearing = Off /\ conn = Off
    /\ commit = Off /\ mode = Off /\ stats = Off /\ recent = Off
    /\ changing = Off /\ doubt = Off /\ spoiled = Off /\ late = Off
    /\ task = Off /\ charts = Off /\ reader = Off /\ publisher = Off
    /\ shown = Off /\ today = Off /\ version = Off /\ spent = Off

WalletOff ==
    /\ row = Off /\ legacy = Off /\ wallet = Off /\ mem = Off /\ past = Off
    /\ modes = Off /\ engines = Off /\ tasks = Off /\ failed = Off
    /\ won = Off /\ tick = Off /\ fills = Off /\ turns = Off
    /\ failures = Off

EvidenceOff ==
    /\ market = Off /\ record = Off /\ batches = Off /\ seen = Off
    /\ blocked = Off /\ order = Off /\ conflict = Off /\ tracked = Off
    /\ pending = Off /\ disputed = Off /\ loaded = Off /\ settled = Off
    /\ sync = Off /\ heard = Off /\ asks = Off

TradingInit ==
    \/ /\ scene = "closing" /\ ClosingInit /\ OrdersOff /\ HistoryOff
       /\ WalletOff /\ EvidenceOff
    \/ /\ PlansIdle /\ HistoryOff /\ WalletOff /\ EvidenceOff
       /\ scene = "orders" /\ Opening!Init
    \/ /\ PlansIdle /\ OrdersOff /\ WalletOff /\ EvidenceOff
       /\ \/ scene = "ledger" /\ Ledger!Init
          \/ scene = "clearings" /\ Clearings!Init
          \/ scene = "snapshots" /\ Snapshots!Init
          \/ scene = "interruption" /\ Interruption!Init
          \/ scene = "day" /\ Day!Init
    \/ /\ PlansIdle /\ OrdersOff /\ HistoryOff /\ EvidenceOff
       /\ scene = "wallet" /\ Wallet!Init
    \/ /\ PlansIdle /\ OrdersOff /\ HistoryOff /\ WalletOff
       /\ \/ scene = "lagging" /\ Lagging!Init
          \/ scene = "lying" /\ Lying!Init

TradingNext ==
    /\ UNCHANGED scene
    /\ \/ /\ UNCHANGED <<ordersVars, historyVars, walletVars, evidenceVars>>
          /\ scene = "closing" /\ Next
       \/ /\ UNCHANGED <<vars, historyVars, walletVars, evidenceVars>>
          /\ scene = "orders" /\ Opening!Next
       \/ /\ UNCHANGED <<vars, ordersVars, walletVars, evidenceVars>>
          /\ \/ scene = "ledger" /\ Ledger!Next
             \/ scene = "clearings" /\ Clearings!Next
             \/ scene = "snapshots" /\ Snapshots!Next
             \/ scene = "interruption" /\ Interruption!Next
             \/ scene = "day" /\ Day!Next
       \/ /\ UNCHANGED <<vars, ordersVars, historyVars, evidenceVars>>
          /\ scene = "wallet" /\ Wallet!Next
       \/ /\ UNCHANGED <<vars, ordersVars, historyVars, walletVars>>
          /\ \/ scene = "lagging" /\ Lagging!Next
             \/ scene = "lying" /\ Lying!Next

TradingSpec ==
    TradingInit /\ [][TradingNext]_<<scene, vars, ordersVars, historyVars,
                                     walletVars, evidenceVars>>

------------------------------------------------------------------------------
\* Every component keeps its type.
TypesOK ==
    /\ TypeOK
    /\ scene = "orders" => Opening!TypeOK
    /\ scene = "ledger" => Ledger!TypeOK
    /\ scene = "clearings" => Clearings!TypeOK
    /\ scene = "snapshots" => Snapshots!TypeOK
    /\ scene = "interruption" => Interruption!TypeOK
    /\ scene = "day" => Day!TypeOK
    /\ scene = "wallet" => Wallet!TypeOK
    /\ scene = "lagging" => Lagging!TypeOK
    /\ scene = "lying" => Lying!TypeOK

\* OrderLifecycle: what orders executed and may still execute stays within
\* the limit the placement checked, and no two that may be executed stand on
\* one level (grid.rs, place_grid_order).
OrdersWithinLimits ==
    scene = "orders" =>
        Opening!ExposureWithinLimit /\ Opening!OneOrderPerLevel

\* TradeHistory: tables and memory are the same history, each fill once
\* (state.rs, record_trade; db.rs, clear_trades_on).
HistoryAgrees ==
    /\ scene = "ledger" => Ledger!HistoryAgrees
    /\ scene = "clearings" => Clearings!HistoryAgrees
    /\ scene = "snapshots" => Snapshots!HistoryAgrees
    /\ scene = "interruption" => Interruption!HistoryAgrees
    /\ scene = "day" => Day!HistoryAgrees

\* TradeHistory: a snapshot shows one moment, and never one before a clearing
\* after it (snapshot.rs, collect_with_charts); the profit of the day contains
\* every change published when it was asked for (db.rs, cached_today_pnl).
ShownIsCurrent ==
    /\ scene = "snapshots" => Snapshots!SnapshotsAgree
    /\ scene = "interruption" => Interruption!SnapshotsAgree
    /\ scene = "day" => Day!TodayIsCurrent

\* PaperWallet: the shared wallet is the sum of what was committed (db/paper.rs,
\* PaperLedger), and no simulated fill is lost or counted twice (state.rs,
\* record_trade_with_paper_state).
WalletHolds ==
    scene = "wallet" =>
        Wallet!WalletAgrees /\ Wallet!FillsKept

\* OrderEvidence: an answer that contradicts what an earlier sync saved is
\* never cleared (grid.rs, record_and_check_initial_timeline); true answers
\* never block the pair, and evidence is cleared only of orders that ended
\* without a fill (reconciliation.rs).
EvidenceHolds ==
    [][/\ scene = "lying" => Lying!KeepsEvidence
       /\ scene = "lagging" => Lagging!ResolvesTruly]_<<scene, evidenceVars>>
==============================================================================
