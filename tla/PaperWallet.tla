----------------------------- MODULE PaperWallet -----------------------------
(* The paper accounts of the pairs and the wallet they share per asset.      *)
(*                                                                           *)
(* Every pair keeps an account and a position of its own, in memory and, from *)
(* its first simulated fill on, in a row of `paper_accounts`.  What the       *)
(* console and the risk checks see is one wallet per asset: the initial       *)
(* balance plus what every pair of that asset has won or lost.  It is kept   *)
(* incrementally in a process-local ledger (db/paper.rs) that is loaded on    *)
(* first use, follows every committed fill, and also takes the uncommitted    *)
(* valuations that engines and readers publish.                              *)
(*                                                                           *)
(* A holding is a wallet delta, a size and the time of its valuation; the     *)
(* entry price and the profit not yet realised follow from these.            *)
EXTENDS Integers, FiniteSets, FiniteSetsExt

CONSTANTS
    Pairs,      \* trading pairs, each with one strategy
    AssetOf,    \* the quote asset of a pair
    MaxFills,   \* simulated fills, of all pairs
    MaxTicks,   \* market events that carry a newer valuation time
    MaxTurns,   \* crashes, replacements and mode changes
    MaxFaults   \* failing transactions

VARIABLES
    row,     \* [Pairs -> row of paper_accounts or None]
    legacy,  \* pairs with paper trades from before accounts were stored
    ledger,  \* the process-local ledger, Unloaded until first use
    mem,     \* [Pairs -> state.position and state.account]
    past,    \* [Pairs -> the memory of a replaced state, still readable]
    mode,    \* [Pairs -> the configured trading mode]
    engine,  \* [Pairs -> what the strategy task is doing]
    task,    \* [Pairs -> the spawned commit of a simulated fill]
    failed,  \* pairs with `paper_restore_failed`
    booked,  \* what the fills recorded so far add up to
    tick, fills, turns, faults

vars == <<row, legacy, ledger, mem, past, mode, engine, task, failed, booked,
          tick, fills, turns, faults>>
counters == <<tick, fills, turns, faults>>

None == [none |-> TRUE]
Unloaded == [unloaded |-> TRUE]
Assets == {AssetOf[p] : p \in Pairs}
OfAsset(a) == {p \in Pairs : AssetOf[p] = a}

\* AccountInfo::initial_paper and PositionInfo::default.
Fresh(at) == [delta |-> 0, size |-> 0, at |-> at]

\* An exchange's account and position: never the paper pair's.
Foreign == [delta |-> 9, size |-> 9, at |-> 0]

-----------------------------------------------------------------------------
(* The ledger.                                                               *)

NoTotal == [delta |-> 0, size |-> 0, open |-> [t \in 0..MaxTicks |-> 0]]

\* AssetLedger::add and ::remove, the latter with sign -1.
Sum(total, c, sign) ==
    [delta |-> total.delta + sign * c.delta,
     size |-> total.size + sign * c.size,
     open |-> [total.open EXCEPT ![c.at] =
                 @ + IF c.size # 0 THEN sign ELSE 0]]

Empty == [of |-> [p \in Pairs |-> None],
          total |-> [a \in Assets |-> NoTotal],
          unresolved |-> {}]

AcceptsLater(c, m) == m.at >= c.at

\* A snapshot from before a newer fill may not roll the holdings back.
AcceptsValuation(c, m) ==
    /\ c.committed => m.delta = c.delta /\ m.size = c.size
    /\ m.at >= c.at

Contribution(old, m, committed) ==
    [delta |-> m.delta, size |-> m.size, at |-> m.at,
     committed |-> committed \/ (old # None /\ old.committed)]

Replaced(total, old, new) ==
    Sum(IF old = None THEN total ELSE Sum(total, old, -1), new, 1)

Publish(L, p, m, committed) ==
    LET old == L.of[p]
        new == Contribution(old, m, committed)
    IN  IF old # None /\ ~committed /\ ~AcceptsValuation(old, m)
        THEN L
        ELSE [L EXCEPT !.of[p] = new,
                       !.total[AssetOf[p]] = Replaced(@, old, new)]

CommitTo(L, p, m) ==
    Publish([L EXCEPT !.unresolved = @ \ {p}], p, m, TRUE)

\* PaperLedger::load: every row, then the history that has no row.
Loaded ==
    LET rows == {p \in Pairs : row[p] # None}
        read == FoldSet(LAMBDA p, L : Publish(L, p, row[p], TRUE), Empty, rows)
    IN  [read EXCEPT !.unresolved = legacy \ rows]

Ledger == IF ledger = Unloaded THEN Loaded ELSE ledger

Unresolved(p) == Ledger.unresolved \cap OfAsset(AssetOf[p]) # {}

\* shared_paper_account: refused while the asset has unresolved history.
Shared(p, m) ==
    ledger' = IF Unresolved(p) THEN Ledger ELSE Publish(Ledger, p, m, FALSE)

-----------------------------------------------------------------------------
(* Starting, reading and valuing.                                            *)

Paper(p) == mode[p] = "paper"
Locked == \E p \in Pairs : task[p] # None /\ task[p].st = "saved"

\* has_legacy_paper_history_on and load_paper_state: refuse to guess.
Restorable(p) == row[p] # None \/ p \notin legacy
Restored(p) == IF row[p] # None THEN row[p] ELSE Fresh(tick)

\* AppState::build: an account that cannot be restored starts the pair paused.
Boot(p) ==
    /\ engine[p] = "down"
    /\ engine' = [engine EXCEPT ![p] = "idle"]
    /\ IF ~Paper(p)
       THEN mem' = [mem EXCEPT ![p] = Foreign] /\ UNCHANGED <<ledger, failed>>
       ELSE /\ mem' = [mem EXCEPT ![p] = IF Restorable(p) THEN Restored(p)
                                         ELSE Fresh(tick)]
            /\ IF Restorable(p)
               THEN /\ Shared(p, Restored(p))
                    /\ failed' = IF Unresolved(p) THEN failed \cup {p}
                                 ELSE failed
               ELSE failed' = failed \cup {p} /\ UNCHANGED ledger
    /\ UNCHANGED <<row, legacy, past, mode, task, booked, counters>>

\* account_view: what a snapshot, a risk check or a notification reads.  All
\* of them hold the commit lock.
View(p) ==
    /\ engine[p] # "down" /\ Paper(p) /\ p \notin failed /\ ~Locked
    /\ Shared(p, mem[p])
    /\ failed' = IF Unresolved(p) THEN failed \cup {p} ELSE failed
    /\ UNCHANGED <<row, legacy, mem, past, mode, engine, task, booked,
                   counters>>

\* A request that still holds a replaced state publishes what that one knew.
ViewReplaced(p) ==
    /\ past[p] # None /\ ~Locked
    /\ Shared(p, past[p])
    /\ UNCHANGED <<row, legacy, mem, past, mode, engine, task, failed, booked,
                   counters>>

Tick ==
    /\ tick < MaxTicks
    /\ tick' = tick + 1
    /\ UNCHANGED <<row, legacy, ledger, mem, past, mode, engine, task, failed,
                   booked, fills, turns, faults>>

\* update_paper_valuation, by a market event or at the end of a mode change.
Value(p) ==
    /\ engine[p] \in {"idle", "valuing"} /\ Paper(p)
    /\ engine[p] = "idle" => mem[p].at # tick
    /\ mem' = [mem EXCEPT ![p].at = tick]
    /\ Shared(p, mem'[p])
    /\ failed' = IF Unresolved(p) THEN failed \cup {p} ELSE failed
    /\ engine' = [engine EXCEPT ![p] = "idle"]
    /\ UNCHANGED <<row, legacy, past, mode, task, booked, counters>>

-----------------------------------------------------------------------------
(* A simulated fill: computed from memory, committed by a task of its own.   *)

\* apply_fill_to_position: an entry adds, an exit takes away and realises.
Entry == [delta |-> 0, size |-> 1]
Exits == {[delta |-> d, size |-> -1] : d \in {-1, 1}}
Effects(m) == {Entry} \cup (IF m.size > 0 THEN Exits ELSE {})

After(m, e) == [delta |-> m.delta + e.delta, size |-> m.size + e.size,
                at |-> tick]

\* A strategy with a failed restore cannot be resumed.
Fill(p) ==
    /\ engine[p] = "idle" /\ Paper(p) /\ p \notin failed
    /\ task[p] = None /\ fills < MaxFills
    /\ fills' = fills + 1
    /\ \E e \in Effects(mem[p]) :
         task' = [task EXCEPT ![p] =
                    [st |-> "queued", effect |-> e,
                     holding |-> After(mem[p], e)]]
    /\ engine' = [engine EXCEPT ![p] = "filling"]
    /\ UNCHANGED <<row, legacy, ledger, mem, past, mode, failed, booked,
                   tick, turns, faults>>

\* insert_trade_with_paper_recovery: the trade, the row and the ledger at once.
Commit(p) ==
    /\ task[p] # None /\ task[p].st = "queued" /\ ~Locked
    /\ row' = [row EXCEPT ![p] = task[p].holding]
    /\ booked' = [booked EXCEPT ![p] =
                    [delta |-> @.delta + task[p].effect.delta,
                     size |-> @.size + task[p].effect.size]]
    /\ ledger' = IF ledger = Unloaded THEN Unloaded
                 ELSE CommitTo(ledger, p, task[p].holding)
    /\ task' = [task EXCEPT ![p].st = "saved"]
    /\ UNCHANGED <<legacy, mem, past, mode, engine, failed, counters>>

FillEnds(p) ==
    /\ task' = [task EXCEPT ![p] = None]
    /\ engine' = [engine EXCEPT ![p] = IF @ = "filling" THEN "idle" ELSE @]

\* The transaction fails: memory stays, the pair is paused.
CommitFails(p) ==
    /\ task[p] # None /\ task[p].st = "queued" /\ ~Locked
    /\ faults < MaxFaults
    /\ faults' = faults + 1
    /\ FillEnds(p)
    /\ UNCHANGED <<row, legacy, ledger, mem, past, mode, failed, booked,
                   tick, fills, turns>>

\* The new holdings enter memory, still under the commit lock.
Install(p) ==
    /\ task[p] # None /\ task[p].st = "saved"
    /\ mem' = [mem EXCEPT ![p] = task[p].holding]
    /\ IF p \in failed THEN UNCHANGED ledger ELSE Shared(p, mem'[p])
    /\ failed' = IF Unresolved(p) THEN failed \cup {p} ELSE failed
    /\ FillEnds(p)
    /\ UNCHANGED <<row, legacy, past, mode, booked, counters>>

-----------------------------------------------------------------------------
(* Mode changes, replacements, crashes and the offline migration.            *)

Turn == turns < MaxTurns /\ turns' = turns + 1

\* apply_config saves and installs the configuration first: until the memory
\* follows, a risk check (which takes no scope lock) reads the old account.
Switch(p) ==
    /\ engine[p] = "idle" /\ Turn
    /\ ~Paper(p) => Restorable(p)
    /\ mode' = [mode EXCEPT ![p] = IF Paper(p) THEN "live" ELSE "paper"]
    /\ engine' = [engine EXCEPT ![p] = "switching"]
    /\ UNCHANGED <<row, legacy, ledger, mem, past, task, failed, booked,
                   tick, fills, faults>>

SwitchMemory(p) ==
    /\ engine[p] = "switching"
    /\ mem' = [mem EXCEPT ![p] = IF Paper(p) THEN Restored(p) ELSE Foreign]
    /\ failed' = failed \ {p}
    /\ engine' = [engine EXCEPT ![p] = IF Paper(p) THEN "valuing" ELSE "idle"]
    /\ UNCHANGED <<row, legacy, ledger, past, mode, task, booked, counters>>

\* The engine is stopped for a removal, mid-fill too: its commit goes on.
Stop(p) ==
    /\ engine[p] \in {"idle", "filling"} /\ Turn
    /\ engine' = [engine EXCEPT ![p] = "stopped"]
    /\ UNCHANGED <<row, legacy, ledger, mem, past, mode, task, failed, booked,
                   tick, fills, faults>>

DrainsNothing(p) == TRUE

\* drain_trade_commits.
Drained(p) == task[p] = None

\* The removal fails and a replacement state takes the old one's holdings.
Replace(p) ==
    /\ engine[p] = "stopped" /\ Drained(p)
    /\ past' = [past EXCEPT ![p] =
                   IF Paper(p) /\ p \notin failed THEN mem[p] ELSE None]
    /\ engine' = [engine EXCEPT ![p] = "idle"]
    /\ IF Paper(p) /\ Restorable(p)
       THEN /\ Shared(p, Restored(p))
            /\ failed' = IF Unresolved(p) THEN failed \cup {p} ELSE failed \ {p}
       ELSE /\ UNCHANGED ledger
            /\ failed' = IF Paper(p) THEN failed \cup {p} ELSE failed \ {p}
    /\ UNCHANGED <<row, legacy, mem, mode, task, booked, counters>>

\* The process ends at any point; rows, history and configuration survive.
Crash ==
    /\ Turn
    /\ ledger' = Unloaded
    /\ mem' = [p \in Pairs |-> Fresh(0)]
    /\ past' = [p \in Pairs |-> None]
    /\ engine' = [p \in Pairs |-> "down"]
    /\ task' = [p \in Pairs |-> None]
    /\ failed' = {}
    /\ UNCHANGED <<row, legacy, mode, booked, tick, fills, faults>>

\* `migrate-legacy-paper`, while no process runs on the database.
Migrate(p) ==
    /\ \A q \in Pairs : engine[q] = "down"
    /\ row[p] = None /\ p \in legacy
    /\ row' = [row EXCEPT ![p] = Fresh(tick)]
    /\ UNCHANGED <<legacy, ledger, mem, past, mode, engine, task, failed,
                   booked, counters>>

-----------------------------------------------------------------------------
Init ==
    /\ row = [p \in Pairs |-> None]
    /\ legacy \in {{}} \cup {{p} : p \in Pairs}
    /\ ledger = Unloaded
    /\ mem = [p \in Pairs |-> Fresh(0)]
    /\ past = [p \in Pairs |-> None]
    /\ mode \in [Pairs -> {"paper", "live"}]
    /\ engine = [p \in Pairs |-> "down"]
    /\ task = [p \in Pairs |-> None]
    /\ failed = {}
    /\ booked = [p \in Pairs |-> [delta |-> 0, size |-> 0]]
    /\ tick = 0 /\ fills = 0 /\ turns = 0 /\ faults = 0

Next ==
    \/ Tick \/ Crash
    \/ \E p \in Pairs :
         \/ Boot(p) \/ View(p) \/ ViewReplaced(p) \/ Value(p)
         \/ Fill(p) \/ Commit(p) \/ CommitFails(p) \/ Install(p)
         \/ Switch(p) \/ SwitchMemory(p) \/ Stop(p) \/ Replace(p) \/ Migrate(p)

Spec == Init /\ [][Next]_vars

-----------------------------------------------------------------------------
Holding == [delta : Int, size : Nat, at : 0..MaxTicks]
Entered == [delta : Int, size : Nat, at : 0..MaxTicks, committed : BOOLEAN]
Effect == [delta : Int, size : Int]
Ledgers == [of : [Pairs -> Entered \cup {None}],
            total : [Assets -> [delta : Int, size : Int,
                                open : [0..MaxTicks -> Int]]],
            unresolved : SUBSET Pairs]

TypeOK ==
    /\ row \in [Pairs -> Holding \cup {None}]
    /\ past \in [Pairs -> Holding \cup {None}]
    /\ legacy \subseteq Pairs /\ failed \subseteq Pairs
    /\ mem \in [Pairs -> Holding]
    /\ mode \in [Pairs -> {"paper", "live"}]
    /\ engine \in [Pairs -> {"down", "idle", "filling", "switching", "valuing",
                             "stopped"}]
    /\ task \in [Pairs -> [st : {"queued", "saved"}, effect : Effect,
                           holding : Holding] \cup {None}]
    /\ booked \in [Pairs -> [delta : Int, size : Int]]
    /\ ledger # Unloaded => ledger \in Ledgers
    /\ tick \in 0..MaxTicks /\ fills \in 0..MaxFills
    /\ turns \in 0..MaxTurns /\ faults \in 0..MaxFaults

\* A mode change has begun and its first valuation is still to come.
Entering(p) == engine[p] \in {"switching", "valuing"}

\* What the contributions to an asset add up to.
Deltas(of) == [p \in Pairs |-> IF of[p] = None THEN 0 ELSE of[p].delta]
Sizes(of) == [p \in Pairs |-> IF of[p] = None THEN 0 ELSE of[p].size]
Open(of, a, t) == {p \in OfAsset(a) : /\ of[p] # None
                                      /\ of[p].size # 0 /\ of[p].at = t}
TotalOf(of, a) ==
    [delta |-> SumFunctionOnSet(Deltas(of), OfAsset(a)),
     size |-> SumFunctionOnSet(Sizes(of), OfAsset(a)),
     open |-> [t \in 0..MaxTicks |-> Cardinality(Open(of, a, t))]]

\* The shared wallet is the sum of what was committed: every contribution
\* with a row equals that row, one without a row is empty (except while its
\* pair is entering paper mode), the totals are the sum of the contributions,
\* and no pair whose holdings are unknown is part of them.
WalletAgrees ==
    ledger # Unloaded =>
      /\ \A p \in Pairs : ledger.of[p] # None =>
           LET c == ledger.of[p] IN
           IF row[p] # None
           THEN c.committed /\ c.delta = row[p].delta /\ c.size = row[p].size
           ELSE /\ p \notin legacy
                /\ ~Entering(p) => c.delta = 0 /\ c.size = 0
      /\ \A p \in Pairs : row[p] # None => ledger.of[p] # None
      /\ \A a \in Assets : ledger.total[a] = TotalOf(ledger.of, a)
      /\ ledger.unresolved = {p \in legacy : row[p] = None}

\* No simulated fill is lost or counted twice: the stored account of a pair is
\* the sum of its recorded fills, across aborted tasks, replaced states, mode
\* changes and restarts, and a running strategy computes from that account.
FillsKept ==
    \A p \in Pairs :
      /\ row[p] # None =>
           row[p].delta = booked[p].delta /\ row[p].size = booked[p].size
      /\ row[p] = None => booked[p] = [delta |-> 0, size |-> 0]
      /\ (engine[p] = "idle" /\ Paper(p) /\ p \notin failed) =>
           mem[p].delta = booked[p].delta /\ mem[p].size = booked[p].size
=============================================================================
