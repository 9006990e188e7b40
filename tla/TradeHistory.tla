----------------------------- MODULE TradeHistory -----------------------------
(***************************************************************************)
(* Trade history, statistics, profit verification and what is shown of them *)
(* (db.rs, db/hourly.rs, server/state.rs, server/snapshot.rs).              *)
(*                                                                          *)
(* Fills are recorded, their profit is verified later by a task that asks   *)
(* the exchange, the user clears the history of a pair or of all, the       *)
(* engine changes its mode, and snapshots are collected all the while.      *)
(* trade_commit_lock (commit) serializes the writers; the SQLite connection *)
(* (conn) is held from the commit of a transaction until its revision is    *)
(* published; snapshots and the profit of the day read the database without *)
(* the commit lock and are told apart by those revisions.                   *)
(*                                                                          *)
(* An order is its time of execution, its pair and its mode.  Each order    *)
(* counts 1 towards the trades and, verified, 1 towards the profit.         *)
(***************************************************************************)
EXTENDS Naturals, FiniteSets, FiniteSetsExt, TLC

CONSTANTS
    Symbols,      \* trading pairs
    LiveOrders,   \* fills of live orders; a number is the time of the fill
    PaperOrders,  \* fills of simulated orders
    SymbolOf,     \* the pair of each order
    Readers,      \* tasks that publish a snapshot: the timer, the clearing
    Tries,        \* attempts to collect charts that are current (3)
    MaxClears,    \* bound: clearings
    MaxSwitches,  \* bound: changes of mode or of the client
    MaxFaults,    \* bound: crashes, interruptions, failed reads, no answers
    MaxQuestions  \* bound: questions for the profit of the day

Orders == LiveOrders \cup PaperOrders

Modes == {"Live", "Paper"}
Scopes == Symbols \X Modes
ScopeOf(o) == <<SymbolOf[o], IF o \in LiveOrders THEN "Live" ELSE "Paper">>

VARIABLES
    rows,      \* database: trades, and whether their profit is verified
    kept,      \* database: orders a clearing removed (cleared_trade_ids)
    frontier,  \* database: the newest fill removed (execution_frontiers)
    rollup,    \* database: trade_hourly_rollups
    saved,     \* database: total_trades of scoped_grid_stats
    revision,  \* trade_revisions: published changes, of each symbol
    clearing,  \* trade_clear_revisions
    conn,      \* what the holder of the connection has yet to publish
    commit,    \* what the holder of trade_commit_lock does
    mode,      \* AppState.config: the mode of each pair
    stats,     \* AppState.stats
    recent,    \* AppState.recent_trades
    changing,  \* pairs whose snapshot_scope_lock a change holds
    doubt,     \* pairs whose memory may not be the history of their scope
    spoiled,   \* scopes whose saved total was not computed from their history
    late,      \* inserts of interrupted recordings that are still to run
    task,      \* the verification task of each pair
    charts,    \* SnapshotCache of each pair
    reader,    \* the tasks that collect and publish snapshots
    publisher, \* holder of snapshot_publish_lock
    shown,     \* clearings of each pair, in the last snapshot sent, in any
    today,     \* today_pnl_cache, its reader and the last answer
    version,   \* history: transactions of this life
    used       \* clearings, changes and faults so far

database == <<rows, kept, frontier, rollup, saved>>
memory == <<stats, recent>>
snapshots == <<charts, reader, publisher, shown>>
vars == <<database, revision, clearing, conn, commit, mode, memory, changing,
          doubt, spoiled, late, task, snapshots, today, version, used>>

Nothing == [trades |-> 0, profit |-> 0, pending |-> 0]
NoCommit == [op |-> "none", order |-> 0, syms |-> {}, rev |-> 0,
             stage |-> "none"]
Published == [syms |-> {}, cleared |-> FALSE]
NoTask == [rev |-> 0, orders |-> {}]
NoCharts == [mode |-> "none", rev |-> 0, value |-> Nothing]
NoFrame == [stats |-> Nothing, sound |-> FALSE, clearings |-> 0]
IdleReader == [pc |-> "idle", sym |-> "none", tries |-> 0,
               charts |-> NoCharts, frame |-> NoFrame]
NotShown == [clearings |-> 0, most |-> 0, cleared |-> 0]
NoDay == [loaded |-> FALSE, rev |-> 0, version |-> 0]
IdleToday == [pc |-> "idle", rev |-> 0, since |-> 0, cached |-> NoDay,
              answer |-> 0]

Present == {o \in Orders : rows[o] # "none"}
InScope(sc) == {o \in Present : ScopeOf(o) = sc}
Scope(s) == <<s, mode[s]>>
NewestOf(S) == IF S = {} THEN 0 ELSE Max(S)
Spend(what, bound) == used[what] < bound /\ used' = [used EXCEPT ![what] = @ + 1]

\* The sums a query over the rows of a scope would find.
Counted(sc) ==
    [trades  |-> Cardinality(InScope(sc)),
     profit  |-> Cardinality({o \in InScope(sc) : rows[o] = "verified"}),
     pending |-> Cardinality({o \in InScope(sc) : rows[o] = "pending"})]

\* The statistics and recent trades read from the database.
Loaded(s) == [Counted(Scope(s)) EXCEPT !.trades = saved[Scope(s)]]
LoadedRecent(s) ==
    [o \in Orders |-> IF ScopeOf(o) = Scope(s) THEN rows[o] ELSE "none"]

Zero == [s \in Symbols |-> 0]
NewRevisions == [now |-> 0, of |-> Zero]

Init ==
    /\ rows = [o \in Orders |-> "none"] /\ kept = {}
    /\ frontier = [sc \in Scopes |-> 0]
    /\ rollup = [sc \in Scopes |-> Nothing]
    /\ saved = [sc \in Scopes |-> 0]
    /\ revision = NewRevisions /\ clearing = NewRevisions
    /\ conn = Published /\ commit = NoCommit
    /\ mode \in [Symbols -> Modes]
    /\ stats = [s \in Symbols |-> Nothing]
    /\ recent = [s \in Symbols |-> [o \in Orders |-> "none"]]
    /\ changing = {} /\ doubt = [s \in Symbols |-> "none"] /\ spoiled = {}
    /\ late = {} /\ task = [s \in Symbols |-> NoTask]
    /\ charts = [s \in Symbols |-> NoCharts]
    /\ reader = [r \in Readers |-> IdleReader]
    /\ publisher = [s \in Symbols |-> "none"]
    /\ shown = [s \in Symbols |-> NotShown]
    /\ today = IdleToday /\ version = 0
    /\ used = [clears |-> 0, switches |-> 0, faults |-> 0, questions |-> 0]

-----------------------------------------------------------------------------
(* The commit lock: one writer is admitted, commits its transaction,        *)
(* publishes the revision with the connection still held, and installs the  *)
(* result in memory before it releases the lock.                            *)

Free == conn = Published
Admit(op, o, syms, rev) ==
    /\ commit = NoCommit
    /\ commit' = [op |-> op, order |-> o, syms |-> syms, rev |-> rev,
                  stage |-> "admitted"]

Stored(op) == commit.op = op /\ commit.stage = "stored" /\ Free
Admitted(op) == commit.op = op /\ commit.stage = "admitted" /\ Free
Writes(syms, cleared) ==
    /\ conn' = [syms |-> syms, cleared |-> cleared]
    /\ version' = version + 1
Commits(syms, cleared) ==
    Writes(syms, cleared) /\ commit' = [commit EXCEPT !.stage = "stored"]

\* Revisions: one counter, the last value of each symbol.  Clearing all sets
\* the value of every symbol; the code keeps one default for those unseen.
Bump(revs, syms) ==
    [now |-> revs.now + 1,
     of  |-> [s \in Symbols |-> IF s \in syms THEN revs.now + 1
                                              ELSE revs.of[s]]]
PublishesRows == conn.syms
OnlyInserts == IF conn.cleared THEN {} ELSE conn.syms
ToPublish == PublishesRows

Publish ==
    /\ ~Free
    /\ revision' = IF ToPublish = {} THEN revision ELSE Bump(revision, ToPublish)
    /\ clearing' = IF conn.cleared THEN Bump(clearing, conn.syms) ELSE clearing
    /\ conn' = Published
    /\ UNCHANGED <<database, commit, mode, memory, changing, doubt, spoiled,
                   late, task, snapshots, today, version, used>>

-----------------------------------------------------------------------------
(* Fills.                                                                   *)

\* The history knows an order after it was cleared, too.
Recorded(o) == rows[o] # "none" \/ o \in kept

\* The engine of a pair records a fill of the scope it runs in, once.  After
\* an interrupted recording it reloads its statistics first.
RecordBegins(o) ==
    /\ ScopeOf(o) = Scope(SymbolOf[o]) /\ ~Recorded(o)
    /\ SymbolOf[o] \notin changing /\ doubt[SymbolOf[o]] # "interrupted"
    /\ Admit("record", o, {SymbolOf[o]}, 0)
    /\ UNCHANGED <<database, revision, clearing, conn, mode, memory, changing,
                   doubt, spoiled, late, task, snapshots, today, version, used>>

\* A simulated fill is verified from the start.
Plus(total, o) ==
    IF o \in LiveOrders
    THEN [total EXCEPT !.trades = @ + 1, !.pending = @ + 1]
    ELSE [total EXCEPT !.trades = @ + 1, !.profit = @ + 1]
NewRow(o) == IF o \in LiveOrders THEN "pending" ELSE "verified"

\* The row, its hour and the total, which is absolute: what the memory counted
\* when the recording was admitted, and this fill.
Insert(o, total) ==
    /\ rows' = [rows EXCEPT ![o] = NewRow(o)]
    /\ rollup' = [rollup EXCEPT ![ScopeOf(o)] = Plus(@, o)]
    /\ saved' = [saved EXCEPT ![ScopeOf(o)] = total]

\* A total that is still to be written leaves out what its scope commits now.
Overtakes(S) ==
    {[l EXCEPT !.exact = @ /\ ScopeOf(l.order) \notin S] : l \in late}
NewTotal(s) == stats[s].trades + 1
Spoils(exact, sc) == spoiled' = IF exact THEN spoiled ELSE spoiled \cup {sc}

\* An insert left over from an earlier attempt may have been first.
RecordStored ==
    /\ Admitted("record")
    /\ LET o == commit.order s == SymbolOf[o] IN
       IF Recorded(o)
       THEN /\ commit' = NoCommit
            /\ UNCHANGED <<rows, rollup, saved, spoiled, late, conn, version>>
       ELSE /\ Insert(o, NewTotal(s)) /\ Commits({s}, FALSE)
            /\ Spoils(doubt[s] = "none", ScopeOf(o))
            /\ late' = Overtakes({ScopeOf(o)})
    /\ UNCHANGED <<kept, frontier, revision, clearing, mode, memory, changing,
                   doubt, task, snapshots, today, used>>

RecordInstalled ==
    /\ Stored("record")
    /\ LET o == commit.order s == SymbolOf[o] IN
       /\ stats' = [stats EXCEPT ![s] = Plus(@, o)]
       /\ recent' = [recent EXCEPT ![s][o] = NewRow(o)]
    /\ commit' = NoCommit
    /\ UNCHANGED <<database, revision, clearing, conn, mode, changing, doubt,
                   spoiled, late, task, snapshots, today, version, used>>

\* An initialization that is interrupted, or an engine that is aborted, drops
\* the recording of a live fill and so frees the lock.  The insert it waited
\* for is a blocking task that nobody cancels: it was not begun, is done, or is
\* still to run.  The recording of a simulated fill is a task of its own and
\* goes on.
RecordDropped ==
    /\ commit.op = "record" /\ commit.order \in LiveOrders
    /\ Spend("faults", MaxFaults)
    /\ LET o == commit.order s == SymbolOf[o]
           insert == [order |-> o, total |-> NewTotal(s),
                      exact |-> doubt[s] = "none"] IN
       /\ late' \in {late} \cup IF commit.stage = "admitted"
                                THEN {late \cup {insert}} ELSE {}
       /\ doubt' = [doubt EXCEPT ![s] = "interrupted"]
    /\ commit' = NoCommit
    /\ UNCHANGED <<database, revision, clearing, conn, mode, memory, changing,
                   spoiled, task, snapshots, today, version>>

\* The insert runs without the commit lock, whoever holds it by now.  A memory
\* that was reloaded before misses the fill; a total that was overtaken
\* replaces the one saved since.  A fill the history knows is left alone.
LateStored ==
    /\ Free
    /\ \E l \in late :
       LET o == l.order sc == ScopeOf(o) s == SymbolOf[o] IN
       IF Recorded(o)
       THEN /\ late' = late \ {l}
            /\ UNCHANGED <<rows, rollup, saved, spoiled, doubt, conn, version>>
       ELSE /\ Insert(o, l.total) /\ Writes({s}, FALSE)
            /\ Spoils(l.exact, sc)
            /\ late' = {m \in Overtakes({sc}) : m.order # o}
            /\ doubt' = IF doubt[s] = "none" /\ Scope(s) = sc
                        THEN [doubt EXCEPT ![s] = "missing"] ELSE doubt
    /\ UNCHANGED <<kept, frontier, revision, clearing, commit, mode, memory,
                   changing, task, snapshots, today, used>>

-----------------------------------------------------------------------------
(* Verification of the profit of live fills.                                *)

\* One task at a time.  It is started when the statistics know of pending
\* fills, and reads them together with the revision of the clearings.
Fetch(s) ==
    /\ task[s].orders = {} /\ mode[s] = "Live" /\ s \notin changing /\ Free
    /\ stats[s].pending > 0
    /\ task' = [task EXCEPT ![s] =
                    [rev    |-> clearing.of[s],
                     orders |-> {o \in InScope(Scope(s)) :
                                     rows[o] = "pending"}]]
    /\ task'[s].orders # {}
    /\ UNCHANGED <<database, revision, clearing, conn, commit, mode, memory,
                   changing, doubt, spoiled, late, snapshots, today, version,
                   used>>

\* The exchange answered for one of them and verify_trade_pnl got the lock:
\* from here the task that asked may be aborted.
VerifyBegins(s, o) ==
    /\ o \in task[s].orders
    /\ Admit("verify", o, {s}, task[s].rev)
    /\ task' = [task EXCEPT ![s].orders = @ \ {o}]
    /\ UNCHANGED <<database, revision, clearing, conn, mode, memory, changing,
                   doubt, spoiled, late, snapshots, today, version, used>>

NoAnswer(s, o) ==
    /\ o \in task[s].orders /\ Spend("faults", MaxFaults)
    /\ task' = [task EXCEPT ![s].orders = @ \ {o}]
    /\ UNCHANGED <<database, revision, clearing, conn, commit, mode, memory,
                   changing, doubt, spoiled, late, snapshots, today, version>>

Verified(total) ==
    [total EXCEPT !.profit = @ + 1, !.pending = IF @ = 0 THEN 0 ELSE @ - 1]

\* Only a row that is still pending, and no clearing since it was read.
Verifies(o) == rows[o] = "pending" /\ clearing.of[SymbolOf[o]] = commit.rev

VerifyStored ==
    /\ Admitted("verify")
    /\ LET o == commit.order IN
       IF Verifies(o)
       THEN /\ rows' = [rows EXCEPT ![o] = "verified"]
            /\ rollup' = [rollup EXCEPT ![ScopeOf(o)] = Verified(@)]
            /\ Commits({SymbolOf[o]}, FALSE)
       ELSE /\ commit' = NoCommit
            /\ UNCHANGED <<rows, rollup, conn, version>>
    /\ UNCHANGED <<kept, frontier, saved, revision, clearing, mode, memory,
                   changing, doubt, spoiled, late, task, snapshots, today,
                   used>>

\* The statistics in memory are those of the scope the pair runs in now.
VerifyInstalled ==
    /\ Stored("verify")
    /\ LET o == commit.order s == SymbolOf[o] IN
       /\ stats' = IF ScopeOf(o) = Scope(s)
                   THEN [stats EXCEPT ![s] = Verified(@)] ELSE stats
       /\ recent' = [recent EXCEPT ![s][o] =
                         IF @ = "none" THEN @ ELSE "verified"]
    /\ commit' = NoCommit
    /\ UNCHANGED <<database, revision, clearing, conn, mode, changing, doubt,
                   spoiled, late, task, snapshots, today, version, used>>

-----------------------------------------------------------------------------
(* Clearing the history of one pair, or of all, in every mode.              *)

ClearBegins(syms) ==
    /\ syms = Symbols \/ Cardinality(syms) = 1
    /\ Spend("clears", MaxClears)
    /\ Admit("clear", 0, syms, 0)
    /\ UNCHANGED <<database, revision, clearing, conn, mode, memory, changing,
                   doubt, spoiled, late, task, snapshots, today, version>>

\* The frontier moves forward only: a fill recorded late may be older.
AnyFrontier(old, newest) == IF newest = 0 THEN old ELSE newest
NewFrontier(old, newest) == IF newest >= old THEN newest ELSE old

ClearStored ==
    /\ Admitted("clear")
    /\ LET Gone(sc) == sc[1] \in commit.syms IN
       /\ rows' = [o \in Orders |->
                      IF Gone(ScopeOf(o)) THEN "none" ELSE rows[o]]
       /\ kept' = kept \cup {o \in Present : Gone(ScopeOf(o))}
       /\ frontier' = [sc \in Scopes |->
                          IF Gone(sc)
                          THEN NewFrontier(frontier[sc], NewestOf(InScope(sc)))
                          ELSE frontier[sc]]
       /\ rollup' = [sc \in Scopes |->
                        IF Gone(sc) THEN Nothing ELSE rollup[sc]]
       /\ saved' = [sc \in Scopes |-> IF Gone(sc) THEN 0 ELSE saved[sc]]
       /\ spoiled' = {sc \in spoiled : ~Gone(sc)}
       /\ late' = Overtakes({sc \in Scopes : Gone(sc)})
    \* The memory it installs is right from here, until a late insert.
    /\ doubt' = [s \in Symbols |->
                    IF s \in commit.syms /\ doubt[s] # "interrupted"
                    THEN "none" ELSE doubt[s]]
    /\ Commits(commit.syms, TRUE)
    /\ UNCHANGED <<revision, clearing, mode, memory, changing, task, snapshots,
                   today, used>>

\* Zero is the history of a cleared scope, whatever the memory was before.
ClearInstalled ==
    /\ Stored("clear")
    /\ stats' = [s \in Symbols |->
                    IF s \in commit.syms THEN Nothing ELSE stats[s]]
    /\ recent' = [s \in Symbols |->
                    IF s \in commit.syms THEN [o \in Orders |-> "none"]
                                         ELSE recent[s]]
    /\ shown' = [s \in Symbols |->
                    IF s \in commit.syms
                    THEN [shown[s] EXCEPT !.cleared = @ + 1] ELSE shown[s]]
    /\ commit' = NoCommit
    /\ UNCHANGED <<database, revision, clearing, conn, mode, changing, doubt,
                   spoiled, late, task, charts, reader, publisher, today,
                   version, used>>

-----------------------------------------------------------------------------
(* A change of the configuration, a reload of the statistics, a crash.      *)

\* The engine saves and installs the configuration and aborts the task; the
\* statistics of another mode follow under the commit lock.
Aborted(s) == NoTask

Change(s, m) ==
    /\ s \notin changing /\ doubt[s] # "interrupted"
    /\ ~(commit.op = "record" /\ s \in commit.syms)
    /\ Spend("switches", MaxSwitches)
    /\ mode' = [mode EXCEPT ![s] = m]
    /\ task' = [task EXCEPT ![s] = Aborted(s)]
    /\ changing' = IF m = mode[s] THEN changing ELSE changing \cup {s}
    /\ UNCHANGED <<database, revision, clearing, conn, commit, memory, doubt,
                   spoiled, late, snapshots, today, version>>

ReloadBegins(s) ==
    /\ s \in changing \/ doubt[s] = "interrupted"
    /\ Admit("reload", 0, {s}, 0)
    /\ UNCHANGED <<database, revision, clearing, conn, mode, memory, changing,
                   doubt, spoiled, late, task, snapshots, today, version, used>>

Reload ==
    /\ Admitted("reload")
    /\ \E s \in commit.syms :
       /\ changing' = changing \ {s}
       /\ \/ /\ stats' = [stats EXCEPT ![s] = Loaded(s)]
             /\ recent' = [recent EXCEPT ![s] = LoadedRecent(s)]
             /\ doubt' = [doubt EXCEPT ![s] = "none"]
             /\ UNCHANGED used
          \/ /\ Spend("faults", MaxFaults)      \* the error is only logged
             /\ doubt' = [doubt EXCEPT ![s] = "misread"]
             /\ UNCHANGED memory
    /\ commit' = NoCommit
    /\ UNCHANGED <<database, revision, clearing, conn, mode, spoiled, late,
                   task, snapshots, today, version>>

\* The process starts again from the database; revisions begin at zero.
Crash ==
    /\ Spend("faults", MaxFaults)
    /\ revision' = NewRevisions /\ clearing' = NewRevisions
    /\ conn' = Published /\ commit' = NoCommit
    /\ stats' = [s \in Symbols |-> Loaded(s)]
    /\ recent' = [s \in Symbols |-> LoadedRecent(s)]
    /\ changing' = {} /\ late' = {}
    /\ doubt' = [s \in Symbols |-> "none"]
    /\ task' = [s \in Symbols |-> NoTask]
    /\ charts' = [s \in Symbols |-> NoCharts]
    /\ reader' = [r \in Readers |-> IdleReader]
    /\ publisher' = [s \in Symbols |-> "none"]
    /\ shown' = [s \in Symbols |-> NotShown]
    /\ today' = IdleToday /\ version' = 0
    /\ UNCHANGED <<database, mode, spoiled>>

-----------------------------------------------------------------------------
(* Snapshots.  Charts are read from the database without the commit lock;   *)
(* the snapshot is collected under it and takes them only when their scope  *)
(* and revision are still current.                                          *)

Without == [NoCharts EXCEPT !.mode = "left out"]
Key(s) == [mode |-> mode[s], rev |-> revision.of[s]]
SetReader(r, fields) == reader' = [reader EXCEPT ![r] = fields @@ @]
quiet == <<database, revision, clearing, conn, commit, mode, memory, changing,
           doubt, spoiled, late, task, version>>

\* broadcast_snapshot: the whole of it holds the pair's publishing lock.
MayPublish(s) == publisher[s] = "none"
SnapBegins(r, s) ==
    /\ reader[r].pc = "idle" /\ MayPublish(s)
    /\ publisher' = [publisher EXCEPT ![s] = r]
    /\ SetReader(r, [pc |-> "key", sym |-> s, tries |-> Tries])
    /\ UNCHANGED <<quiet, used, charts, shown, today>>

\* The key is read first; a cached value of that key is used for five seconds.
SnapKey(r) ==
    /\ reader[r].pc = "key"
    /\ LET s == reader[r].sym c == charts[s] IN
       \/ /\ [mode |-> c.mode, rev |-> c.rev] = Key(s)
          /\ SetReader(r, [pc |-> "collect", charts |-> c])
       \/ SetReader(r, [pc |-> "query", charts |-> Key(s) @@ NoCharts])
    /\ UNCHANGED <<quiet, used, charts, publisher, shown, today>>

SnapQuery(r) ==
    /\ reader[r].pc = "query" /\ Free
    /\ LET s == reader[r].sym
           c == [reader[r].charts EXCEPT !.value =
                     rollup[<<s, reader[r].charts.mode>>]] IN
       /\ charts' = [charts EXCEPT ![s] = c]
       /\ SetReader(r, [pc |-> "collect", charts |-> c])
    /\ UNCHANGED <<quiet, used, publisher, shown, today>>

SameScope(s, c) == c.mode = mode[s]
IsCurrent(s, c) == c.mode = mode[s] /\ c.rev = revision.of[s]

\* What is shown; sound unless a failed reload left the totals in doubt.
Frame(s) == [stats     |-> stats[s],
             sound     |-> doubt[s] = "none" /\ Scope(s) \notin spoiled,
             clearings |-> shown[s].cleared]

\* A change of scope and a writer keep the collection out.  After three
\* attempts the snapshot goes without charts.
SnapCollect(r) ==
    /\ reader[r].pc = "collect" /\ commit = NoCommit
    /\ LET s == reader[r].sym c == reader[r].charts IN
       /\ s \notin changing
       /\ \/ /\ c = Without \/ IsCurrent(s, c)
             /\ SetReader(r, [pc |-> "send", frame |-> Frame(s)])
          \/ /\ c # Without /\ ~IsCurrent(s, c)
             /\ IF reader[r].tries > 1
                THEN SetReader(r, [pc |-> "key", charts |-> NoCharts,
                                   tries |-> reader[r].tries - 1])
                ELSE SetReader(r, [tries |-> 0, charts |-> Without])
    /\ UNCHANGED <<quiet, used, charts, publisher, shown, today>>

SnapSend(r) ==
    /\ reader[r].pc = "send"
    /\ LET s == reader[r].sym n == reader[r].frame.clearings IN
       /\ shown' = [shown EXCEPT ![s] =
                        [@ EXCEPT !.clearings = n,
                                  !.most = IF n > @ THEN n ELSE @]]
       /\ publisher' = [publisher EXCEPT ![s] = "none"]
    /\ reader' = [reader EXCEPT ![r] = IdleReader]
    /\ UNCHANGED <<quiet, used, charts, today>>

-----------------------------------------------------------------------------
(* The profit of the day: one reader at a time; the revision of all changes *)
(* is read first, and a value of that revision is used for two seconds.     *)

\* Transactions whose revision is published when the question arrives.
Visible == IF Free THEN version ELSE version - 1

TodayAsk ==
    /\ today.pc = "idle" /\ Spend("questions", MaxQuestions)
    /\ \/ /\ today.cached.loaded /\ today.cached.rev = revision.now
          /\ today' = [today EXCEPT !.since = Visible,
                                    !.answer = today.cached.version]
       \/ today' = [today EXCEPT !.pc = "query", !.rev = revision.now,
                                 !.since = Visible]
    /\ UNCHANGED <<quiet, snapshots>>

TodayAnswer ==
    /\ today.pc = "query" /\ Free
    /\ today' = [today EXCEPT !.pc = "idle", !.answer = version,
                              !.cached = [loaded |-> TRUE, rev |-> today.rev,
                                          version |-> version]]
    /\ UNCHANGED <<quiet, used, snapshots>>

-----------------------------------------------------------------------------
Commit ==
    \/ Publish \/ RecordStored \/ RecordInstalled \/ RecordDropped
    \/ LateStored
    \/ VerifyStored \/ VerifyInstalled \/ ClearStored \/ ClearInstalled
    \/ Reload

Show ==
    \/ \E r \in Readers :
           \/ \E s \in Symbols : SnapBegins(r, s)
           \/ SnapKey(r) \/ SnapQuery(r) \/ SnapCollect(r) \/ SnapSend(r)
    \/ TodayAsk \/ TodayAnswer

Next ==
    \/ Commit \/ Show \/ Crash
    \/ \E o \in Orders : RecordBegins(o)
    \/ \E s \in Symbols :
           \/ Fetch(s) \/ ReloadBegins(s)
           \/ \E o \in Orders : VerifyBegins(s, o) \/ NoAnswer(s, o)
           \/ \E m \in Modes : Change(s, m)
    \/ \E syms \in SUBSET Symbols : ClearBegins(syms)

Spec == Init /\ [][Next]_vars

-----------------------------------------------------------------------------
(* Properties.                                                              *)

\* The tables tell the same story at every commit: hourly sums are those of
\* the rows, a cleared fill never comes back, and the newest fill of a scope
\* stays known however often it was cleared.  So is the saved total, unless it
\* was computed from a memory in doubt or overtaken by a late insert.
TablesAgree ==
    /\ \A sc \in Scopes :
           /\ rollup[sc] = Counted(sc)
           /\ sc \in spoiled \/ saved[sc] = Counted(sc).trades
           /\ NewestOf(InScope(sc) \cup {frontier[sc]}) =
              NewestOf({o \in Present \cup kept : ScopeOf(o) = sc})
    /\ Present \cap kept = {}

\* Whenever no writer holds the lock and no change is under way, what the
\* pair shows is its history: totals, pending and verified profit, and the
\* recent trades.  Excepted are an interrupted recording until it is reloaded
\* and a reload that failed (the next clearing or reload ends it).  An insert
\* left over by an interruption that runs after the reload or a clearing is
\* missing from the memory, and only that: the verified profit is exact even
\* then, and nothing is shown that the history does not hold.
MemoryAgrees ==
    \A s \in Symbols :
        commit = NoCommit /\ s \notin changing =>
            /\ doubt[s] = "none" =>
                   stats[s] = Loaded(s) /\ recent[s] = LoadedRecent(s)
            /\ doubt[s] = "missing" =>
                   /\ stats[s].profit = Counted(Scope(s)).profit
                   /\ stats[s].pending <= Counted(Scope(s)).pending
                   /\ \A o \in Orders :
                          recent[s][o] \in {"none", LoadedRecent(s)[o]}

\* Recording, verification, clearing, changes of mode, interruption and crash
\* in any order keep each fill counted once in the database, and the database
\* and the memory of every pair the same history, but for what a late insert
\* and a failed reload leave behind as stated above.
HistoryAgrees == TablesAgree /\ MemoryAgrees

\* A snapshot never combines charts of one moment with statistics of another,
\* and once a snapshot showed a cleared history none that was collected
\* before the clearing follows it.
SnapshotsAgree ==
    /\ \A r \in Readers :
           LET f == reader[r].frame c == reader[r].charts IN
           reader[r].pc = "send" /\ c # Without /\ f.sound =>
               c.value = f.stats
    /\ \A s \in Symbols : shown[s].clearings = shown[s].most

\* The profit of the day contains every change that was published when it
\* was asked for, cached or not.
TodayIsCurrent == today.pc = "idle" => today.answer >= today.since

\* Types; the verification of another mode's fills ends with that mode,
\* whatever it was waiting for, and the publishing lock of a pair is held by a
\* snapshot of that pair.
TypeOK ==
    /\ rows \in [Orders -> {"none", "pending", "verified"}]
    /\ kept \subseteq Orders /\ spoiled \subseteq Scopes
    /\ frontier \in [Scopes -> Orders \cup {0}]
    /\ changing \subseteq Symbols
    /\ doubt \in [Symbols -> {"none", "interrupted", "misread", "missing"}]
    /\ late \subseteq [order : LiveOrders, total : Nat, exact : BOOLEAN]
    /\ \A o \in PaperOrders : rows[o] # "pending"
    /\ \A s \in Symbols : \A o \in task[s].orders : ScopeOf(o) = Scope(s)
    /\ \A s \in Symbols : publisher[s] # "none" =>
           reader[publisher[s]].sym = s /\ reader[publisher[s]].pc # "idle"
=============================================================================
