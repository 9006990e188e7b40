---------------------------- MODULE TradingStatus ----------------------------
(***************************************************************************)
(* The Running/Paused status of one strategy: who may change it, under      *)
(* which locks and epochs, what reaches the database, and what a restart    *)
(* makes of it.                                                             *)
(*                                                                          *)
(* Every status change of server/state.rs runs in a task of its own         *)
(* (tokio::spawn), so an aborted caller leaves it running.  The module      *)
(* gives each caller a slot holding the task it started:                    *)
(*   engine   the strategy engine, one command at a time (grid.rs)          *)
(*   user     the HTTP control handler (routes.rs)                          *)
(*   monitor  the periodic global risk check                                *)
(*   nested   the pause a global risk check awaits with its lock held       *)
(*   stop     the shutdown pause of lifecycle.rs, under its deadline        *)
(*   final    the commit or the failure pause that ends a shutdown          *)
(* A task is an operation and a program counter; its steps are the awaits   *)
(* at which other tasks run.                                                *)
(***************************************************************************)
EXTENDS Naturals, Sequences

CONSTANTS
    Inputs,     \* which of AllInputs the environment may send
    MaxInputs,  \* bound: inputs sent, over all lives of the process
    MaxFaults,  \* bound: failed writes, failed cancellations, failed starts
    MaxEvents,  \* bound: inputs and failures together
    MaxBoots    \* bound: process starts

AllInputs == {"pause", "resume", "rebalance", "config", "limit", "risk",
              "shutdown", "deadline", "crash"}

ASSUME BoundsAssumption ==
    /\ Inputs \subseteq AllInputs
    /\ {MaxInputs, MaxFaults, MaxEvents, MaxBoots} \subseteq Nat

Modes == {"PAPER", "LIVE"}
Statuses == {"Running", "Paused"}
Slots == {"engine", "user", "monitor", "nested", "stop", "final"}
Locks == {"global", "admission", "status"}
AnyMode == "any"

Ops == {"none", "pause", "silentPause", "resume", "stopPause", "commit",
        "save", "check"}
JobPcs == {"idle", "global", "checking", "checked", "admit", "lock", "write",
           "install", "clear", "close", "done"}
Jobs == [op : Ops, pc : JobPcs, ok : BOOLEAN, epoch : Nat,
         by : Nat, mode : Modes \cup {AnyMode}]

NewJob(op, pc) == [op |-> op, pc |-> pc, ok |-> TRUE, epoch |-> 0,
                   by |-> 0, mode |-> AnyMode]
NoJob == NewJob("none", "idle")
SafetyPause == NewJob("pause", "admit")

MsgKinds == {"pauseDone", "resume", "rebalance", "riskCancel", "config",
             "shutdown"}
Messages == [kind : MsgKinds, epoch : Nat, by : Nat,
             mode : Modes \cup {AnyMode}]
Message(kind, mode) == [kind |-> kind, epoch |-> 0, by |-> 0,
                        mode |-> mode]

EnginePcs == {"boot", "bootFailed", "bootCheck", "idle", "resuming", "limit",
              "begin", "read", "pausing", "work", "restoring", "safety",
              "return", "saving", "settle", "stopPausing", "exited", "dead"}
Reasons == {"none", "control", "rebalance", "risk", "config", "switched",
            "boot", "limit", "stop"}
Engines == [pc : EnginePcs, why : Reasons, base : Nat, was : BOOLEAN,
            ok : BOOLEAN, target : Modes, moved : BOOLEAN, stopOk : BOOLEAN]
NewEngine == [pc |-> "boot", why |-> "none", base |-> 0, was |-> FALSE,
              ok |-> TRUE, target |-> "PAPER", moved |-> FALSE,
              stopOk |-> TRUE]

VARIABLES
    up,      \* the process is running
    app,     \* the status fields of AppState
    held,    \* who holds each lock: global check, pause admission, status
    job,     \* the task of each slot
    risk,    \* result of the last global check and the pending cancellation
    engine,  \* the strategy engine
    queue,   \* its command channel
    asked,   \* a resume request between its handler's epoch read and dispatch
    life,    \* the shutdown coordinator
    db,      \* pair_config mode, pair_runtime status, pair_execution_guard
    seen,    \* history: stop orders, and the one the current run was granted at
    budget   \* inputs, faults and boots used

vars == <<up, app, held, job, risk, engine, queue, asked, life, db, seen,
          budget>>

\* What the steps of a task, and those of the engine, mostly leave alone.
outside == <<up, engine, queue, asked, life>>
around == <<up, held, asked, life, db>>

NewApp(status, mode) ==
    [status |-> status, mode |-> mode, pauseEpoch |-> 0, safetyEpoch |-> 0,
     pending |-> 0, eligible |-> {}, cleared |-> FALSE,
     stopping |-> FALSE]

NoRisk == [unsafe |-> FALSE, cancelPending |-> FALSE, cancelQueued |-> FALSE]

-----------------------------------------------------------------------------
MoreEvents == budget.inputs + budget.faults < MaxEvents

Input(kind) ==
    /\ up
    /\ kind \in Inputs
    /\ budget.inputs < MaxInputs /\ MoreEvents
    /\ budget' = [budget EXCEPT !.inputs = @ + 1]

\* ok is the outcome of an operation that may fail while faults remain.
Outcome(ok) ==
    /\ ok \/ (budget.faults < MaxFaults /\ MoreEvents)
    /\ budget' = IF ok THEN budget ELSE [budget EXCEPT !.faults = @ + 1]

Free(lock) == held[lock] = "free"
Release(locks) == [l \in Locks |-> IF l \in locks THEN "free" ELSE held[l]]

At(s, op, pc) == up /\ job[s].op = op /\ job[s].pc = pc
Goto(s, pc) == job' = [job EXCEPT ![s].pc = pc]
Finish(s, ok) == job' = [job EXCEPT ![s].pc = "done", ![s].ok = ok]

-----------------------------------------------------------------------------
(* AppState::pause_trading and persist_safety_pause                         *)

AlwaysAdmitsPause == TRUE   \* faulty: forgets the cleared guard
AdmitsPause == ~app.cleared

PauseAdmit(s) ==
    /\ At(s, "pause", "admit")
    /\ Free("admission")
    /\ IF AdmitsPause
       THEN /\ app' = [app EXCEPT !.pending = @ + 1, !.safetyEpoch = @ + 1,
                                  !.pauseEpoch = @ + 1]
            /\ seen' = [seen EXCEPT !.stops = @ + 1]
            /\ Goto(s, "lock")
       ELSE Finish(s, FALSE) /\ UNCHANGED <<app, seen>>
    /\ UNCHANGED <<outside, held, risk, db, budget>>

PauseLock(s) ==
    /\ At(s, "pause", "lock")
    /\ Free("status")
    /\ held' = [held EXCEPT !["status"] = s]
    /\ app' = [app EXCEPT !.status = "Paused", !.eligible = {}]
    /\ Goto(s, "write")
    /\ UNCHANGED <<outside, risk, db, seen, budget>>

\* The status lock is dropped before the pending count.
PauseWrite(s) ==
    /\ At(s, "pause", "write")
    /\ \E ok \in BOOLEAN :
         /\ Outcome(ok)
         /\ db' = IF ok THEN [db EXCEPT !.status[app.mode] = "Paused"] ELSE db
         /\ job' = [job EXCEPT ![s].pc = "close", ![s].ok = ok]
    /\ held' = Release({"status"})
    /\ UNCHANGED <<outside, app, risk, seen>>

\* faulty: never gives the pending count back
PauseStaysOpen(s) ==
    /\ At(s, "pause", "close")
    /\ Goto(s, "done")
    /\ UNCHANGED <<outside, app, held, risk, db, seen, budget>>

PauseClose(s) ==
    /\ At(s, "pause", "close")
    /\ app' = [app EXCEPT !.pending = @ - 1]
    /\ Goto(s, "done")
    /\ UNCHANGED <<outside, held, risk, db, seen, budget>>

-----------------------------------------------------------------------------
(* set_trading_status(Paused): pause_trading_silently                       *)

SilentLock(s) ==
    /\ At(s, "silentPause", "lock")
    /\ Free("status")
    /\ IF app.cleared
       THEN Finish(s, FALSE) /\ UNCHANGED <<app, held>>
       ELSE /\ held' = [held EXCEPT !["status"] = s]
            /\ app' = [app EXCEPT !.status = "Paused"]
            /\ Goto(s, "write")
    /\ UNCHANGED <<outside, risk, db, seen, budget>>

SilentWrite(s) ==
    /\ At(s, "silentPause", "write")
    /\ \E ok \in BOOLEAN :
         /\ Outcome(ok)
         /\ db' = IF ok THEN [db EXCEPT !.status[app.mode] = "Paused"] ELSE db
         /\ Finish(s, ok)
    /\ held' = Release({"status"})
    /\ UNCHANGED <<outside, app, risk, seen>>

-----------------------------------------------------------------------------
(* The global check under GlobalPositionLimit.lock, as the periodic task,   *)
(* a resume, a shutdown pause and a commit all run it.  Whether the         *)
(* positions are unsafe is the environment's choice.                        *)

GlobalCheck(s) ==
    /\ up /\ job[s].pc = "global"
    /\ Free("global")
    /\ held' = [held EXCEPT !["global"] = s]
    /\ \E unsafe \in IF "risk" \in Inputs THEN BOOLEAN ELSE {FALSE} :
         LET acts == unsafe /\ (~risk.unsafe \/ app.status = "Running")
         IN  /\ IF acts /\ ~risk.unsafe
                THEN Input("risk")
                ELSE UNCHANGED budget
             /\ risk' = [risk EXCEPT !.unsafe = unsafe,
                                     !.cancelPending = @ \/ acts]
             /\ job' = IF acts
                       THEN [job EXCEPT ![s].pc = "checking",
                                        !["nested"] = SafetyPause]
                       ELSE [job EXCEPT ![s].pc = "checked"]
    /\ UNCHANGED <<outside, app, db, seen>>

CheckPaused(s) ==
    /\ up /\ job[s].pc = "checking"
    /\ job["nested"].pc = "done"
    /\ job' = [job EXCEPT ![s].pc = "checked", !["nested"] = NoJob]
    /\ UNCHANGED <<outside, app, held, risk, db, seen, budget>>

QueueGlobalCancel ==
    IF risk.cancelPending /\ ~risk.cancelQueued
    THEN /\ risk' = [risk EXCEPT !.cancelQueued = TRUE]
         /\ queue' = Append(queue, Message("riskCancel", AnyMode))
    ELSE UNCHANGED <<risk, queue>>

IgnoresPendingCancel == risk.unsafe   \* faulty: reads the check alone
RefusesResume == risk.unsafe \/ risk.cancelPending

\* What the task that asked for the check does with the answer.
Checked(s) ==
    /\ up /\ job[s].pc = "checked"
    /\ QueueGlobalCancel
    /\ \/ /\ job[s].op = "check"
          /\ job' = [job EXCEPT ![s] = NoJob]
          /\ held' = Release({"global"})
          /\ UNCHANGED app
       \/ /\ job[s].op = "resume"
          /\ IF RefusesResume
             THEN Finish(s, FALSE) /\ held' = Release({"global"})
             ELSE Goto(s, "lock") /\ UNCHANGED held
          /\ UNCHANGED app
       \/ /\ job[s].op = "stopPause"
          /\ app' = [app EXCEPT !.pauseEpoch = @ + 1]
          /\ Goto(s, "lock")
          /\ UNCHANGED held
       \/ /\ job[s].op = "commit"
          /\ Goto(s, "admit")
          /\ UNCHANGED <<app, held>>
    /\ UNCHANGED <<up, engine, asked, life, db, seen, budget>>

MonitorTick ==
    /\ up /\ "risk" \in Inputs
    /\ job["monitor"].pc = "idle"
    /\ job' = [job EXCEPT !["monitor"] = NewJob("check", "global")]
    /\ UNCHANGED <<outside, app, held, risk, db, seen, budget>>

-----------------------------------------------------------------------------
(* set_trading_status(Running): Running is persisted before it is installed *)

\* faulty: resumes whatever happened since the request
MayResumeAnyEpoch(j) ==
    j.mode \in {AnyMode, app.mode} /\ ~app.cleared /\ ~app.stopping

MayResume(j) ==
    /\ j.mode \in {AnyMode, app.mode}
    /\ ~app.cleared
    /\ app.pauseEpoch = j.epoch
    /\ app.pending = 0
    /\ ~app.stopping

StatusLockOnly == {"status"}   \* faulty: keeps the global lock
ResumeLocks == {"global", "status"}

ResumeLock(s) ==
    /\ At(s, "resume", "lock")
    /\ Free("status")
    /\ IF MayResume(job[s])
       THEN held' = [held EXCEPT !["status"] = s] /\ Goto(s, "write")
       ELSE held' = Release({"global"}) /\ Finish(s, FALSE)
    /\ UNCHANGED <<outside, app, risk, db, seen, budget>>

ResumeWrite(s) ==
    /\ At(s, "resume", "write")
    /\ \E ok \in BOOLEAN :
         /\ Outcome(ok)
         /\ IF ok
            THEN /\ db' = [db EXCEPT !.status[app.mode] = "Running"]
                 /\ Goto(s, "install")
                 /\ UNCHANGED held
            ELSE /\ Finish(s, FALSE)
                 /\ held' = Release(ResumeLocks)
                 /\ UNCHANGED db
    /\ UNCHANGED <<outside, app, risk, seen>>

ResumeInstall(s) ==
    /\ At(s, "resume", "install")
    /\ app' = [app EXCEPT !.status = "Running"]
    /\ seen' = IF job[s].mode = AnyMode
               THEN seen
               ELSE [seen EXCEPT !.grant = job[s].by, !.raced = FALSE]
    /\ held' = Release(ResumeLocks)
    /\ Finish(s, TRUE)
    /\ UNCHANGED <<outside, risk, db, budget>>

-----------------------------------------------------------------------------
(* pause_for_shutdown_inner and commit_shutdown_recovery_inner              *)

RecoveryEligible(ready) ==
    ready /\ app.pending = 0 /\ ~risk.unsafe /\ ~risk.cancelPending

StopLock(s) ==
    /\ At(s, "stopPause", "lock")
    /\ Free("status")
    /\ held' = [held EXCEPT !["status"] = s]
    /\ \E ready \in BOOLEAN :
         app' = [app EXCEPT
                   !.status = "Paused",
                   !.eligible = IF app.status # "Running" THEN @
                                ELSE IF RecoveryEligible(ready)
                                     THEN {app.safetyEpoch} ELSE {}]
    /\ Goto(s, "write")
    /\ UNCHANGED <<outside, risk, db, seen, budget>>

StopWrite(s) ==
    /\ At(s, "stopPause", "write")
    /\ \E ok \in BOOLEAN :
         /\ Outcome(ok)
         /\ db' = IF ok THEN [db EXCEPT !.status[app.mode] = "Paused"] ELSE db
         /\ app' = IF ok THEN app ELSE [app EXCEPT !.eligible = {}]
         /\ Finish(s, ok)
    /\ held' = Release({"global", "status"})
    /\ UNCHANGED <<outside, risk, seen>>

CommitAdmit(s) ==
    /\ At(s, "commit", "admit")
    /\ Free("admission")
    /\ held' = [held EXCEPT !["admission"] = s]
    /\ Goto(s, "lock")
    /\ UNCHANGED <<outside, app, risk, db, seen, budget>>

CommitLock(s) ==
    /\ At(s, "commit", "lock")
    /\ Free("status")
    /\ IF app.pending # 0
       THEN /\ Finish(s, FALSE)
            /\ held' = Release({"global", "admission"})
            /\ UNCHANGED app
       ELSE \E ready \in BOOLEAN :
              LET restore == /\ app.eligible = {app.safetyEpoch}
                             /\ RecoveryEligible(ready)
              IN  /\ held' = [held EXCEPT !["status"] = s]
                  /\ app' = [app EXCEPT !.eligible = {}]
                  /\ job' = [job EXCEPT
                               ![s].pc = IF restore THEN "write" ELSE "clear",
                               ![s].epoch = app.safetyEpoch]
    /\ UNCHANGED <<outside, risk, db, seen, budget>>

CommitWrite(s) ==
    /\ At(s, "commit", "write")
    /\ \E ok \in BOOLEAN :
         /\ Outcome(ok)
         /\ IF ok
            THEN /\ db' = [db EXCEPT !.status[app.mode] =
                             IF job[s].epoch = app.safetyEpoch
                             THEN "Running" ELSE "Paused"]
                 /\ Goto(s, "clear")
                 /\ UNCHANGED held
            ELSE /\ Finish(s, FALSE)
                 /\ held' = Release(Locks)
                 /\ UNCHANGED db
    /\ UNCHANGED <<outside, app, risk, seen>>

CommitClear(s) ==
    /\ At(s, "commit", "clear")
    /\ \E ok \in BOOLEAN :
         /\ Outcome(ok)
         /\ db' = IF ok THEN [db EXCEPT !.dirty[app.mode] = FALSE] ELSE db
         /\ app' = [app EXCEPT !.cleared = ok]
         /\ Finish(s, ok)
    /\ held' = Release(Locks)
    /\ UNCHANGED <<outside, risk, seen>>

-----------------------------------------------------------------------------
(* save_runtime_config: one transaction, then the memory it describes.      *)
(* A switch of mode abandons the old scope paused and starts the new one    *)
(* paused, whatever the old status was.                                     *)

SaveLock(s) ==
    /\ At(s, "save", "lock")
    /\ Free("status")
    /\ IF app.cleared
       THEN Finish(s, FALSE) /\ UNCHANGED held
       ELSE held' = [held EXCEPT !["status"] = s] /\ Goto(s, "write")
    /\ UNCHANGED <<outside, app, risk, db, seen, budget>>

\* faulty: leaves the status of the abandoned mode
SavedDbKeepsOld(new, status) ==
    [mode |-> new,
     dirty |-> [m \in Modes |-> m = new],
     status |-> [db.status EXCEPT ![new] =
                   IF new = app.mode THEN status ELSE "Paused"]]

SavedDb(new, status) ==
    IF new = app.mode
    THEN [db EXCEPT !.mode = new, !.dirty[new] = TRUE, !.status[new] = status]
    ELSE [mode |-> new,
          dirty |-> [m \in Modes |-> m = new],
          status |-> [m \in Modes |-> "Paused"]]

SaveWrite(s) ==
    /\ At(s, "save", "write")
    /\ \E ok \in BOOLEAN :
         /\ Outcome(ok)
         /\ IF ok
            THEN /\ db' = SavedDb(job[s].mode, app.status)
                 /\ seen' = IF job[s].mode = app.mode THEN seen
                            ELSE [seen EXCEPT !.stops = @ + 1]
                 /\ Goto(s, "install")
                 /\ UNCHANGED held
            ELSE /\ Finish(s, FALSE)
                 /\ held' = Release({"status"})
                 /\ UNCHANGED <<db, seen>>
    /\ UNCHANGED <<outside, app, risk>>

SaveInstall(s) ==
    /\ At(s, "save", "install")
    /\ app' = IF job[s].mode = app.mode THEN app
              ELSE [app EXCEPT !.mode = job[s].mode, !.status = "Paused",
                               !.eligible = {},
                               !.pauseEpoch = @ + 1, !.safetyEpoch = @ + 1]
    /\ held' = Release({"status"})
    /\ Finish(s, TRUE)
    /\ UNCHANGED <<outside, risk, db, seen, budget>>

-----------------------------------------------------------------------------
(* The control handler.  A pause is admitted and persisted before its       *)
(* message is queued; a resume reads the epoch first and is refused while a *)
(* pause is on its way to the engine (pending_control_pauses).              *)

RequestPause ==
    /\ Input("pause")
    /\ job["user"].pc = "idle"
    /\ job' = [job EXCEPT !["user"] = SafetyPause]
    /\ UNCHANGED <<outside, app, held, risk, db, seen>>

DispatchPause ==
    /\ At("user", "pause", "done")
    /\ queue' = IF job["user"].ok
                THEN Append(queue, Message("pauseDone", AnyMode)) ELSE queue
    /\ job' = [job EXCEPT !["user"] = NoJob]
    /\ UNCHANGED <<around, app, risk, engine, seen, budget>>

RequestResume ==
    /\ Input("resume")
    /\ asked = {}
    /\ \E mode \in Modes :
         asked' = {[kind |-> "resume", epoch |-> app.pauseEpoch,
                    by |-> seen.stops, mode |-> mode]}
    /\ UNCHANGED <<up, app, held, job, risk, engine, queue, life, db, seen>>

DispatchResume ==
    /\ up
    /\ \E m \in asked :
         queue' = IF job["user"].pc = "idle" THEN Append(queue, m) ELSE queue
    /\ asked' = {}
    /\ UNCHANGED <<up, app, held, job, risk, engine, life, db, seen, budget>>

\* Rebalance and configuration updates go to the engine as they are.
RequestCommand ==
    /\ \E kind \in {"rebalance", "config"}, mode \in Modes :
         /\ Input(kind)
         /\ kind = "rebalance" => job["user"].pc = "idle"
         /\ queue' = Append(queue, Message(kind, mode))
    /\ UNCHANGED <<around, app, job, risk, engine, seen>>

-----------------------------------------------------------------------------
(* The engine: initialization, the command loop, and the cancellation cycle *)
(* that most commands run.                                                  *)

EngineAt(pc) == up /\ engine.pc = pc
EngineGoto(pc) == engine' = [engine EXCEPT !.pc = pc]
Return(ok) == engine' = [engine EXCEPT !.pc = "return", !.ok = ok]
Begin(why) == engine' = [engine EXCEPT !.pc = "begin", !.why = why]
Spawn(j) == job' = [job EXCEPT !["engine"] = j]
Joined == job["engine"].pc = "done"

EngineBoot ==
    /\ EngineAt("boot")
    /\ \E ok \in BOOLEAN :
         /\ Outcome(ok)
         /\ IF ok THEN EngineGoto("bootCheck") /\ UNCHANGED job
                  ELSE EngineGoto("bootFailed") /\ Spawn(SafetyPause)
    /\ UNCHANGED <<around, app, risk, queue, seen>>

EngineBootFailed ==
    /\ EngineAt("bootFailed") /\ Joined
    /\ EngineGoto("bootCheck")
    /\ Spawn(NoJob)
    /\ UNCHANGED <<around, app, risk, queue, seen, budget>>

\* reconcile_initial_pause
EngineBootCheck ==
    /\ EngineAt("bootCheck")
    /\ IF app.mode = "LIVE" /\ app.status = "Paused" /\ ~app.stopping
       THEN Begin("boot") ELSE EngineGoto("idle")
    /\ UNCHANGED <<around, app, job, risk, queue, seen, budget>>

\* handle_control_action on the next command.
Receive ==
    /\ EngineAt("idle")
    /\ queue # <<>>
    /\ queue' = Tail(queue)
    /\ LET m == Head(queue)
           drop == UNCHANGED <<engine, job, app>>
       IN  CASE m.kind = "shutdown" ->
                  /\ app' = [app EXCEPT !.stopping = TRUE, !.pauseEpoch = @ + 1]
                  /\ Spawn(NewJob("stopPause", "global"))
                  /\ EngineGoto("stopPausing")
             [] m.kind # "shutdown" /\ app.stopping -> drop
             [] m.kind = "resume" /\ ~app.stopping ->
                  IF m.mode = app.mode
                  THEN /\ Spawn([NewJob("resume", "global") EXCEPT
                                   !.epoch = m.epoch, !.by = m.by,
                                   !.mode = m.mode])
                       /\ EngineGoto("resuming")
                       /\ UNCHANGED app
                  ELSE drop
             [] m.kind = "rebalance" /\ ~app.stopping ->
                  IF m.mode = app.mode /\ app.status = "Running"
                  THEN Begin("rebalance") /\ UNCHANGED <<job, app>>
                  ELSE drop
             [] m.kind = "config" /\ ~app.stopping ->
                  /\ UNCHANGED app
                  /\ \/ /\ engine' = [engine EXCEPT !.pc = "begin",
                                          !.why = "config", !.target = m.mode]
                        /\ UNCHANGED job
                     \/ /\ m.mode = app.mode   \* only the window changed
                        /\ engine' = [engine EXCEPT !.pc = "saving",
                                          !.target = m.mode, !.moved = FALSE]
                        /\ Spawn([NewJob("save", "lock") EXCEPT !.mode = m.mode])
             [] m.kind = "riskCancel" /\ ~app.stopping ->
                  Begin("risk") /\ UNCHANGED <<job, app>>
             [] m.kind = "pauseDone" /\ ~app.stopping ->
                  Begin("control") /\ UNCHANGED <<job, app>>
    /\ UNCHANGED <<around, risk, seen, budget>>

EngineResumed ==
    /\ EngineAt("resuming") /\ Joined
    /\ EngineGoto("idle")
    /\ Spawn(NoJob)
    /\ UNCHANGED <<around, app, risk, queue, seen, budget>>

\* pause_for_position_limit and position_direction_ready: pause, then cancel.
EngineLimit ==
    /\ EngineAt("idle") /\ app.status = "Running"
    /\ Input("limit")
    /\ EngineGoto("limit")
    /\ Spawn(SafetyPause)
    /\ UNCHANGED <<around, app, risk, queue, seen>>

EngineLimitPaused ==
    /\ EngineAt("limit") /\ Joined
    /\ Begin("limit")
    /\ Spawn(NoJob)
    /\ UNCHANGED <<around, app, risk, queue, seen, budget>>

-----------------------------------------------------------------------------
(* cancel_all_orders_inner.  "control" is its pause_already_persisted form. *)

CancelBegin ==
    /\ EngineAt("begin")
    /\ engine' = [engine EXCEPT
                    !.pc = IF engine.why = "control" THEN "work" ELSE "read",
                    !.base = app.pauseEpoch, !.was = FALSE]
    /\ UNCHANGED <<around, app, job, risk, queue, seen, budget>>

CancelRead ==
    /\ EngineAt("read")
    /\ engine' = [engine EXCEPT !.pc = "pausing",
                                !.was = app.status = "Running"]
    /\ seen' = [seen EXCEPT
                  !.raced = @ \/ (app.status = "Running" /\ app.pending > 0)]
    /\ app' = [app EXCEPT !.pauseEpoch = @ + 1]
    /\ Spawn(NewJob("silentPause", "lock"))
    /\ UNCHANGED <<around, risk, queue, budget>>

CancelPaused ==
    /\ EngineAt("pausing") /\ Joined
    /\ IF job["engine"].ok
       THEN EngineGoto("work") /\ Spawn(NoJob)
       ELSE EngineGoto("safety") /\ Spawn(SafetyPause)
    /\ UNCHANGED <<around, app, risk, queue, seen, budget>>

\* The exchange part.  A failure either pauses (a request or a database call
\* failed) or only reports that recovery metadata could not be read.
CancelWork ==
    /\ EngineAt("work")
    /\ \/ /\ Outcome(TRUE)
          /\ IF engine.was /\ app.pauseEpoch = engine.base + 1
             THEN /\ EngineGoto("restoring")
                  /\ Spawn([NewJob("resume", "global") EXCEPT
                              !.epoch = engine.base + 1, !.by = seen.grant])
             ELSE Return(TRUE) /\ UNCHANGED job
       \/ /\ Outcome(FALSE)
          /\ \/ EngineGoto("safety") /\ Spawn(SafetyPause)
             \/ Return(FALSE) /\ UNCHANGED job
    /\ UNCHANGED <<around, app, risk, queue, seen>>

CancelRestored ==
    /\ EngineAt("restoring") /\ Joined
    /\ IF job["engine"].ok
       THEN Return(TRUE) /\ Spawn(NoJob)
       ELSE EngineGoto("safety") /\ Spawn(SafetyPause)
    /\ UNCHANGED <<around, app, risk, queue, seen, budget>>

CancelSafety ==
    /\ EngineAt("safety") /\ Joined
    /\ Return(FALSE)
    /\ Spawn(NoJob)
    /\ UNCHANGED <<around, app, risk, queue, seen, budget>>

\* Back in the command that asked for the cancellation.
CancelReturn ==
    /\ EngineAt("return")
    /\ \/ /\ engine.why \in {"control", "rebalance", "boot", "limit",
                             "switched"}
          /\ EngineGoto("idle")
          /\ UNCHANGED <<risk, job>>
       \/ /\ engine.why = "risk"
          /\ risk' = [risk EXCEPT !.cancelPending = @ /\ ~engine.ok,
                                  !.cancelQueued = FALSE]
          /\ EngineGoto("idle")
          /\ UNCHANGED job
       \/ /\ engine.why = "config"
          /\ IF engine.ok   \* the direction recheck that may pause is a fault
             THEN /\ Spawn([NewJob("save", "lock") EXCEPT
                              !.mode = engine.target])
                  /\ engine' = [engine EXCEPT !.pc = "saving",
                                  !.moved = engine.target # app.mode]
             ELSE EngineGoto("idle") /\ UNCHANGED job
          /\ UNCHANGED risk
       \/ /\ engine.why = "stop"
          /\ EngineGoto("exited")
          /\ UNCHANGED <<risk, job>>
    /\ UNCHANGED <<around, app, queue, seen, budget>>

\* apply_config after the save: cancel what a paused live target recovered,
\* and pause when the target cannot be reconciled.
ConfigSaved ==
    /\ EngineAt("saving") /\ Joined
    /\ \E ready \in BOOLEAN :
         /\ Outcome(ready)
         /\ IF ~job["engine"].ok \/ ~ready
            THEN EngineGoto("settle") /\ Spawn(SafetyPause)
            ELSE /\ Spawn(NoJob)
                 /\ IF /\ engine.moved /\ app.mode = "LIVE"
                       /\ app.status = "Paused"
                    THEN Begin("switched") ELSE EngineGoto("idle")
    /\ UNCHANGED <<around, app, risk, queue, seen>>

ConfigSettled ==
    /\ EngineAt("settle") /\ Joined
    /\ EngineGoto("idle")
    /\ Spawn(NoJob)
    /\ UNCHANGED <<around, app, risk, queue, seen, budget>>

\* shutdown_inner: restoring the managed orders may fail before the cancel.
EngineStopPaused ==
    /\ EngineAt("stopPausing") /\ Joined
    /\ \E restored \in BOOLEAN :
         /\ Outcome(restored)
         /\ engine' = IF restored
                      THEN [engine EXCEPT !.pc = "begin", !.why = "stop",
                                          !.stopOk = job["engine"].ok]
                      ELSE [engine EXCEPT !.pc = "exited", !.stopOk = FALSE]
    /\ Spawn(NoJob)
    /\ UNCHANGED <<around, app, risk, queue, seen>>

-----------------------------------------------------------------------------
(* lifecycle.rs: begin_stop_engine, finish_stop_engine                      *)

Shutdown ==
    /\ Input("shutdown")
    /\ life = "none"
    /\ life' = "pausing"
    /\ app' = [app EXCEPT !.stopping = TRUE, !.pauseEpoch = @ + 1]
    /\ job' = [job EXCEPT !["stop"] = NewJob("stopPause", "global")]
    /\ UNCHANGED <<up, held, risk, engine, queue, asked, db, seen>>

\* Both failures abort the engine; its task of the moment keeps running.
LifeFail ==
    /\ life' = "failing"
    /\ job' = [job EXCEPT !["final"] = SafetyPause]
    /\ EngineGoto("dead")

LifePaused ==
    /\ up /\ life = "pausing" /\ job["stop"].pc = "done"
    /\ IF job["stop"].ok
       THEN /\ life' = "waiting"
            /\ queue' = Append(queue, Message("shutdown", AnyMode))
            /\ UNCHANGED <<job, engine>>
       ELSE LifeFail /\ UNCHANGED queue
    /\ UNCHANGED <<up, app, held, risk, asked, db, seen, budget>>

LifeReplied ==
    /\ EngineAt("exited") /\ life = "waiting"
    /\ IF engine.stopOk /\ engine.ok
       THEN /\ life' = "finishing"
            /\ job' = [job EXCEPT !["final"] = NewJob("commit", "global")]
            /\ UNCHANGED engine
       ELSE LifeFail
    /\ UNCHANGED <<up, app, held, risk, queue, asked, db, seen, budget>>

Deadline ==
    /\ Input("deadline")
    /\ life \in {"pausing", "waiting"}
    /\ LifeFail
    /\ UNCHANGED <<up, app, held, risk, queue, asked, db, seen>>

-----------------------------------------------------------------------------
(* The process ends, at the end of a shutdown or by a crash; what is not in *)
(* the database is lost.  A start arms the execution guard and reads the    *)
(* saved status.                                                            *)

GoDown ==
    /\ up' = FALSE
    /\ app' = NewApp("Paused", "PAPER")
    /\ held' = [l \in Locks |-> "free"]
    /\ job' = [s \in Slots |-> NoJob]
    /\ risk' = NoRisk
    /\ engine' = NewEngine
    /\ queue' = <<>>
    /\ asked' = {}
    /\ life' = "none"
    /\ UNCHANGED <<db, seen>>

Exit ==
    /\ up /\ life \in {"finishing", "failing"}
    /\ job["final"].pc = "done"
    /\ GoDown
    /\ UNCHANGED budget

Crash == Input("crash") /\ GoDown

AsStored == db.status[db.mode]   \* faulty: takes a missing status as one
SavedStatus ==
    IF db.status[db.mode] = "none"
    THEN IF db.mode = "PAPER" THEN "Running" ELSE "Paused"
    ELSE db.status[db.mode]

StartsAsSaved == SavedStatus   \* faulty: ignores the execution guard
StartStatus == IF db.dirty[db.mode] THEN "Paused" ELSE SavedStatus

Unarmed == db   \* faulty: starts without arming the guard
Armed == [db EXCEPT !.dirty[db.mode] = TRUE]

Boot ==
    /\ ~up /\ budget.boots < MaxBoots
    /\ budget' = [budget EXCEPT !.boots = @ + 1]
    /\ up' = TRUE
    /\ app' = NewApp(StartStatus, db.mode)
    /\ db' = Armed
    /\ UNCHANGED <<held, job, risk, engine, queue, asked, life, seen>>

-----------------------------------------------------------------------------
Init ==
    /\ up = FALSE
    /\ app = NewApp("Paused", "PAPER")
    /\ held = [l \in Locks |-> "free"]
    /\ job = [s \in Slots |-> NoJob]
    /\ risk = NoRisk
    /\ engine = NewEngine
    /\ queue = <<>>
    /\ asked = {}
    /\ life = "none"
    /\ \E mode \in Modes :
         db = [mode |-> mode, status |-> [m \in Modes |-> "none"],
               dirty |-> [m \in Modes |-> FALSE]]
    /\ seen = [stops |-> 0, grant |-> 0, raced |-> FALSE]
    /\ budget = [inputs |-> 0, faults |-> 0, boots |-> 0]

TaskStep(s) ==
    \/ PauseAdmit(s) \/ PauseLock(s) \/ PauseWrite(s) \/ PauseClose(s)
    \/ SilentLock(s) \/ SilentWrite(s)
    \/ GlobalCheck(s) \/ CheckPaused(s) \/ Checked(s)
    \/ ResumeLock(s) \/ ResumeWrite(s) \/ ResumeInstall(s)
    \/ StopLock(s) \/ StopWrite(s)
    \/ CommitAdmit(s) \/ CommitLock(s) \/ CommitWrite(s) \/ CommitClear(s)
    \/ SaveLock(s) \/ SaveWrite(s) \/ SaveInstall(s)

EngineStep ==
    \/ EngineBoot \/ EngineBootFailed \/ EngineBootCheck
    \/ Receive \/ EngineResumed
    \/ CancelBegin \/ CancelRead \/ CancelPaused \/ CancelWork
    \/ CancelRestored \/ CancelSafety \/ CancelReturn
    \/ ConfigSaved \/ ConfigSettled \/ EngineStopPaused
    \/ EngineLimitPaused

LifeStep == LifePaused \/ LifeReplied \/ Exit

Next ==
    \/ \E s \in Slots : TaskStep(s)
    \/ EngineStep \/ EngineLimit \/ LifeStep
    \/ MonitorTick \/ DispatchPause \/ DispatchResume
    \/ RequestPause \/ RequestResume \/ RequestCommand
    \/ Shutdown \/ Deadline \/ Crash \/ Boot

\* Tasks, the engine and the coordinator are scheduled by the runtime; tokio
\* mutexes are fair, so no task waits for a lock while others take it forever.
Fairness ==
    /\ \A s \in Slots : SF_vars(TaskStep(s))
    /\ WF_vars(EngineStep) /\ WF_vars(LifeStep) /\ WF_vars(DispatchPause)

Spec == Init /\ [][Next]_vars
FairSpec == Spec /\ Fairness

-----------------------------------------------------------------------------
TypeOK ==
    /\ up \in BOOLEAN
    /\ app \in [status : Statuses, mode : Modes, pauseEpoch : Nat,
               safetyEpoch : Nat, pending : Nat, eligible : SUBSET Nat,
               cleared : BOOLEAN, stopping : BOOLEAN]
    /\ held \in [Locks -> Slots \cup {"free"}]
    /\ job \in [Slots -> Jobs]
    /\ risk \in [unsafe : BOOLEAN, cancelPending : BOOLEAN,
                cancelQueued : BOOLEAN]
    /\ engine \in Engines
    /\ queue \in Seq(Messages)
    /\ asked \subseteq Messages
    /\ life \in {"none", "pausing", "waiting", "finishing", "failing"}
    /\ db \in [mode : Modes, status : [Modes -> Statuses \cup {"none"}],
              dirty : [Modes -> BOOLEAN]]
    /\ seen \in [stops : Nat, grant : Nat, raced : BOOLEAN]
    /\ budget \in [inputs : Nat, faults : Nat, boots : Nat]

\* No status change is under way.
Settled == up /\ Free("status") /\ app.pending = 0

\* A strategy runs only on a grant younger than the last stop order: after a
\* pause was admitted or the mode was switched, only a resume requested later
\* makes it run again.  Tested by external_pause_is_not_overridden_by_internal_
\* resume; cancel_all_orders_inner breaks it when it begins between the
\* admission of a pause and the moment that pause is installed.
PauseIsNotOverridden ==
    Settled /\ app.status = "Running" => seen.grant = seen.stops

\* The same, outside that window: no other interleaving of pauses, resumes,
\* cancellation cycles, configuration changes and restarts loses a pause.
OnlyGrantedRuns ==
    Settled /\ app.status = "Running" =>
        seen.grant = seen.stops \/ seen.raced

\* What a start would take for a clean Running status is one no later stop
\* order has revoked, wherever the last life ended (execution guard, commit).
RestartIsGranted ==
    ~db.dirty[db.mode] /\ SavedStatus = "Running" =>
        seen.grant = seen.stops \/ seen.raced

\* save_runtime_config never leaves Running behind in the mode it abandons.
AbandonedModePaused ==
    \A m \in Modes \ {db.mode} : db.status[m] # "Running"

\* A strategy that may trade is marked, so that a crash restarts it paused.
ArmedWhileRunning ==
    up /\ Free("status") /\ app.status = "Running" => db.dirty[app.mode]

\* A strategy starts to run only while the answer of a global check still
\* stands: safe, and no cancellation outstanding.
StartsSafely ==
    up /\ up' /\ app.status = "Paused" /\ app'.status = "Running" =>
        ~risk.unsafe /\ ~risk.cancelPending

NoResumeUnderRisk == [][StartsSafely]_vars

\* After commit_shutdown_recovery cleared the guard nothing of this life
\* changes the status, in memory or in the database.
StaysCleared ==
    up /\ up' /\ app.cleared => db' = db /\ app'.status = app.status

ClearedIsFinal == [][StaysCleared]_vars

\* A pause once admitted is installed: no lock order blocks it.
PauseSettles == (app.pending > 0) ~> (app.pending = 0)

\* A shutdown ends the process, by a commit or by a failure pause.
ShutdownEnds == (life # "none") ~> ~up
=============================================================================
