------------------------ MODULE TradingStatus_proofs ------------------------
(***************************************************************************)
(* Proofs about TradingStatus for any set of inputs and any bounds: the     *)
(* types, and that no interleaving of pauses, resumes, cancellations,       *)
(* configuration changes, shutdowns and crashes resumes a strategy that     *)
(* was told to stop, in this life or in the next.                           *)
(***************************************************************************)
EXTENDS TradingStatus, TLAPS

-----------------------------------------------------------------------------
(* The inductive invariant: tasks and locks.                                *)

\* The tasks a slot may hold, and the steps of each.
OpsOf(s) ==
    CASE s = "engine" -> {"none", "pause", "silentPause", "resume",
                          "stopPause", "save"}
      [] s = "user" -> {"none", "pause"}
      [] s = "nested" -> {"none", "pause"}
      [] s = "monitor" -> {"none", "check"}
      [] s = "stop" -> {"none", "stopPause"}
      [] s = "final" -> {"none", "pause", "commit"}

PcsOf(op) ==
    CASE op = "none" -> {"idle"}
      [] op = "pause" -> {"admit", "lock", "write", "close", "done"}
      [] op = "silentPause" -> {"lock", "write", "done"}
      [] op = "resume" -> {"global", "checking", "checked", "lock", "write",
                           "install", "done"}
      [] op = "stopPause" -> {"global", "checking", "checked", "lock",
                              "write", "done"}
      [] op = "commit" -> {"global", "checking", "checked", "admit", "lock",
                           "write", "clear", "done"}
      [] op = "save" -> {"lock", "write", "install", "done"}
      [] op = "check" -> {"global", "checking", "checked"}

\* The task an engine at pc has started and waits for; an aborted engine
\* leaves any.
EngineOps(pc) ==
    CASE pc \in {"boot", "bootCheck", "idle", "begin", "read", "work",
                 "return", "exited"} -> {"none"}
      [] pc \in {"bootFailed", "limit", "safety", "settle"} -> {"pause"}
      [] pc = "pausing" -> {"silentPause"}
      [] pc \in {"resuming", "restoring"} -> {"resume"}
      [] pc = "saving" -> {"save"}
      [] pc = "stopPausing" -> {"stopPause"}
      [] pc = "dead" -> OpsOf("engine")

ShapeInv ==
    \A s \in Slots : job[s].op \in OpsOf(s) /\ job[s].pc \in PcsOf(job[s].op)

\* The engine's task is the one it waits for; a save names a mode.
EngineTask ==
    /\ job["engine"].op \in EngineOps(engine.pc)
    /\ job["engine"].op = "save" => job["engine"].mode \in Modes

\* A nested pause runs only inside a global check.
NestedTask ==
    job["nested"].op # "none" => \E s \in Slots : job[s].pc = "checking"

\* A command that changes the configuration names a mode.
Commands ==
    /\ \A i \in DOMAIN queue : queue[i].kind = "config" => queue[i].mode \in Modes
    /\ \A m \in asked : m.kind = "resume"

JobInv == EngineTask /\ NestedTask /\ Commands

\* A process that is down has no state.
DownInv ==
    ~up => /\ app = NewApp("Paused", "PAPER")
           /\ held = [l \in Locks |-> "free"]
           /\ job = [s \in Slots |-> NoJob]
           /\ risk = NoRisk
           /\ engine = NewEngine
           /\ queue = <<>>
           /\ asked = {}
           /\ life = "none"

\* A lock is held by the task that is between its acquisition and release.
HoldsStatus(j) ==
    \/ j.op \in {"pause", "silentPause", "stopPause"} /\ j.pc = "write"
    \/ j.op \in {"resume", "save"} /\ j.pc \in {"write", "install"}
    \/ j.op = "commit" /\ j.pc \in {"write", "clear"}
HoldsGlobal(j) ==
    \/ j.pc \in {"checking", "checked"}
    \/ j.op = "resume" /\ j.pc \in {"lock", "write", "install"}
    \/ j.op = "stopPause" /\ j.pc \in {"lock", "write"}
    \/ j.op = "commit" /\ j.pc \in {"admit", "lock", "write", "clear"}
HoldsAdmission(j) == j.op = "commit" /\ j.pc \in {"lock", "write", "clear"}
Holds(l, j) == CASE l = "status" -> HoldsStatus(j)
                 [] l = "global" -> HoldsGlobal(j)
                 [] l = "admission" -> HoldsAdmission(j)

LockInv == \A s \in Slots, l \in Locks : held[l] = s <=> Holds(l, job[s])

\* The coordinator, and what its two tasks have reached.
StopDone == /\ job["stop"].op = "stopPause"
            /\ job["stop"].pc = "done"
            /\ job["stop"].ok
LifeInv ==
    /\ life = "none" <=> job["stop"].op = "none"
    /\ life \in {"none", "pausing", "waiting"} => job["final"].op = "none"
    /\ life \in {"waiting", "finishing"} => StopDone
    /\ life = "finishing" => job["final"].op = "commit" /\ engine.pc = "exited"
    /\ life = "failing" => job["final"].op = "pause"
    /\ engine.pc = "dead" => life = "failing"
    /\ life # "none" => app.stopping

\* The pending count counts the pauses admitted and not yet closed.
Pending(j) ==
    IF j.op = "pause" /\ j.pc \in {"lock", "write", "close"} THEN 1 ELSE 0
PendInv ==
    app.pending = Pending(job["engine"]) + Pending(job["user"])
                    + Pending(job["nested"]) + Pending(job["final"])

-----------------------------------------------------------------------------
(* The inductive invariant: stop orders and grants.                         *)

\* The current run was granted after the last stop order.
Granted == seen.grant = seen.stops \/ seen.raced

\* A change of mode is in the database and not yet in memory.
Switched == /\ job["engine"].op = "save"
            /\ job["engine"].pc = "install"
            /\ job["engine"].mode # app.mode

\* A pause was admitted and has not installed its status.
PauseWaits == \E s \in Slots : job[s].op = "pause" /\ job[s].pc = "lock"

\* A strategy that runs without a grant is about to be paused.
StatusInv == app.status = "Running" => Granted \/ PauseWaits \/ Switched

\* A request whose epoch is still current asks for what no stop order revoked.
Valid(m) == /\ m.epoch <= app.pauseEpoch
            /\ m.epoch = app.pauseEpoch => m.by = seen.stops \/ Switched
RequestInv ==
    /\ \A m \in asked : Valid(m)
    /\ \A i \in DOMAIN queue : queue[i].kind = "resume" => Valid(queue[i])

\* A resume that is past its epoch check is outrun only by a pause that waits
\* for its locks, and sees no risk appear.
Deserved(j) == IF j.mode = AnyMode THEN Granted ELSE j.by = seen.stops
ResumeInv ==
    LET j == job["engine"] IN
    j.op = "resume" =>
      /\ j.epoch <= app.pauseEpoch
      /\ (j.pc \in {"global", "checking", "checked", "lock"}
            /\ j.epoch = app.pauseEpoch) => Deserved(j)
      /\ j.pc \in {"write", "install"} => Deserved(j) \/ PauseWaits
      /\ j.pc \in {"lock", "write", "install"} =>
           ~risk.unsafe /\ ~risk.cancelPending

\* A cancellation cycle restores a run only if nothing stopped it meanwhile.
CycleInv ==
    /\ engine.pc = "read" => engine.base <= app.pauseEpoch
    /\ (engine.pc \in {"pausing", "work"} /\ engine.was) =>
         /\ engine.base < app.pauseEpoch
         /\ app.pauseEpoch = engine.base + 1 => Granted

\* What a shutdown may restore is the run of the current safety epoch.
EligibleInv ==
    /\ \A n \in app.eligible : n <= app.safetyEpoch
    /\ app.safetyEpoch \in app.eligible =>
         app.pending = 0 /\ (Granted \/ Switched)

GrantInv == StatusInv /\ RequestInv /\ ResumeInv /\ CycleInv /\ EligibleInv

-----------------------------------------------------------------------------
(* The inductive invariant: the end of a shutdown, and the database.        *)

FinalAt(pcs) == job["final"].op = "commit" /\ job["final"].pc \in pcs

\* Once the shutdown pause succeeded nothing runs or resumes in this life.
StoppedInv ==
    /\ \A s \in Slots : job[s].op = "stopPause" /\ job[s].pc = "write" =>
         app.status = "Paused"
    /\ StopDone =>
         /\ app.status = "Paused"
         /\ ~(job["engine"].op = "resume"
                /\ job["engine"].pc \in {"write", "install"})
         /\ db.status[db.mode] = "Paused" \/ FinalAt({"clear", "done"})

\* The commit leaves Running in the database only for a run still granted.
CommitInv ==
    /\ FinalAt({"write", "clear"}) => app.pending = 0
    /\ FinalAt({"write"}) => Granted
    /\ FinalAt({"clear"}) =>
         /\ db.status[db.mode] # "none"
         /\ db.status[db.mode] = "Running" => Granted
    /\ app.cleared => FinalAt({"done"}) /\ app.pending = 0

\* Memory and database agree on the mode, and the guard is armed until the
\* commit clears it.
DbInv ==
    /\ up => db.mode = IF Switched THEN job["engine"].mode ELSE app.mode
    /\ (up /\ ~app.cleared) => db.dirty[db.mode]
    /\ RestartIsGranted
    /\ AbandonedModePaused

TaskInv == TypeOK /\ ShapeInv /\ JobInv /\ DownInv /\ LockInv /\ LifeInv /\ PendInv
IInv == TaskInv /\ GrantInv /\ StoppedInv /\ CommitInv /\ DbInv

-----------------------------------------------------------------------------
(* What the steps do, field by field.                                       *)

\* Every task but those of s, or of s and the nested pause, stays as it is.
OnlyJob(s) == \A t \in Slots : t # s => job'[t] = job[t]
OnlyJobs(s) == \A t \in Slots \ {"nested"} : t # s => job'[t] = job[t]

\* The task of s goes on to pc.
Steps(s, pc) ==
    /\ job'[s].op = job[s].op /\ job'[s].pc = pc
    /\ job'[s].mode = job[s].mode
    /\ job'[s].epoch = job[s].epoch /\ job'[s].by = job[s].by
Moved(s, pc) == OnlyJob(s) /\ Steps(s, pc)
Placed(s, j) == OnlyJob(s) /\ job'[s] = j

\* The status of the current mode is written; the guard of it is cleared.
Writes(status) ==
    /\ db'.mode = db.mode /\ db'.dirty = db.dirty
    /\ db'.status = [db.status EXCEPT ![app.mode] = status]
Disarms ==
    /\ db'.mode = db.mode /\ db'.status = db.status
    /\ db'.dirty = [db.dirty EXCEPT ![app.mode] = FALSE]

\* No resume and no configuration is added to the queue.
OldCommands ==
    \A i \in DOMAIN queue' :
      \/ \E k \in DOMAIN queue : queue'[i] = queue[k]
      \/ queue'[i].kind \notin {"resume", "config"}

Apps == [status : Statuses, mode : Modes, pauseEpoch : Nat,
         safetyEpoch : Nat, pending : Nat, eligible : SUBSET Nat,
         cleared : BOOLEAN, stopping : BOOLEAN]
Risks == [unsafe : BOOLEAN, cancelPending : BOOLEAN, cancelQueued : BOOLEAN]
Dbs == [mode : Modes, status : [Modes -> Statuses \cup {"none"}],
        dirty : [Modes -> BOOLEAN]]
Seens == [stops : Nat, grant : Nat, raced : BOOLEAN]
Lives == {"none", "pausing", "waiting", "finishing", "failing"}
Budgets == [inputs : Nat, faults : Nat, boots : Nat]
Holders == [Locks -> Slots \cup {"free"}]

\* A step of a task to another program counter changes that task alone.
LEMMA GotoMoves ==
  ASSUME job \in [Slots -> Jobs], NEW s \in Slots, NEW pc, Goto(s, pc)
  PROVE  Moved(s, pc) /\ job'[s].ok = job[s].ok
BY SMT DEF Moved, OnlyJob, Steps, Goto, Jobs

\* So does its end.
LEMMA FinishMoves ==
  ASSUME job \in [Slots -> Jobs], NEW s \in Slots, NEW ok, Finish(s, ok)
  PROVE  Moved(s, "done") /\ job'[s].ok = ok
BY SMT DEF Moved, OnlyJob, Steps, Finish, Jobs

\* A task put in a slot changes that slot alone.
LEMMA PutPlaces ==
  ASSUME job \in [Slots -> Jobs], NEW s \in Slots, NEW j,
         job' = [job EXCEPT ![s] = j]
  PROVE  Placed(s, j)
BY SMT DEF Placed, OnlyJob

\* What a global check or the shutdown queues is neither.
LEMMA AppendIsOld ==
  ASSUME queue \in Seq(Messages), NEW m,
         m.kind \notin {"resume", "config"}, queue' = Append(queue, m)
  PROVE  OldCommands
BY SMT DEF OldCommands

\* Nothing is queued, or what a global check queues.
LEMMA RiskCancelIsOld ==
  ASSUME queue \in Seq(Messages), QueueGlobalCancel
  PROVE  OldCommands
<1>1. CASE queue' = queue
  BY <1>1, SMT DEF OldCommands
<1>2. CASE queue' = Append(queue, Message("riskCancel", AnyMode))
  BY <1>2, AppendIsOld, SMT DEF Message
<1> QED
  BY <1>1, <1>2, SMT DEF QueueGlobalCancel

\* A pause is admitted, unless the guard was cleared.
LEMMA PauseAdmitEffect ==
  ASSUME TypeOK, NEW s \in Slots, PauseAdmit(s)
  PROVE  /\ up /\ job[s].op = "pause" /\ job[s].pc = "admit"
         /\ UNCHANGED <<up, engine, queue, asked, life, held, risk, db, budget>>
         /\ held["admission"] = "free"
         /\ \/ /\ ~app.cleared /\ app'.status = app.status
               /\ app'.mode = app.mode /\ app'.pauseEpoch = app.pauseEpoch + 1
               /\ app'.safetyEpoch = app.safetyEpoch + 1
               /\ app'.pending = app.pending + 1 /\ app'.eligible = app.eligible
               /\ app'.cleared = app.cleared /\ app'.stopping = app.stopping
               /\ seen'.stops = seen.stops + 1 /\ seen'.grant = seen.grant
               /\ seen'.raced = seen.raced /\ Moved(s, "lock")
            \/ /\ app.cleared /\ UNCHANGED <<app, seen>> /\ Moved(s, "done")
BY GotoMoves, FinishMoves
DEF TypeOK, PauseAdmit, Free, At, Apps, Dbs, Seens, Risks, outside, Writes,
    Disarms, MayResume, RecoveryEligible, ResumeLocks, AdmitsPause

\* It installs the pause under the status lock.
LEMMA PauseLockEffect ==
  ASSUME TypeOK, NEW s \in Slots, PauseLock(s)
  PROVE  /\ up /\ job[s].op = "pause" /\ job[s].pc = "lock"
         /\ UNCHANGED <<up, engine, queue, asked, life, risk, db, seen, budget>>
         /\ held["status"] = "free" /\ held' = [held EXCEPT !["status"] = s]
         /\ Moved(s, "write") /\ app'.status = "Paused" /\ app'.mode = app.mode
         /\ app'.pauseEpoch = app.pauseEpoch
         /\ app'.safetyEpoch = app.safetyEpoch /\ app'.pending = app.pending
         /\ app'.eligible = {} /\ app'.cleared = app.cleared
         /\ app'.stopping = app.stopping
BY GotoMoves, FinishMoves
DEF TypeOK, PauseLock, Free, At, Apps, Dbs, Seens, Risks, outside, Writes,
    Disarms, MayResume, RecoveryEligible, ResumeLocks, AdmitsPause

\* It writes the pause, or fails to.
LEMMA PauseWriteEffect ==
  ASSUME TypeOK, NEW s \in Slots, PauseWrite(s)
  PROVE  /\ up /\ job[s].op = "pause" /\ job[s].pc = "write"
         /\ UNCHANGED <<up, engine, queue, asked, life, app, risk, seen>>
         /\ held' = Release({"status"}) /\ Moved(s, "close")
         /\ db' = db \/ Writes("Paused")
<1>1. PICK ok \in BOOLEAN :
        /\ db' = IF ok THEN [db EXCEPT !.status[app.mode] = "Paused"] ELSE db
        /\ job' = [job EXCEPT ![s].pc = "close", ![s].ok = ok]
  BY Zenon DEF PauseWrite
<1>2. Moved(s, "close")
  BY <1>1, SMT DEF TypeOK, Moved, OnlyJob, Steps, Jobs
<1>3. db' = db \/ Writes("Paused")
  BY <1>1, SMT DEF Writes, TypeOK, Dbs
<1> QED
  BY <1>2, <1>3 DEF PauseWrite, At, outside

\* It gives the pending count back.
LEMMA PauseCloseEffect ==
  ASSUME TypeOK, NEW s \in Slots, PauseClose(s)
  PROVE  /\ up /\ job[s].op = "pause" /\ job[s].pc = "close"
         /\ UNCHANGED <<up, engine, queue, asked, life, held, risk,
                        db, seen, budget>>
         /\ Moved(s, "done") /\ app'.status = app.status /\ app'.mode = app.mode
         /\ app'.pauseEpoch = app.pauseEpoch
         /\ app'.safetyEpoch = app.safetyEpoch /\ app'.pending = app.pending - 1
         /\ app'.eligible = app.eligible /\ app'.cleared = app.cleared
         /\ app'.stopping = app.stopping
BY GotoMoves, FinishMoves
DEF TypeOK, PauseClose, Free, At, Apps, Dbs, Seens, Risks, outside, Writes,
    Disarms, MayResume, RecoveryEligible, ResumeLocks, AdmitsPause

\* The silent pause installs its status, unless the guard was cleared.
LEMMA SilentLockEffect ==
  ASSUME TypeOK, NEW s \in Slots, SilentLock(s)
  PROVE  /\ up /\ job[s].op = "silentPause" /\ job[s].pc = "lock"
         /\ UNCHANGED <<up, engine, queue, asked, life, risk, db, seen, budget>>
         /\ held["status"] = "free"
         /\ \/ /\ app.cleared /\ UNCHANGED <<app, held>> /\ Moved(s, "done")
            \/ /\ ~app.cleared /\ held' = [held EXCEPT !["status"] = s]
               /\ Moved(s, "write") /\ app'.status = "Paused"
               /\ app'.mode = app.mode /\ app'.pauseEpoch = app.pauseEpoch
               /\ app'.safetyEpoch = app.safetyEpoch
               /\ app'.pending = app.pending /\ app'.eligible = app.eligible
               /\ app'.cleared = app.cleared /\ app'.stopping = app.stopping
BY GotoMoves, FinishMoves
DEF TypeOK, SilentLock, Free, At, Apps, Dbs, Seens, Risks, outside, Writes,
    Disarms, MayResume, RecoveryEligible, ResumeLocks, AdmitsPause

\* It writes it, or fails to.
LEMMA SilentWriteEffect ==
  ASSUME TypeOK, NEW s \in Slots, SilentWrite(s)
  PROVE  /\ up /\ job[s].op = "silentPause" /\ job[s].pc = "write"
         /\ UNCHANGED <<up, engine, queue, asked, life, app, risk, seen>>
         /\ held' = Release({"status"}) /\ Moved(s, "done")
         /\ db' = db \/ Writes("Paused")
BY GotoMoves, FinishMoves
DEF TypeOK, SilentWrite, Free, At, Apps, Dbs, Seens, Risks, outside, Writes,
    Disarms, MayResume, RecoveryEligible, ResumeLocks, AdmitsPause

\* A global check takes its lock and may start the nested pause.
LEMMA GlobalCheckEffect ==
  ASSUME TypeOK, ShapeInv, NEW s \in Slots, GlobalCheck(s)
  PROVE  /\ up /\ job[s].pc = "global"
         /\ UNCHANGED <<up, engine, queue, asked, life, app, db, seen>>
         /\ held["global"] = "free" /\ held' = [held EXCEPT !["global"] = s]
         /\ \/ /\ Moved(s, "checked")
            \/ /\ OnlyJobs(s) /\ Steps(s, "checking")
               /\ job'["nested"] = SafetyPause
<1>1. s # "nested" /\ "nested" \in Slots
  BY SMT DEF GlobalCheck, ShapeInv, OpsOf, PcsOf, Slots
<1>2. ASSUME job' = [job EXCEPT ![s].pc = "checked"]
      PROVE  Moved(s, "checked")
  BY <1>2, GotoMoves DEF TypeOK, Goto
<1>3. ASSUME job' = [job EXCEPT ![s].pc = "checking",
                                !["nested"] = SafetyPause]
      PROVE  /\ OnlyJobs(s) /\ Steps(s, "checking")
             /\ job'["nested"] = SafetyPause
  BY <1>1, <1>3, SMT DEF TypeOK, OnlyJobs, Steps, Jobs
<1> QED
  BY <1>2, <1>3, SMT DEF GlobalCheck, Free, outside

\* The nested pause of a check is done.
LEMMA CheckPausedEffect ==
  ASSUME TypeOK, ShapeInv, NEW s \in Slots, CheckPaused(s)
  PROVE  /\ up /\ job[s].pc = "checking"
         /\ UNCHANGED <<up, engine, queue, asked, life, app, held, risk,
                        db, seen, budget>>
         /\ job["nested"].pc = "done" /\ OnlyJobs(s) /\ Steps(s, "checked")
         /\ job'["nested"] = NoJob
<1>1. s # "nested" /\ "nested" \in Slots
  BY SMT DEF CheckPaused, ShapeInv, OpsOf, PcsOf, Slots
<1>2. /\ OnlyJobs(s) /\ Steps(s, "checked")
      /\ job'["nested"] = NoJob
  BY <1>1, SMT DEF CheckPaused, TypeOK, OnlyJobs, Steps, Jobs
<1> QED
  BY <1>2, SMT DEF CheckPaused, outside

\* A resume that may still run takes the status lock; others are refused.
LEMMA ResumeLockEffect ==
  ASSUME TypeOK, NEW s \in Slots, ResumeLock(s)
  PROVE  /\ up /\ job[s].op = "resume" /\ job[s].pc = "lock"
         /\ UNCHANGED <<up, engine, queue, asked, life, app, risk,
                        db, seen, budget>>
         /\ held["status"] = "free"
         /\ \/ /\ MayResume(job[s]) /\ held' = [held EXCEPT !["status"] = s]
               /\ Moved(s, "write")
            \/ /\ held' = Release({"global"}) /\ Moved(s, "done")
BY GotoMoves, FinishMoves
DEF TypeOK, ResumeLock, Free, At, Apps, Dbs, Seens, Risks, outside, Writes,
    Disarms, MayResume, RecoveryEligible, ResumeLocks, AdmitsPause

\* It writes Running, or fails to.
LEMMA ResumeWriteEffect ==
  ASSUME TypeOK, NEW s \in Slots, ResumeWrite(s)
  PROVE  /\ up /\ job[s].op = "resume" /\ job[s].pc = "write"
         /\ UNCHANGED <<up, engine, queue, asked, life, app, risk, seen>>
         /\ \/ /\ Writes("Running") /\ held' = held /\ Moved(s, "install")
            \/ /\ db' = db /\ held' = Release({"global", "status"})
               /\ Moved(s, "done")
BY GotoMoves, FinishMoves
DEF TypeOK, ResumeWrite, Free, At, Apps, Dbs, Seens, Risks, outside, Writes,
    Disarms, MayResume, RecoveryEligible, ResumeLocks, AdmitsPause

\* It installs Running; a request is recorded as the grant.
LEMMA ResumeInstallEffect ==
  ASSUME TypeOK, NEW s \in Slots, ResumeInstall(s)
  PROVE  /\ up /\ job[s].op = "resume" /\ job[s].pc = "install"
         /\ UNCHANGED <<up, engine, queue, asked, life, risk, db, budget>>
         /\ held' = Release({"global", "status"}) /\ Moved(s, "done")
         /\ app'.status = "Running" /\ app'.mode = app.mode
         /\ app'.pauseEpoch = app.pauseEpoch
         /\ app'.safetyEpoch = app.safetyEpoch /\ app'.pending = app.pending
         /\ app'.eligible = app.eligible /\ app'.cleared = app.cleared
         /\ app'.stopping = app.stopping /\ seen'.stops = seen.stops
         /\ \/ /\ job[s].mode = AnyMode /\ seen' = seen
            \/ /\ job[s].mode # AnyMode /\ seen'.grant = job[s].by
BY GotoMoves, FinishMoves
DEF TypeOK, ResumeInstall, Free, At, Apps, Dbs, Seens, Risks, outside, Writes,
    Disarms, MayResume, RecoveryEligible, ResumeLocks, AdmitsPause

\* The shutdown pause installs its status and what may be restored.
LEMMA StopLockEffect ==
  ASSUME TypeOK, NEW s \in Slots, StopLock(s)
  PROVE  /\ up /\ job[s].op = "stopPause" /\ job[s].pc = "lock"
         /\ UNCHANGED <<up, engine, queue, asked, life, risk, db, seen, budget>>
         /\ held["status"] = "free" /\ held' = [held EXCEPT !["status"] = s]
         /\ Moved(s, "write") /\ app'.status = "Paused" /\ app'.mode = app.mode
         /\ app'.pauseEpoch = app.pauseEpoch
         /\ app'.safetyEpoch = app.safetyEpoch /\ app'.pending = app.pending
         /\ app'.cleared = app.cleared /\ app'.stopping = app.stopping
         /\ \/ /\ app.status # "Running" /\ app'.eligible = app.eligible
            \/ /\ app.status = "Running" /\ app.pending = 0
               /\ app'.eligible = {app.safetyEpoch}
            \/ /\ app'.eligible = {}
BY GotoMoves, FinishMoves
DEF TypeOK, StopLock, Free, At, Apps, Dbs, Seens, Risks, outside, Writes,
    Disarms, MayResume, RecoveryEligible, ResumeLocks, AdmitsPause

\* It writes it; a failed write restores nothing.
LEMMA StopWriteEffect ==
  ASSUME TypeOK, NEW s \in Slots, StopWrite(s)
  PROVE  /\ up /\ job[s].op = "stopPause" /\ job[s].pc = "write"
         /\ UNCHANGED <<up, engine, queue, asked, life, risk, seen>>
         /\ held' = Release({"global", "status"}) /\ Moved(s, "done")
         /\ \/ /\ app' = app /\ Writes("Paused") /\ job'[s].ok = TRUE
            \/ /\ db' = db /\ job'[s].ok = FALSE /\ app'.status = app.status
               /\ app'.mode = app.mode /\ app'.pauseEpoch = app.pauseEpoch
               /\ app'.safetyEpoch = app.safetyEpoch
               /\ app'.pending = app.pending /\ app'.eligible = {}
               /\ app'.cleared = app.cleared /\ app'.stopping = app.stopping
BY GotoMoves, FinishMoves
DEF TypeOK, StopWrite, Free, At, Apps, Dbs, Seens, Risks, outside, Writes,
    Disarms, MayResume, RecoveryEligible, ResumeLocks, AdmitsPause

\* The commit keeps pauses out.
LEMMA CommitAdmitEffect ==
  ASSUME TypeOK, NEW s \in Slots, CommitAdmit(s)
  PROVE  /\ up /\ job[s].op = "commit" /\ job[s].pc = "admit"
         /\ UNCHANGED <<up, engine, queue, asked, life, app, risk,
                        db, seen, budget>>
         /\ held["admission"] = "free"
         /\ held' = [held EXCEPT !["admission"] = s] /\ Moved(s, "lock")
BY GotoMoves, FinishMoves
DEF TypeOK, CommitAdmit, Free, At, Apps, Dbs, Seens, Risks, outside, Writes,
    Disarms, MayResume, RecoveryEligible, ResumeLocks, AdmitsPause

\* With no pause pending it restores what is eligible or only clears.
LEMMA CommitLockEffect ==
  ASSUME TypeOK, NEW s \in Slots, CommitLock(s)
  PROVE  /\ up /\ job[s].op = "commit" /\ job[s].pc = "lock"
         /\ UNCHANGED <<up, engine, queue, asked, life, risk, db, seen, budget>>
         /\ held["status"] = "free"
         /\ \/ /\ UNCHANGED app /\ held' = Release({"global", "admission"})
               /\ Moved(s, "done")
            \/ /\ app.pending = 0 /\ held' = [held EXCEPT !["status"] = s]
               /\ app'.status = app.status /\ app'.mode = app.mode
               /\ app'.pauseEpoch = app.pauseEpoch
               /\ app'.safetyEpoch = app.safetyEpoch
               /\ app'.pending = app.pending /\ app'.eligible = {}
               /\ app'.cleared = app.cleared /\ app'.stopping = app.stopping
               /\ OnlyJob(s) /\ job'[s].op = "commit"
               /\ job'[s].mode = job[s].mode
               /\ job'[s].pc \in {"write", "clear"}
               /\ job'[s].pc = "write" => app.eligible = {app.safetyEpoch}
<1>1. CASE app.pending # 0
  BY <1>1, FinishMoves DEF CommitLock, At, Free, outside, TypeOK
<1>2. CASE app.pending = 0
  <2>1. PICK pc \in {"write", "clear"} :
          /\ pc = "write" => app.eligible = {app.safetyEpoch}
          /\ app' = [app EXCEPT !.eligible = {}]
          /\ job' = [job EXCEPT ![s].pc = pc, ![s].epoch = app.safetyEpoch]
    BY <1>2, SMT DEF CommitLock
  <2>2. /\ OnlyJob(s) /\ job'[s].op = job[s].op /\ job'[s].pc = pc
        /\ job'[s].mode = job[s].mode
    BY <2>1, SMT DEF TypeOK, OnlyJob, Jobs
  <2>3. /\ up /\ job[s].op = "commit" /\ job[s].pc = "lock"
        /\ UNCHANGED <<up, engine, queue, asked, life, risk, db, seen, budget>>
        /\ held["status"] = "free" /\ held' = [held EXCEPT !["status"] = s]
    BY <1>2, SMT DEF CommitLock, At, Free, outside
  <2> QED
    BY <1>2, <2>1, <2>2, <2>3, SMT DEF TypeOK, Apps
<1> QED
  BY <1>1, <1>2

\* The commit writes the status to restart with, or fails to.
LEMMA CommitWriteEffect ==
  ASSUME TypeOK, NEW s \in Slots, CommitWrite(s)
  PROVE  /\ up /\ job[s].op = "commit" /\ job[s].pc = "write"
         /\ UNCHANGED <<up, engine, queue, asked, life, app, risk, seen>>
         /\ \/ /\ Writes("Running") \/ Writes("Paused")
               /\ held' = held /\ Moved(s, "clear")
            \/ /\ db' = db /\ held' = Release(Locks) /\ Moved(s, "done")
BY GotoMoves, FinishMoves
DEF TypeOK, CommitWrite, Free, At, Apps, Dbs, Seens, Risks, outside, Writes,
    Disarms, MayResume, RecoveryEligible, ResumeLocks, AdmitsPause

\* The commit clears the guard, or fails to.
LEMMA CommitClearEffect ==
  ASSUME TypeOK, NEW s \in Slots, CommitClear(s)
  PROVE  /\ up /\ job[s].op = "commit" /\ job[s].pc = "clear"
         /\ UNCHANGED <<up, engine, queue, asked, life, risk, seen>>
         /\ held' = Release(Locks) /\ Moved(s, "done")
         /\ \/ /\ Disarms /\ app'.status = app.status /\ app'.mode = app.mode
               /\ app'.pauseEpoch = app.pauseEpoch
               /\ app'.safetyEpoch = app.safetyEpoch
               /\ app'.pending = app.pending /\ app'.eligible = app.eligible
               /\ app'.cleared = TRUE /\ app'.stopping = app.stopping
            \/ /\ db' = db /\ app'.status = app.status /\ app'.mode = app.mode
               /\ app'.pauseEpoch = app.pauseEpoch
               /\ app'.safetyEpoch = app.safetyEpoch
               /\ app'.pending = app.pending /\ app'.eligible = app.eligible
               /\ app'.cleared = FALSE /\ app'.stopping = app.stopping
BY GotoMoves, FinishMoves
DEF TypeOK, CommitClear, Free, At, Apps, Dbs, Seens, Risks, outside, Writes,
    Disarms, MayResume, RecoveryEligible, ResumeLocks, AdmitsPause

\* A configuration is saved under the status lock, unless the guard was cleared.
LEMMA SaveLockEffect ==
  ASSUME TypeOK, NEW s \in Slots, SaveLock(s)
  PROVE  /\ up /\ job[s].op = "save" /\ job[s].pc = "lock"
         /\ UNCHANGED <<up, engine, queue, asked, life, app, risk,
                        db, seen, budget>>
         /\ held["status"] = "free"
         /\ \/ /\ ~app.cleared /\ held' = [held EXCEPT !["status"] = s]
               /\ Moved(s, "write")
            \/ /\ held' = held /\ Moved(s, "done")
BY GotoMoves, FinishMoves
DEF TypeOK, SaveLock, Free, At, Apps, Dbs, Seens, Risks, outside, Writes,
    Disarms, MayResume, RecoveryEligible, ResumeLocks, AdmitsPause

\* The transaction of a save; a change of mode is a stop order.
LEMMA SaveWriteEffect ==
  ASSUME TypeOK, NEW s \in Slots, SaveWrite(s)
  PROVE  /\ up /\ job[s].op = "save" /\ job[s].pc = "write"
         /\ UNCHANGED <<up, engine, queue, asked, life, app, risk>>
         /\ \/ /\ db' = SavedDb(job[s].mode, app.status) /\ held' = held
               /\ Moved(s, "install")
               /\ \/ job[s].mode = app.mode /\ seen' = seen
                  \/ /\ job[s].mode # app.mode
                     /\ seen'.stops = seen.stops + 1
                     /\ seen'.grant = seen.grant
                     /\ seen'.raced = seen.raced
            \/ /\ db' = db /\ seen' = seen /\ held' = Release({"status"})
               /\ Moved(s, "done")
BY GotoMoves, FinishMoves
DEF TypeOK, SaveWrite, Free, At, Apps, Dbs, Seens, Risks, outside, Writes,
    Disarms, MayResume, RecoveryEligible, ResumeLocks, AdmitsPause

\* The memory follows the transaction.
LEMMA SaveInstallEffect ==
  ASSUME TypeOK, NEW s \in Slots, SaveInstall(s)
  PROVE  /\ up /\ job[s].op = "save" /\ job[s].pc = "install"
         /\ UNCHANGED <<up, engine, queue, asked, life, risk, db, seen, budget>>
         /\ held' = Release({"status"}) /\ Moved(s, "done")
         /\ \/ /\ job[s].mode = app.mode /\ app' = app
            \/ /\ job[s].mode # app.mode /\ app'.status = "Paused"
               /\ app'.mode = job[s].mode
               /\ app'.pauseEpoch = app.pauseEpoch + 1
               /\ app'.safetyEpoch = app.safetyEpoch + 1
               /\ app'.pending = app.pending /\ app'.eligible = {}
               /\ app'.cleared = app.cleared /\ app'.stopping = app.stopping
BY GotoMoves, FinishMoves
DEF TypeOK, SaveInstall, Free, At, Apps, Dbs, Seens, Risks, outside, Writes,
    Disarms, MayResume, RecoveryEligible, ResumeLocks, AdmitsPause

\* The end of a check: the answer is used by the task that asked for it.
LEMMA CheckedEffect ==
  ASSUME TypeOK, NEW s \in Slots, Checked(s)
  PROVE  /\ up /\ job[s].pc = "checked"
         /\ UNCHANGED <<up, engine, asked, life, db, seen, budget>>
         /\ risk'.unsafe = risk.unsafe
         /\ risk'.cancelPending = risk.cancelPending
         /\ OldCommands
         /\ \/ /\ job[s].op = "check" /\ Placed(s, NoJob)
               /\ held' = Release({"global"}) /\ app' = app
            \/ /\ job[s].op = "resume" /\ Moved(s, "done")
               /\ held' = Release({"global"}) /\ app' = app
            \/ /\ job[s].op = "resume" /\ Moved(s, "lock")
               /\ ~risk.unsafe /\ ~risk.cancelPending
               /\ UNCHANGED <<held, app>>
            \/ /\ job[s].op = "stopPause" /\ Moved(s, "lock") /\ held' = held
               /\ app'.pauseEpoch = app.pauseEpoch + 1
               /\ app'.status = app.status /\ app'.mode = app.mode
               /\ app'.safetyEpoch = app.safetyEpoch
               /\ app'.pending = app.pending /\ app'.eligible = app.eligible
               /\ app'.cleared = app.cleared /\ app'.stopping = app.stopping
            \/ /\ job[s].op = "commit" /\ Moved(s, "admit")
               /\ UNCHANGED <<held, app>>
<1>1. OldCommands /\ risk'.unsafe = risk.unsafe
        /\ risk'.cancelPending = risk.cancelPending
  BY RiskCancelIsOld, SMT DEF Checked, QueueGlobalCancel, TypeOK, Risks
<1>2. CASE job[s].op = "check"
  BY <1>1, <1>2, PutPlaces, SMT DEF Checked, TypeOK
<1>3. CASE job[s].op = "resume"
  <2>1. \/ RefusesResume
        \/ ~risk.unsafe /\ ~risk.cancelPending
    BY Zenon DEF RefusesResume
  <2>2. IF RefusesResume
        THEN Finish(s, FALSE) /\ held' = Release({"global"})
        ELSE Goto(s, "lock") /\ UNCHANGED held
    BY <1>3, Zenon DEF Checked
  <2>3. app' = app
    BY <1>3, SMT DEF Checked
  <2>4. /\ up /\ job[s].pc = "checked"
        /\ UNCHANGED <<up, engine, asked, life, db, seen, budget>>
    BY DEF Checked
  <2>5. job \in [Slots -> Jobs]
    BY DEF TypeOK
  <2>6. CASE RefusesResume
    BY <1>1, <1>3, <2>2, <2>3, <2>4, <2>5, <2>6, FinishMoves
  <2> QED
    BY <1>1, <1>3, <2>1, <2>2, <2>3, <2>4, <2>5, <2>6, GotoMoves
<1>4. CASE job[s].op = "stopPause"
  BY <1>1, <1>4, GotoMoves, SMT DEF Checked, TypeOK, Apps
<1>5. CASE job[s].op = "commit"
  BY <1>1, <1>5, GotoMoves, SMT DEF Checked, TypeOK
<1> QED
  BY <1>2, <1>3, <1>4, <1>5 DEF Checked

-----------------------------------------------------------------------------
(* The engine: whatever it does, the task it had has ended and the one it    *)
(* starts holds nothing yet.                                                 *)

Fresh(j) ==
    \/ j.op = "none" /\ j.pc = "idle"
    \/ j.op = "pause" /\ j.pc = "admit"
    \/ j.op \in {"silentPause", "save"} /\ j.pc = "lock"
    \/ j.op \in {"resume", "stopPause", "commit", "check"} /\ j.pc = "global"

Starts(s) ==
    /\ OnlyJob(s)
    /\ job[s].pc \in {"idle", "done"}
    /\ Fresh(job'[s])

EngineMoves ==
    /\ up /\ engine.pc \notin {"exited", "dead"} /\ engine'.pc # "dead"
    /\ job'["engine"].op \in EngineOps(engine'.pc)
    /\ job'["engine"].op = "save" => job'["engine"].mode \in Modes
    /\ job'["engine"].op = "resume" => Receive \/ CancelWork
    /\ engine'.pc \in {"read", "pausing", "work"} =>
         CancelBegin \/ CancelRead \/ CancelPaused
    /\ UNCHANGED <<up, held, asked, life, db>>
    /\ (job' = job \/ Starts("engine")) /\ OldCommands
    /\ app'.status = app.status /\ app'.mode = app.mode
    /\ app'.safetyEpoch = app.safetyEpoch /\ app'.pending = app.pending
    /\ app'.eligible = app.eligible /\ app'.cleared = app.cleared
    /\ app'.pauseEpoch >= app.pauseEpoch
    /\ app.stopping => app'.stopping
    /\ seen'.stops = seen.stops /\ seen'.grant = seen.grant
    /\ seen.raced => seen'.raced
    /\ risk'.unsafe = risk.unsafe
    /\ risk'.cancelPending => risk.cancelPending

\* What the engine leaves of its queue was in it.
LEMMA TailIsOld ==
  ASSUME queue \in Seq(Messages), queue # <<>>, queue' = Tail(queue)
  PROVE  OldCommands
<1>1. \A i \in DOMAIN queue' : i + 1 \in DOMAIN queue /\ queue'[i] = queue[i + 1]
  BY SMT
<1> QED
  BY <1>1 DEF OldCommands

\* The tasks the engine starts.
\* The task an engine at pc has, when it has none or waits for it.
LEMMA EngineAtRest ==
  ASSUME TaskInv
  PROVE  /\ engine.pc \in {"boot", "bootCheck", "idle", "begin", "read",
                          "work", "return", "exited"} =>
              job["engine"].op = "none" /\ job["engine"].pc = "idle"
         /\ Joined => job["engine"].pc \in {"idle", "done"}
BY SMT
DEF TaskInv, JobInv, EngineTask, ShapeInv, EngineOps, PcsOf, Joined, Slots

\* A task put in the slot of one that has ended.
LEMMA PutStarts ==
  ASSUME job \in [Slots -> Jobs], NEW s \in Slots,
         job[s].pc \in {"idle", "done"},
         NEW j, Fresh(j), job' = [job EXCEPT ![s] = j]
  PROVE  Starts(s) /\ job'[s] = j
<1>1. Placed(s, j)
  BY PutPlaces
<1> QED
  BY <1>1 DEF Placed, Starts

\* A task put in the slot of the engine at rest.
LEMMA PutFresh ==
  ASSUME job \in [Slots -> Jobs], job["engine"].pc \in {"idle", "done"},
         NEW j, Fresh(j), Spawn(j)
  PROVE  Starts("engine") /\ job'["engine"] = j
BY PutStarts DEF Spawn, Slots

\* The tasks the engine starts hold nothing yet.
LEMMA TasksAreFresh ==
  /\ Fresh(NoJob) /\ Fresh(SafetyPause)
  /\ Fresh(NewJob("silentPause", "lock"))
  /\ Fresh(NewJob("stopPause", "global"))
  /\ \A m : Fresh([NewJob("save", "lock") EXCEPT !.mode = m])
  /\ \A e, b : Fresh([NewJob("resume", "global") EXCEPT !.epoch = e, !.by = b])
  /\ \A e, b, m : Fresh([NewJob("resume", "global") EXCEPT
                            !.epoch = e, !.by = b, !.mode = m])
BY SMT DEF Fresh, NoJob, SafetyPause, NewJob

\* Where the engine goes.
LEMMA EngineGoes ==
  ASSUME engine \in Engines
  PROVE  /\ \A pc : EngineGoto(pc) => engine'.pc = pc
         /\ \A why : Begin(why) => engine'.pc = "begin"
         /\ \A ok : Return(ok) => engine'.pc = "return"
<1>1. \A pc : EngineGoto(pc) => engine'.pc = pc
  BY SMT DEF EngineGoto, Engines
<1>2. \A why : Begin(why) => engine'.pc = "begin"
  BY SMT DEF Begin, Engines
<1>3. \A ok : Return(ok) => engine'.pc = "return"
  BY SMT DEF Return, Engines
<1> QED
  BY <1>1, <1>2, <1>3

\* What the engine does with the next command: it stops, drops it, starts a
\* resume, begins a cycle, or saves a configuration.
Stops ==
    /\ app' = [app EXCEPT !.stopping = TRUE, !.pauseEpoch = @ + 1]
    /\ Spawn(NewJob("stopPause", "global"))
    /\ EngineGoto("stopPausing")
Resumes ==
    /\ Head(queue).kind = "resume" /\ Head(queue).mode = app.mode
    /\ ~app.stopping
    /\ Spawn([NewJob("resume", "global") EXCEPT
               !.epoch = Head(queue).epoch, !.by = Head(queue).by,
               !.mode = Head(queue).mode])
    /\ EngineGoto("resuming")
    /\ UNCHANGED app
Saves ==
    /\ Head(queue).mode = app.mode
    /\ engine' = [engine EXCEPT !.pc = "saving", !.target = Head(queue).mode,
                                !.moved = FALSE]
    /\ Spawn([NewJob("save", "lock") EXCEPT !.mode = Head(queue).mode])
    /\ UNCHANGED app
Begins ==
    /\ \/ \E why \in Reasons : Begin(why)
       \/ /\ Head(queue).kind = "config"
          /\ engine' = [engine EXCEPT !.pc = "begin", !.why = "config",
                                      !.target = Head(queue).mode]
    /\ UNCHANGED <<job, app>>

\* What the engine does with the first command of its queue.
LEMMA ReceiveEffect ==
  ASSUME TypeOK, Receive
  PROVE  /\ up /\ engine.pc = "idle"
         /\ queue # <<>> /\ queue' = Tail(queue)
         /\ UNCHANGED <<up, held, asked, life, db, risk, seen, budget>>
         /\ \/ UNCHANGED <<engine, job, app>>
            \/ Stops \/ Resumes \/ Saves \/ Begins
<1>1. Head(queue).kind \in MsgKinds
  <2>1. queue \in Seq(Messages) /\ queue # <<>>
    BY Zenon DEF Receive, TypeOK
  <2>2. Head(queue) \in Messages
    BY <2>1, SMT
  <2> QED
    BY <2>2 DEF Messages
<1>2. /\ up /\ engine.pc = "idle"
      /\ queue # <<>> /\ queue' = Tail(queue)
      /\ UNCHANGED <<up, held, asked, life, db, risk, seen, budget>>
  BY Zenon DEF Receive, EngineAt, around
<1>3. {"rebalance", "risk", "control"} \subseteq Reasons
  BY DEF Reasons
<1>4. CASE Head(queue).kind = "shutdown"
  BY <1>2, <1>4, Zenon DEF Receive, Stops
<1>5. CASE Head(queue).kind # "shutdown" /\ app.stopping
  BY <1>2, <1>5, Zenon DEF Receive
<1>6. CASE Head(queue).kind = "resume" /\ ~app.stopping
  BY <1>2, <1>6, Zenon DEF Receive, Resumes
<1>7. CASE Head(queue).kind = "rebalance" /\ ~app.stopping
  BY <1>2, <1>3, <1>7, Zenon DEF Receive, Begins
<1>8. CASE Head(queue).kind = "config" /\ ~app.stopping
  BY <1>2, <1>3, <1>8, Zenon DEF Receive, Begins, Saves
<1>9. CASE Head(queue).kind = "riskCancel" /\ ~app.stopping
  BY <1>2, <1>3, <1>9, Zenon DEF Receive, Begins
<1>10. CASE Head(queue).kind = "pauseDone" /\ ~app.stopping
  BY <1>2, <1>3, <1>10, Zenon DEF Receive, Begins
<1> QED
  BY <1>1, <1>4, <1>5, <1>6, <1>7, <1>8, <1>9, <1>10 DEF MsgKinds

\* Every step of the engine.
LEMMA EngineEffect ==
  ASSUME TaskInv, EngineStep \/ EngineLimit
  PROVE  EngineMoves
<1>1. /\ job \in [Slots -> Jobs] /\ app \in Apps /\ risk \in Risks
      /\ seen \in Seens /\ queue \in Seq(Messages) /\ engine \in Engines
  BY DEF TaskInv, TypeOK, Apps, Risks, Seens
<1>2. CASE EngineBoot
  <2>1. /\ up /\ engine.pc = "boot"
        /\ \/ engine'.pc = "bootCheck" /\ job'["engine"] = job["engine"]
           \/ engine'.pc = "bootFailed" /\ job'["engine"] = SafetyPause
    BY <1>1, <1>2, EngineAtRest, PutFresh, TasksAreFresh, EngineGoes, Zenon
    DEF EngineBoot, EngineAt
  <2>2. job' = job \/ Starts("engine")
    BY <1>1, <1>2, EngineAtRest, PutFresh, TasksAreFresh, EngineGoes, Zenon
    DEF EngineBoot, EngineAt
  <2> QED
    BY <1>1, <1>2, <2>1, <2>2, EngineAtRest, SMT
    DEF EngineBoot, EngineMoves, EngineOps, NoJob, SafetyPause, NewJob, around,
        Apps, Seens, Risks, OldCommands
<1>3. CASE EngineBootFailed
  <2>1. /\ up /\ engine.pc = "bootFailed"
        /\ engine'.pc = "bootCheck" /\ job'["engine"] = NoJob
    BY <1>1, <1>3, EngineAtRest, PutFresh, TasksAreFresh, EngineGoes, Zenon
    DEF EngineBootFailed, EngineAt
  <2>2. job' = job \/ Starts("engine")
    BY <1>1, <1>3, EngineAtRest, PutFresh, TasksAreFresh, EngineGoes, Zenon
    DEF EngineBootFailed, EngineAt
  <2> QED
    BY <1>1, <1>3, <2>1, <2>2, EngineAtRest, SMT
    DEF EngineBootFailed, EngineMoves, EngineOps, NoJob, SafetyPause, NewJob,
        around, Apps, Seens, Risks, OldCommands
<1>4. CASE EngineBootCheck
  <2>1. /\ up /\ engine.pc = "bootCheck"
        /\ \/ engine'.pc = "begin" /\ job'["engine"] = job["engine"]
           \/ engine'.pc = "idle" /\ job'["engine"] = job["engine"]
    BY <1>1, <1>4, EngineAtRest, PutFresh, TasksAreFresh, EngineGoes, Zenon
    DEF EngineBootCheck, EngineAt
  <2>2. job' = job \/ Starts("engine")
    BY <1>1, <1>4, EngineAtRest, PutFresh, TasksAreFresh, EngineGoes, Zenon
    DEF EngineBootCheck, EngineAt
  <2> QED
    BY <1>1, <1>4, <2>1, <2>2, EngineAtRest, SMT
    DEF EngineBootCheck, EngineMoves, EngineOps, NoJob, SafetyPause, NewJob,
        around, Apps, Seens, Risks, OldCommands
<1>5. CASE Receive
  <2>1. /\ up /\ engine.pc = "idle"
        /\ job["engine"].op = "none" /\ job["engine"].pc = "idle"
        /\ UNCHANGED <<up, held, asked, life, db, risk, seen>>
    BY <1>1, <1>5, ReceiveEffect, EngineAtRest DEF TaskInv
  <2>2. OldCommands
    BY <1>1, <1>5, ReceiveEffect, TailIsOld DEF TaskInv
  <2>3. CASE UNCHANGED <<engine, job, app>>
    BY <1>1, <2>1, <2>2, <2>3, SMT
    DEF EngineMoves, EngineOps, Apps
  <2>4. CASE Stops
    <3>1. /\ Starts("engine")
          /\ job'["engine"] = NewJob("stopPause", "global")
          /\ engine'.pc = "stopPausing"
      BY <1>1, <2>1, <2>4, PutFresh, TasksAreFresh, EngineGoes DEF Stops
    <3>2. job'["engine"].op = "stopPause"
      BY <3>1 DEF NewJob
    <3> QED
      BY <1>1, <2>1, <2>2, <2>4, <3>1, <3>2, SMT
      DEF EngineMoves, EngineOps, Stops, Apps
  <2>5. CASE Resumes
    <3> DEFINE j == [NewJob("resume", "global") EXCEPT
                       !.epoch = Head(queue).epoch, !.by = Head(queue).by,
                       !.mode = Head(queue).mode]
    <3>1. Fresh(j) /\ j.op = "resume"
      BY SMT DEF Fresh, NewJob
    <3>2. Spawn(j) /\ EngineGoto("resuming") /\ app' = app
      BY <2>5 DEF Resumes
    <3> HIDE DEF j
    <3>3. Starts("engine") /\ job'["engine"] = j /\ engine'.pc = "resuming"
      BY <1>1, <2>1, <3>1, <3>2, PutFresh, EngineGoes
    <3> QED
      BY <1>1, <1>5, <2>1, <2>2, <3>1, <3>2, <3>3, SMT
      DEF EngineMoves, EngineOps, Apps
  <2>6. CASE Saves
    <3> DEFINE j == [NewJob("save", "lock") EXCEPT !.mode = Head(queue).mode]
    <3>1. Fresh(j) /\ j.op = "save" /\ j.mode = Head(queue).mode
      BY SMT DEF Fresh, NewJob
    <3>2. Spawn(j) /\ app' = app /\ Head(queue).mode = app.mode
      BY <2>6 DEF Saves
    <3>3. engine'.pc = "saving"
      BY <1>1, <2>6, SMT DEF Saves, Engines
    <3> HIDE DEF j
    <3>4. Starts("engine") /\ job'["engine"] = j
      BY <1>1, <2>1, <3>1, <3>2, PutFresh
    <3> QED
      BY <1>1, <2>1, <2>2, <3>1, <3>2, <3>3, <3>4, SMT
      DEF EngineMoves, EngineOps, Apps
  <2>7. CASE Begins
    <3>1. ASSUME NEW why, Begin(why) PROVE engine'.pc = "begin"
      BY <1>1, <3>1, EngineGoes
    <3>2. ASSUME engine' = [engine EXCEPT !.pc = "begin", !.why = "config",
                                          !.target = Head(queue).mode]
          PROVE  engine'.pc = "begin"
      BY <1>1, <3>2, SMT DEF Engines
    <3>3. engine'.pc = "begin"
      BY <2>7, <3>1, <3>2, Zenon DEF Begins
    <3> QED
      BY <1>1, <2>1, <2>2, <2>7, <3>3, SMT
      DEF EngineMoves, EngineOps, Begins, Apps
  <2> QED
    BY <1>5, <2>3, <2>4, <2>5, <2>6, <2>7, ReceiveEffect DEF TaskInv
<1>6. CASE EngineResumed
  <2>1. /\ up /\ engine.pc = "resuming"
        /\ engine'.pc = "idle" /\ job'["engine"] = NoJob
    BY <1>1, <1>6, EngineAtRest, PutFresh, TasksAreFresh, EngineGoes, Zenon
    DEF EngineResumed, EngineAt
  <2>2. job' = job \/ Starts("engine")
    BY <1>1, <1>6, EngineAtRest, PutFresh, TasksAreFresh, EngineGoes, Zenon
    DEF EngineResumed, EngineAt
  <2> QED
    BY <1>1, <1>6, <2>1, <2>2, EngineAtRest, SMT
    DEF EngineResumed, EngineMoves, EngineOps, NoJob, SafetyPause, NewJob,
        around, Apps, Seens, Risks, OldCommands
<1>7. CASE EngineLimit
  <2>1. /\ up /\ engine.pc = "idle"
        /\ engine'.pc = "limit" /\ job'["engine"] = SafetyPause
    BY <1>1, <1>7, EngineAtRest, PutFresh, TasksAreFresh, EngineGoes, Zenon
    DEF EngineLimit, EngineAt
  <2>2. job' = job \/ Starts("engine")
    BY <1>1, <1>7, EngineAtRest, PutFresh, TasksAreFresh, EngineGoes, Zenon
    DEF EngineLimit, EngineAt
  <2> QED
    BY <1>1, <1>7, <2>1, <2>2, EngineAtRest, SMT
    DEF EngineLimit, EngineMoves, EngineOps, NoJob, SafetyPause, NewJob, around,
        Apps, Seens, Risks, OldCommands
<1>8. CASE EngineLimitPaused
  <2>1. /\ up /\ engine.pc = "limit"
        /\ engine'.pc = "begin" /\ job'["engine"] = NoJob
    BY <1>1, <1>8, EngineAtRest, PutFresh, TasksAreFresh, EngineGoes, Zenon
    DEF EngineLimitPaused, EngineAt
  <2>2. job' = job \/ Starts("engine")
    BY <1>1, <1>8, EngineAtRest, PutFresh, TasksAreFresh, EngineGoes, Zenon
    DEF EngineLimitPaused, EngineAt
  <2> QED
    BY <1>1, <1>8, <2>1, <2>2, EngineAtRest, SMT
    DEF EngineLimitPaused, EngineMoves, EngineOps, NoJob, SafetyPause, NewJob,
        around, Apps, Seens, Risks, OldCommands
<1>9. CASE CancelBegin
  <2>0. engine'.pc \in {"work", "read"}
    BY <1>1, <1>9, SMT DEF CancelBegin, Engines
  <2>1. /\ up /\ engine.pc = "begin"
        /\ \/ engine'.pc = "work" /\ job'["engine"] = job["engine"]
           \/ engine'.pc = "read" /\ job'["engine"] = job["engine"]
    BY <1>1, <1>9, <2>0, EngineAtRest, PutFresh, TasksAreFresh, EngineGoes,
       Zenon
    DEF CancelBegin, EngineAt
  <2>2. job' = job \/ Starts("engine")
    BY <1>1, <1>9, EngineAtRest, PutFresh, TasksAreFresh, EngineGoes, Zenon
    DEF CancelBegin, EngineAt
  <2> QED
    BY <1>1, <1>9, <2>1, <2>2, EngineAtRest, SMT
    DEF CancelBegin, EngineMoves, EngineOps, NoJob, SafetyPause, NewJob, around,
        Apps, Seens, Risks, OldCommands
<1>10. CASE CancelRead
  <2>0. engine'.pc \in {"pausing"}
    BY <1>1, <1>10, SMT DEF CancelRead, Engines
  <2>1. /\ up /\ engine.pc = "read"
        /\ engine'.pc = "pausing" /\ job'["engine"] = NewJob("silentPause", "lock")
    BY <1>1, <1>10, <2>0, EngineAtRest, PutFresh, TasksAreFresh, EngineGoes,
       Zenon
    DEF CancelRead, EngineAt
  <2>2. job' = job \/ Starts("engine")
    BY <1>1, <1>10, EngineAtRest, PutFresh, TasksAreFresh, EngineGoes, Zenon
    DEF CancelRead, EngineAt
  <2>3. /\ seen'.stops = seen.stops /\ seen'.grant = seen.grant
        /\ seen.raced => seen'.raced
    BY <1>1, <1>10, SMT DEF CancelRead, Seens
  <2> QED
    BY <1>1, <1>10, <2>1, <2>2, <2>3, EngineAtRest, SMT
    DEF CancelRead, EngineMoves, EngineOps, NoJob, SafetyPause, NewJob, around,
        Apps, Seens, Risks, OldCommands
<1>11. CASE CancelPaused
  <2>1. /\ up /\ engine.pc = "pausing"
        /\ \/ engine'.pc = "work" /\ job'["engine"] = NoJob
           \/ engine'.pc = "safety" /\ job'["engine"] = SafetyPause
    BY <1>1, <1>11, EngineAtRest, PutFresh, TasksAreFresh, EngineGoes, Zenon
    DEF CancelPaused, EngineAt
  <2>2. job' = job \/ Starts("engine")
    BY <1>1, <1>11, EngineAtRest, PutFresh, TasksAreFresh, EngineGoes, Zenon
    DEF CancelPaused, EngineAt
  <2> QED
    BY <1>1, <1>11, <2>1, <2>2, EngineAtRest, SMT
    DEF CancelPaused, EngineMoves, EngineOps, NoJob, SafetyPause, NewJob,
        around, Apps, Seens, Risks, OldCommands
<1>12. CASE CancelWork
  <2>1. /\ up /\ engine.pc = "work"
        /\ \/ engine'.pc = "restoring" /\ job'["engine"].op = "resume"
           \/ engine'.pc = "safety" /\ job'["engine"] = SafetyPause
           \/ engine'.pc = "return" /\ job'["engine"] = job["engine"]
    <3> DEFINE j == [NewJob("resume", "global") EXCEPT
                       !.epoch = engine.base + 1, !.by = seen.grant]
    <3>1. \/ EngineGoto("restoring") /\ Spawn(j)
          \/ EngineGoto("safety") /\ Spawn(SafetyPause)
          \/ engine'.pc = "return" /\ UNCHANGED job
      BY <1>1, <1>12, EngineGoes, Zenon DEF CancelWork
    <3>2. Fresh(j) /\ j.op = "resume"
      BY SMT DEF Fresh, NewJob
    <3> HIDE DEF j
    <3>3. up /\ engine.pc = "work"
      BY <1>12 DEF CancelWork, EngineAt
    <3>4. CASE EngineGoto("restoring") /\ Spawn(j)
      BY <1>1, <3>2, <3>3, <3>4, PutFresh, EngineGoes, EngineAtRest, Zenon
    <3>5. CASE EngineGoto("safety") /\ Spawn(SafetyPause)
      BY <1>1, <3>3, <3>5, PutFresh, EngineGoes, TasksAreFresh, EngineAtRest,
         Zenon
    <3>6. CASE engine'.pc = "return" /\ UNCHANGED job
      BY <3>3, <3>6
    <3> QED
      BY <3>1, <3>4, <3>5, <3>6
  <2>2. job' = job \/ Starts("engine")
    BY <1>1, <1>12, EngineAtRest, PutFresh, TasksAreFresh, Zenon
    DEF CancelWork, EngineAt
  <2>3. UNCHANGED <<up, held, asked, life, db, app, risk, queue, seen>>
    BY <1>12, Zenon DEF CancelWork, around
  <2> QED
    BY <1>1, <1>12, <2>1, <2>2, <2>3, EngineAtRest, SMT
    DEF EngineMoves, EngineOps, NoJob, SafetyPause, NewJob, around, Apps, Seens,
        Risks, OldCommands
<1>13. CASE CancelRestored
  <2>1. /\ up /\ engine.pc = "restoring"
        /\ \/ engine'.pc = "return" /\ job'["engine"] = NoJob
           \/ engine'.pc = "safety" /\ job'["engine"] = SafetyPause
    BY <1>1, <1>13, EngineAtRest, PutFresh, TasksAreFresh, EngineGoes, Zenon
    DEF CancelRestored, EngineAt
  <2>2. job' = job \/ Starts("engine")
    BY <1>1, <1>13, EngineAtRest, PutFresh, TasksAreFresh, EngineGoes, Zenon
    DEF CancelRestored, EngineAt
  <2> QED
    BY <1>1, <1>13, <2>1, <2>2, EngineAtRest, SMT
    DEF CancelRestored, EngineMoves, EngineOps, NoJob, SafetyPause, NewJob,
        around, Apps, Seens, Risks, OldCommands
<1>14. CASE CancelSafety
  <2>1. /\ up /\ engine.pc = "safety"
        /\ engine'.pc = "return" /\ job'["engine"] = NoJob
    BY <1>1, <1>14, EngineAtRest, PutFresh, TasksAreFresh, EngineGoes, Zenon
    DEF CancelSafety, EngineAt
  <2>2. job' = job \/ Starts("engine")
    BY <1>1, <1>14, EngineAtRest, PutFresh, TasksAreFresh, EngineGoes, Zenon
    DEF CancelSafety, EngineAt
  <2> QED
    BY <1>1, <1>14, <2>1, <2>2, EngineAtRest, SMT
    DEF CancelSafety, EngineMoves, EngineOps, NoJob, SafetyPause, NewJob,
        around, Apps, Seens, Risks, OldCommands
<1>15. CASE CancelReturn
  <2>1. /\ up /\ engine.pc = "return"
        /\ \/ engine'.pc \in {"idle", "exited"} /\ job' = job
           \/ /\ engine'.pc = "saving"
              /\ Spawn([NewJob("save", "lock") EXCEPT !.mode = engine.target])
    <3>1. \/ \E pc \in {"idle", "exited"} : EngineGoto(pc) /\ UNCHANGED job
          \/ /\ Spawn([NewJob("save", "lock") EXCEPT !.mode = engine.target])
             /\ engine' = [engine EXCEPT !.pc = "saving",
                                         !.moved = engine.target # app.mode]
      BY <1>15, Zenon DEF CancelReturn
    <3>2. engine' = [engine EXCEPT !.pc = "saving",
                                   !.moved = engine.target # app.mode] =>
            engine'.pc = "saving"
      BY <1>1, SMT DEF Engines
    <3> QED
      BY <1>1, <1>15, <3>1, <3>2, EngineGoes DEF CancelReturn, EngineAt
  <2>2. job' = job \/ Starts("engine")
    BY <1>1, <1>15, EngineAtRest, PutFresh, TasksAreFresh, Zenon
    DEF CancelReturn, EngineAt
  <2>3. \/ job' = job /\ engine'.pc # "saving"
        \/ /\ engine'.pc = "saving"
           /\ job'["engine"].op = "save" /\ job'["engine"].mode = engine.target
    <3> DEFINE j == [NewJob("save", "lock") EXCEPT !.mode = engine.target]
    <3>1. Fresh(j) /\ j.op = "save" /\ j.mode = engine.target
      BY SMT DEF Fresh, NewJob
    <3>2. job["engine"].pc \in {"idle", "done"}
      BY <2>1, EngineAtRest
    <3>3. \/ engine'.pc \in {"idle", "exited"} /\ job' = job
          \/ engine'.pc = "saving" /\ Spawn(j)
      BY <2>1
    <3> HIDE DEF j
    <3>4. Spawn(j) => job'["engine"] = j
      BY <1>1, <3>1, <3>2, PutFresh
    <3> QED
      BY <3>1, <3>3, <3>4
  <2>4. /\ risk'.unsafe = risk.unsafe
        /\ risk'.cancelPending => risk.cancelPending
    <3>1. \/ risk' = risk
          \/ risk' = [risk EXCEPT !.cancelPending = @ /\ ~engine.ok,
                                  !.cancelQueued = FALSE]
      BY <1>15, Zenon DEF CancelReturn
    <3> QED
      BY <1>1, <3>1, Zenon DEF Risks
  <2>5. engine.target \in Modes
    BY <1>1, SMT DEF Engines
  <2>6. UNCHANGED <<up, held, asked, life, db, app, queue, seen>>
    BY <1>15, Zenon DEF CancelReturn, around
  <2> QED
    BY <1>1, <2>1, <2>2, <2>3, <2>4, <2>5, <2>6, EngineAtRest, SMT
    DEF EngineMoves, EngineOps, NoJob, SafetyPause, NewJob, around, Apps, Seens,
        Risks, OldCommands
<1>16. CASE ConfigSaved
  <2>1. /\ up /\ engine.pc = "saving"
        /\ \/ engine'.pc = "settle" /\ job'["engine"] = SafetyPause
           \/ engine'.pc = "begin" /\ job'["engine"] = NoJob
           \/ engine'.pc = "idle" /\ job'["engine"] = NoJob
    BY <1>1, <1>16, EngineAtRest, PutFresh, TasksAreFresh, EngineGoes, Zenon
    DEF ConfigSaved, EngineAt
  <2>2. job' = job \/ Starts("engine")
    BY <1>1, <1>16, EngineAtRest, PutFresh, TasksAreFresh, EngineGoes, Zenon
    DEF ConfigSaved, EngineAt
  <2> QED
    BY <1>1, <1>16, <2>1, <2>2, EngineAtRest, SMT
    DEF ConfigSaved, EngineMoves, EngineOps, NoJob, SafetyPause, NewJob, around,
        Apps, Seens, Risks, OldCommands
<1>17. CASE ConfigSettled
  <2>1. /\ up /\ engine.pc = "settle"
        /\ engine'.pc = "idle" /\ job'["engine"] = NoJob
    BY <1>1, <1>17, EngineAtRest, PutFresh, TasksAreFresh, EngineGoes, Zenon
    DEF ConfigSettled, EngineAt
  <2>2. job' = job \/ Starts("engine")
    BY <1>1, <1>17, EngineAtRest, PutFresh, TasksAreFresh, EngineGoes, Zenon
    DEF ConfigSettled, EngineAt
  <2> QED
    BY <1>1, <1>17, <2>1, <2>2, EngineAtRest, SMT
    DEF ConfigSettled, EngineMoves, EngineOps, NoJob, SafetyPause, NewJob,
        around, Apps, Seens, Risks, OldCommands
<1>18. CASE EngineStopPaused
  <2>0. engine'.pc \in {"begin", "exited"}
    BY <1>1, <1>18, SMT DEF EngineStopPaused, Engines
  <2>1. /\ up /\ engine.pc = "stopPausing"
        /\ \/ engine'.pc = "begin" /\ job'["engine"] = NoJob
           \/ engine'.pc = "exited" /\ job'["engine"] = NoJob
    BY <1>1, <1>18, <2>0, EngineAtRest, PutFresh, TasksAreFresh, EngineGoes,
       Zenon
    DEF EngineStopPaused, EngineAt
  <2>2. job' = job \/ Starts("engine")
    BY <1>1, <1>18, EngineAtRest, PutFresh, TasksAreFresh, EngineGoes, Zenon
    DEF EngineStopPaused, EngineAt
  <2> QED
    BY <1>1, <1>18, <2>1, <2>2, EngineAtRest, SMT
    DEF EngineStopPaused, EngineMoves, EngineOps, NoJob, SafetyPause, NewJob,
        around, Apps, Seens, Risks, OldCommands
<1> QED
  BY <1>2, <1>3, <1>4, <1>5, <1>6, <1>7, <1>8, <1>9, <1>10, <1>11, <1>12, <1>13,
     <1>14, <1>15, <1>16, <1>17, <1>18
  DEF EngineStep

-----------------------------------------------------------------------------
(* The requests, the coordinator, and the ends of a life.                   *)

\* A resume asks with the present epoch; what reaches the queue was asked.
RequestMoves ==
    /\ up /\ UNCHANGED <<up, app, held, risk, engine, life, db, seen>>
    /\ \/ job' = job
       \/ Starts("user") /\ job'["user"].op \in {"none", "pause"}
       \/ Starts("monitor") /\ job'["monitor"].op = "check"
    /\ \A m \in asked' :
         \/ m \in asked
         \/ m.kind = "resume" /\ m.epoch = app.pauseEpoch /\ m.by = seen.stops
    /\ \A i \in DOMAIN queue' :
         \/ \E k \in DOMAIN queue : queue'[i] = queue[k]
         \/ queue'[i] \in asked
         \/ queue'[i].kind \notin {"resume", "config"}
         \/ queue'[i].kind = "config" /\ queue'[i].mode \in Modes

\* What is appended to the queue is all that is new in it.
LEMMA AppendAdds ==
  ASSUME queue \in Seq(Messages), NEW m, queue' = Append(queue, m)
  PROVE  \A i \in DOMAIN queue' :
           (\E k \in DOMAIN queue : queue'[i] = queue[k]) \/ queue'[i] = m
BY SMT

\* Every step of the handlers and of the periodic check.
LEMMA RequestEffect ==
  ASSUME TaskInv,
         \/ MonitorTick \/ DispatchPause \/ DispatchResume
         \/ RequestPause \/ RequestResume \/ RequestCommand
  PROVE  RequestMoves
<1>1. job \in [Slots -> Jobs] /\ queue \in Seq(Messages)
  BY DEF TaskInv, TypeOK
<1>2. /\ "user" \in Slots /\ "monitor" \in Slots
      /\ Fresh(NoJob) /\ Fresh(SafetyPause) /\ Fresh(NewJob("check", "global"))
      /\ NoJob.op = "none" /\ SafetyPause.op = "pause"
      /\ NewJob("check", "global").op = "check"
  BY SMT DEF Slots, Fresh, NoJob, SafetyPause, NewJob
<1>3. queue' = queue => \A i \in DOMAIN queue' : i \in DOMAIN queue /\ queue'[i] = queue[i]
  OBVIOUS
<1>4. CASE MonitorTick
  <2>1. Starts("monitor") /\ job'["monitor"].op = "check"
    BY <1>1, <1>2, <1>4, PutStarts DEF MonitorTick
  <2> QED
    BY <1>3, <1>4, <2>1 DEF MonitorTick, RequestMoves, outside
<1>5. CASE DispatchPause
  <2>1. Starts("user") /\ job'["user"].op \in {"none", "pause"}
    BY <1>1, <1>2, <1>5, PutStarts DEF DispatchPause, At
  <2>2. Message("pauseDone", AnyMode).kind = "pauseDone"
    BY DEF Message
  <2>3. queue' = queue \/ queue' = Append(queue, Message("pauseDone", AnyMode))
    BY <1>5, Zenon DEF DispatchPause
  <2> HIDE DEF Message
  <2> QED
    BY <1>1, <1>3, <1>5, <2>1, <2>2, <2>3, AppendAdds
    DEF DispatchPause, RequestMoves, At, around
<1>6. CASE DispatchResume
  <2>1. queue' = queue \/ \E m \in asked : queue' = Append(queue, m)
    BY <1>6, Zenon DEF DispatchResume
  <2> QED
    BY <1>1, <1>3, <1>6, <2>1, AppendAdds DEF DispatchResume, RequestMoves
<1>7. CASE RequestPause
  <2>1. Starts("user") /\ job'["user"].op \in {"none", "pause"}
    BY <1>1, <1>2, <1>7, PutStarts DEF RequestPause
  <2> QED
    BY <1>3, <1>7, <2>1 DEF RequestPause, RequestMoves, Input, outside
<1>8. CASE RequestResume
  BY <1>3, <1>8 DEF RequestResume, RequestMoves, Input
<1>9. CASE RequestCommand
  <2>1. PICK kind \in {"rebalance", "config"}, mode \in Modes :
          queue' = Append(queue, Message(kind, mode))
    BY <1>9 DEF RequestCommand
  <2>2. Message(kind, mode).kind = kind /\ Message(kind, mode).mode = mode
    BY DEF Message
  <2> HIDE DEF Message
  <2>3. up /\ UNCHANGED <<up, app, held, job, risk, engine, asked, life, db, seen>>
    BY <1>9 DEF RequestCommand, Input, around
  <2> QED
    BY <1>1, <2>1, <2>2, <2>3, AppendAdds DEF RequestMoves
<1> QED
  BY <1>4, <1>5, <1>6, <1>7, <1>8, <1>9

\* A shutdown begins with its pause.
LEMMA ShutdownEffect ==
  ASSUME TaskInv, Shutdown
  PROVE  /\ up /\ life = "none" /\ life' = "pausing"
         /\ UNCHANGED <<up, held, risk, engine, queue, asked, db, seen>>
         /\ Starts("stop") /\ job'["stop"].op = "stopPause"
         /\ job'["stop"].pc = "global"
         /\ app'.status = app.status /\ app'.mode = app.mode
         /\ app'.safetyEpoch = app.safetyEpoch /\ app'.pending = app.pending
         /\ app'.eligible = app.eligible /\ app'.cleared = app.cleared
         /\ app'.pauseEpoch = app.pauseEpoch + 1 /\ app'.stopping
<1> DEFINE j == NewJob("stopPause", "global")
<1>1. Fresh(j) /\ j.op = "stopPause" /\ j.pc = "global"
  BY SMT DEF Fresh, NewJob
<1>2. job["stop"].pc = "idle" /\ "stop" \in Slots
  BY SMT DEF TaskInv, LifeInv, ShapeInv, PcsOf, Shutdown, Slots
<1>3. job' = [job EXCEPT !["stop"] = j] /\ job \in [Slots -> Jobs]
  BY DEF Shutdown, TaskInv, TypeOK
<1> HIDE DEF j
<1>4. Starts("stop") /\ job'["stop"] = j
  BY <1>1, <1>2, <1>3, PutStarts
<1> QED
  BY <1>1, <1>4, SMT DEF Shutdown, Input, TaskInv, TypeOK

\* A shutdown that fails starts its last pause and aborts the engine.
LifeFails ==
    /\ life \in {"pausing", "waiting"} /\ life' = "failing"
    /\ Starts("final") /\ job'["final"] = SafetyPause
    /\ engine'.pc = "dead" /\ queue' = queue

\* A failed shutdown leaves the engine dead and starts the failure pause.
LEMMA LifeFailEffect ==
  ASSUME TaskInv, LifeFail, life \in {"pausing", "waiting"}, queue' = queue
  PROVE  LifeFails
<1>1. Fresh(SafetyPause)
  BY SMT DEF Fresh, SafetyPause, NewJob
<1>2. job["final"].pc = "idle" /\ "final" \in Slots
  BY SMT DEF TaskInv, LifeInv, ShapeInv, PcsOf, Slots
<1>3. Starts("final") /\ job'["final"] = SafetyPause
  BY <1>1, <1>2, PutStarts DEF LifeFail, TaskInv, TypeOK
<1>4. engine'.pc = "dead"
  BY EngineGoes DEF LifeFail, TaskInv, TypeOK
<1> QED
  BY <1>3, <1>4 DEF LifeFails, LifeFail

\* The steps of the coordinator while the process goes on.
LEMMA LifeEffect ==
  ASSUME TaskInv, LifePaused \/ LifeReplied \/ Deadline
  PROVE  /\ up /\ UNCHANGED <<up, app, held, risk, asked, db, seen>>
         /\ \/ LifeFails
            \/ /\ life = "pausing" /\ life' = "waiting"
               /\ job["stop"].pc = "done" /\ job["stop"].ok
               /\ UNCHANGED <<job, engine>> /\ OldCommands
            \/ /\ life = "waiting" /\ life' = "finishing"
               /\ engine.pc = "exited" /\ UNCHANGED <<engine, queue>>
               /\ Starts("final") /\ job'["final"].op = "commit"
               /\ job'["final"].pc = "global"
<1>1. job \in [Slots -> Jobs] /\ queue \in Seq(Messages)
  BY DEF TaskInv, TypeOK
<1>2. CASE LifePaused /\ job["stop"].ok
  <2>1. Message("shutdown", AnyMode).kind = "shutdown"
    BY DEF Message
  <2> HIDE DEF Message
  <2>2. OldCommands
    BY <1>1, <1>2, <2>1, AppendIsOld DEF LifePaused
  <2> QED
    BY <1>2, <2>2 DEF LifePaused
<1>3. CASE LifePaused /\ ~job["stop"].ok
  BY <1>3, LifeFailEffect DEF LifePaused
<1>4. CASE LifeReplied
  <2>1. CASE LifeFail
    BY <1>4, <2>1, LifeFailEffect DEF LifeReplied, EngineAt
  <2>2. CASE ~LifeFail
    <3> DEFINE j == NewJob("commit", "global")
    <3>1. Fresh(j) /\ j.op = "commit" /\ j.pc = "global"
      BY SMT DEF Fresh, NewJob
    <3>2. job["final"].pc = "idle" /\ "final" \in Slots
      BY <1>4, SMT DEF TaskInv, LifeInv, ShapeInv, PcsOf, Slots, LifeReplied
    <3>3. /\ job' = [job EXCEPT !["final"] = j]
          /\ life' = "finishing" /\ UNCHANGED engine
      BY <1>4, <2>2, Zenon DEF LifeReplied
    <3> HIDE DEF j
    <3>4. Starts("final") /\ job'["final"] = j
      BY <1>1, <3>1, <3>2, <3>3, PutStarts
    <3> QED
      BY <1>4, <3>1, <3>3, <3>4 DEF LifeReplied, EngineAt
  <2> QED
    BY <2>1, <2>2
<1>5. CASE Deadline
  BY <1>5, LifeFailEffect DEF Deadline, Input
<1> QED
  BY <1>2, <1>3, <1>4, <1>5

\* The end of a life.
LEMMA DownEffect ==
  ASSUME Exit \/ Crash
  PROVE  GoDown
BY DEF Exit, Crash

-----------------------------------------------------------------------------
(* Types.                                                                   *)

\* Tasks have their types, and so do they after a step.
LEMMA TaskTypes ==
  /\ \A op \in Ops, pc \in JobPcs : NewJob(op, pc) \in Jobs
  /\ NoJob \in Jobs /\ SafetyPause \in Jobs
  /\ \A m \in Modes : [NewJob("save", "lock") EXCEPT !.mode = m] \in Jobs
  /\ \A e, b \in Nat :
       [NewJob("resume", "global") EXCEPT !.epoch = e, !.by = b] \in Jobs
  /\ \A e, b \in Nat, m \in Modes :
       [NewJob("resume", "global") EXCEPT !.epoch = e, !.by = b, !.mode = m]
         \in Jobs
<1>1. /\ {"none", "save", "resume", "pause"} \subseteq Ops
      /\ {"idle", "lock", "global", "admit"} \subseteq JobPcs
  BY DEF Ops, JobPcs
<1>2. \A op \in Ops, pc \in JobPcs : NewJob(op, pc) \in Jobs
  BY SMT DEF NewJob, Jobs
<1>3. NoJob \in Jobs /\ SafetyPause \in Jobs
  BY <1>1, <1>2 DEF NoJob, SafetyPause
<1>4. ASSUME NEW j \in Jobs
      PROVE  /\ \A m \in Modes : [j EXCEPT !.mode = m] \in Jobs
             /\ \A e, b \in Nat : [j EXCEPT !.epoch = e, !.by = b] \in Jobs
             /\ \A e, b \in Nat, m \in Modes :
                  [j EXCEPT !.epoch = e, !.by = b, !.mode = m] \in Jobs
  <2>1. ASSUME NEW e \in Nat, NEW b \in Nat
        PROVE  [j EXCEPT !.epoch = e, !.by = b] \in Jobs
    BY Zenon DEF Jobs
  <2>2. ASSUME NEW m \in Modes
        PROVE  [j EXCEPT !.mode = m] \in Jobs
    BY Zenon DEF Jobs
  <2>3. ASSUME NEW e \in Nat, NEW b \in Nat, NEW m \in Modes
        PROVE  [j EXCEPT !.epoch = e, !.by = b, !.mode = m] \in Jobs
    BY Zenon DEF Jobs
  <2> QED
    BY <2>1, <2>2, <2>3
<1>5. NewJob("save", "lock") \in Jobs /\ NewJob("resume", "global") \in Jobs
  BY <1>1, <1>2
<1> QED
  BY <1>2, <1>3, <1>4, <1>5, Zenon

\* The changes a step makes to the tasks keep the type of the tasks.
LEMMA StepTypes ==
  ASSUME job \in [Slots -> Jobs], NEW s \in Slots
  PROVE  /\ \A pc \in JobPcs : Goto(s, pc) => job' \in [Slots -> Jobs]
         /\ \A ok \in BOOLEAN : Finish(s, ok) => job' \in [Slots -> Jobs]
         /\ \A j \in Jobs : job' = [job EXCEPT ![s] = j] => job' \in [Slots -> Jobs]
<1>1. "done" \in JobPcs
  BY DEF JobPcs
<1>2. ASSUME NEW pc \in JobPcs, Goto(s, pc)
      PROVE  job' \in [Slots -> Jobs]
  BY <1>2, Zenon DEF Goto, Jobs
<1>3. ASSUME NEW ok \in BOOLEAN, Finish(s, ok)
      PROVE  job' \in [Slots -> Jobs]
  BY <1>1, <1>3, Zenon DEF Finish, Jobs
<1>4. ASSUME NEW j \in Jobs, job' = [job EXCEPT ![s] = j]
      PROVE  job' \in [Slots -> Jobs]
  BY <1>4
<1> QED
  BY <1>2, <1>3, <1>4

\* Every step leaves well-formed tasks.
LEMMA JobType ==
  ASSUME TypeOK, Next
  PROVE  job' \in [Slots -> Jobs]
<1>1. /\ job \in [Slots -> Jobs] /\ app \in Apps /\ seen \in Seens
      /\ queue \in Seq(Messages) /\ engine \in Engines
  BY DEF TypeOK, Apps, Seens
<1>2. /\ {"engine", "user", "monitor", "nested", "stop", "final"} \subseteq Slots
      /\ {"done", "lock", "write", "close", "global", "checking", "checked",
          "admit", "install", "clear"} \subseteq JobPcs
      /\ {"silentPause", "stopPause", "commit", "check"} \subseteq Ops
  BY DEF Slots, JobPcs, Ops
<1>3. ASSUME NEW s \in Slots, TaskStep(s) PROVE job' \in [Slots -> Jobs]
<2>1. CASE PauseAdmit(s)
    BY <1>1, <1>2, <2>1, StepTypes, TaskTypes, Zenon DEF PauseAdmit
<2>2. CASE PauseLock(s)
    BY <1>1, <1>2, <2>2, StepTypes, TaskTypes, Zenon DEF PauseLock
<2>3. CASE PauseWrite(s)
    <3>1. PICK ok \in BOOLEAN : job' = [job EXCEPT ![s].pc = "close", ![s].ok = ok]
      BY <2>3, Zenon DEF PauseWrite
    <3> QED
      BY <1>1, <1>2, <3>1, Zenon DEF Jobs
<2>4. CASE PauseClose(s)
    BY <1>1, <1>2, <2>4, StepTypes, TaskTypes, Zenon DEF PauseClose
<2>5. CASE SilentLock(s)
    BY <1>1, <1>2, <2>5, StepTypes, TaskTypes, Zenon DEF SilentLock
<2>6. CASE SilentWrite(s)
    BY <1>1, <1>2, <2>6, StepTypes, TaskTypes, Zenon DEF SilentWrite
<2>7. CASE GlobalCheck(s)
    <3>1. \/ job' = [job EXCEPT ![s].pc = "checked"]
          \/ job' = [job EXCEPT ![s].pc = "checking", !["nested"] = SafetyPause]
      BY <2>7, Zenon DEF GlobalCheck
    <3>2. ASSUME NEW pc \in JobPcs
          PROVE  [job EXCEPT ![s].pc = pc] \in [Slots -> Jobs]
      BY <1>1, Zenon DEF Jobs
    <3> QED
      BY <1>1, <1>2, <3>1, <3>2, TaskTypes, Zenon
<2>8. CASE CheckPaused(s)
    <3>1. ASSUME NEW pc \in JobPcs
          PROVE  [job EXCEPT ![s].pc = pc] \in [Slots -> Jobs]
      BY <1>1, Zenon DEF Jobs
    <3> QED
      BY <1>1, <1>2, <2>8, <3>1, TaskTypes, Zenon DEF CheckPaused
<2>9. CASE Checked(s)
    <3>1. \/ job' = [job EXCEPT ![s] = NoJob] \/ Finish(s, FALSE)
          \/ Goto(s, "lock") \/ Goto(s, "admit")
      BY <2>9, Zenon DEF Checked
    <3> QED
      BY <1>1, <1>2, <3>1, StepTypes, TaskTypes, Zenon
<2>10. CASE ResumeLock(s)
    BY <1>1, <1>2, <2>10, StepTypes, TaskTypes, Zenon DEF ResumeLock
<2>11. CASE ResumeWrite(s)
    BY <1>1, <1>2, <2>11, StepTypes, TaskTypes, Zenon DEF ResumeWrite
<2>12. CASE ResumeInstall(s)
    BY <1>1, <1>2, <2>12, StepTypes, TaskTypes, Zenon DEF ResumeInstall
<2>13. CASE StopLock(s)
    BY <1>1, <1>2, <2>13, StepTypes, TaskTypes, Zenon DEF StopLock
<2>14. CASE StopWrite(s)
    BY <1>1, <1>2, <2>14, StepTypes, TaskTypes, Zenon DEF StopWrite
<2>15. CASE CommitAdmit(s)
    BY <1>1, <1>2, <2>15, StepTypes, TaskTypes, Zenon DEF CommitAdmit
<2>16. CASE CommitLock(s)
    <3>1. CASE app.pending # 0
      <4>1. Finish(s, FALSE)
        BY <2>16, <3>1, Zenon DEF CommitLock
      <4> QED
        BY <1>1, <4>1, StepTypes
    <3>2. CASE app.pending = 0
      <4>1. PICK pc \in {"write", "clear"} :
              job' = [job EXCEPT ![s].pc = pc, ![s].epoch = app.safetyEpoch]
        BY <2>16, <3>2, SMT DEF CommitLock
      <4>2. app.safetyEpoch \in Nat /\ pc \in JobPcs
        BY <1>1, <1>2, <4>1 DEF Apps
      <4> QED
        BY <1>1, <4>1, <4>2, Zenon DEF Jobs
    <3> QED
      BY <3>1, <3>2
<2>17. CASE CommitWrite(s)
    BY <1>1, <1>2, <2>17, StepTypes, TaskTypes, Zenon DEF CommitWrite
<2>18. CASE CommitClear(s)
    BY <1>1, <1>2, <2>18, StepTypes, TaskTypes, Zenon DEF CommitClear
<2>19. CASE SaveLock(s)
    BY <1>1, <1>2, <2>19, StepTypes, TaskTypes, Zenon DEF SaveLock
<2>20. CASE SaveWrite(s)
    BY <1>1, <1>2, <2>20, StepTypes, TaskTypes, Zenon DEF SaveWrite
<2>21. CASE SaveInstall(s)
    BY <1>1, <1>2, <2>21, StepTypes, TaskTypes, Zenon DEF SaveInstall
  <2> QED
    BY <1>3, <2>1, <2>2, <2>3, <2>4, <2>5, <2>6, <2>7, <2>8, <2>9, <2>10, <2>11,
       <2>12, <2>13, <2>14, <2>15, <2>16, <2>17, <2>18, <2>19, <2>20, <2>21
    DEF TaskStep
<1>4. CASE EngineBoot
  BY <1>1, <1>2, <1>4, StepTypes, TaskTypes, Zenon DEF EngineBoot, Spawn
<1>5. CASE EngineBootFailed
  BY <1>1, <1>2, <1>5, StepTypes, TaskTypes, Zenon DEF EngineBootFailed, Spawn
<1>6. CASE EngineBootCheck
  BY <1>1, <1>2, <1>6, StepTypes, TaskTypes, Zenon DEF EngineBootCheck, Spawn
<1>7. CASE Receive
  <2>1. app.mode \in Modes /\ Head(queue) \in Messages
    BY <1>1, <1>7, ReceiveEffect, SMT DEF Apps
  <2>2. Head(queue).epoch \in Nat /\ Head(queue).by \in Nat
    BY <2>1 DEF Messages
  <2>3. \/ UNCHANGED job
        \/ Spawn(NewJob("stopPause", "global"))
        \/ Spawn([NewJob("resume", "global") EXCEPT
                    !.epoch = Head(queue).epoch, !.by = Head(queue).by,
                    !.mode = app.mode])
        \/ Spawn([NewJob("save", "lock") EXCEPT !.mode = app.mode])
    BY <1>7, ReceiveEffect, Zenon DEF Stops, Resumes, Saves, Begins
  <2> QED
    BY <1>1, <1>2, <2>1, <2>2, <2>3, StepTypes, TaskTypes, Zenon DEF Spawn
<1>8. CASE EngineResumed
  BY <1>1, <1>2, <1>8, StepTypes, TaskTypes, Zenon DEF EngineResumed, Spawn
<1>9. CASE EngineLimit
  BY <1>1, <1>2, <1>9, StepTypes, TaskTypes, Zenon DEF EngineLimit, Spawn
<1>10. CASE EngineLimitPaused
  BY <1>1, <1>2, <1>10, StepTypes, TaskTypes, Zenon DEF EngineLimitPaused, Spawn
<1>11. CASE CancelBegin
  BY <1>1, <1>2, <1>11, StepTypes, TaskTypes, Zenon DEF CancelBegin, Spawn
<1>12. CASE CancelRead
  BY <1>1, <1>2, <1>12, StepTypes, TaskTypes, Zenon DEF CancelRead, Spawn
<1>13. CASE CancelPaused
  BY <1>1, <1>2, <1>13, StepTypes, TaskTypes, Zenon DEF CancelPaused, Spawn
<1>14. CASE CancelWork
  <2>1. engine.base + 1 \in Nat /\ seen.grant \in Nat
    BY <1>1, SMT DEF Engines, Seens
  <2> QED
    BY <1>1, <1>2, <1>14, <2>1, StepTypes, TaskTypes, Zenon
    DEF CancelWork, Spawn
<1>15. CASE CancelRestored
  BY <1>1, <1>2, <1>15, StepTypes, TaskTypes, Zenon DEF CancelRestored, Spawn
<1>16. CASE CancelSafety
  BY <1>1, <1>2, <1>16, StepTypes, TaskTypes, Zenon DEF CancelSafety, Spawn
<1>17. CASE CancelReturn
  <2>1. engine.target \in Modes
    BY <1>1 DEF Engines
  <2> QED
    BY <1>1, <1>2, <1>17, <2>1, StepTypes, TaskTypes, Zenon
    DEF CancelReturn, Spawn
<1>18. CASE ConfigSaved
  BY <1>1, <1>2, <1>18, StepTypes, TaskTypes, Zenon DEF ConfigSaved, Spawn
<1>19. CASE ConfigSettled
  BY <1>1, <1>2, <1>19, StepTypes, TaskTypes, Zenon DEF ConfigSettled, Spawn
<1>20. CASE EngineStopPaused
  BY <1>1, <1>2, <1>20, StepTypes, TaskTypes, Zenon DEF EngineStopPaused, Spawn
<1>21. CASE MonitorTick
  BY <1>1, <1>2, <1>21, StepTypes, TaskTypes, Zenon DEF MonitorTick
<1>22. CASE DispatchPause
  BY <1>1, <1>2, <1>22, StepTypes, TaskTypes, Zenon DEF DispatchPause
<1>23. CASE DispatchResume
  BY <1>1, <1>2, <1>23, StepTypes, TaskTypes, Zenon DEF DispatchResume
<1>24. CASE RequestPause
  BY <1>1, <1>2, <1>24, StepTypes, TaskTypes, Zenon DEF RequestPause
<1>25. CASE RequestResume
  BY <1>1, <1>2, <1>25, StepTypes, TaskTypes, Zenon DEF RequestResume
<1>26. CASE RequestCommand
  BY <1>1, <1>2, <1>26, StepTypes, TaskTypes, Zenon DEF RequestCommand
<1>27. CASE Shutdown
  BY <1>1, <1>2, <1>27, StepTypes, TaskTypes, Zenon DEF Shutdown
<1>28. CASE LifePaused
  BY <1>1, <1>2, <1>28, StepTypes, TaskTypes, Zenon DEF LifePaused, LifeFail
<1>29. CASE LifeReplied
  BY <1>1, <1>2, <1>29, StepTypes, TaskTypes, Zenon DEF LifeReplied, LifeFail
<1>30. CASE Deadline
  BY <1>1, <1>2, <1>30, StepTypes, TaskTypes, Zenon DEF Deadline, LifeFail
<1>31. CASE Exit \/ Crash
  BY <1>31, DownEffect, TaskTypes, Zenon DEF GoDown
<1>32. CASE Boot
  BY <1>1, <1>32 DEF Boot
<1> QED
  BY <1>3, <1>4, <1>5, <1>6, <1>7, <1>8, <1>9, <1>10, <1>11, <1>12, <1>13,
     <1>14, <1>15, <1>16, <1>17, <1>18, <1>19, <1>20, <1>21, <1>22, <1>23,
     <1>24, <1>25, <1>26, <1>27, <1>28, <1>29, <1>30, <1>31, <1>32
  DEF Next, EngineStep, LifeStep

\* Every step leaves a well-formed application state.
LEMMA AppType ==
  ASSUME TypeOK, ShapeInv, JobInv, PendInv, Next
  PROVE  app' \in Apps
<1>1. app \in Apps /\ queue \in Seq(Messages)
  BY DEF TypeOK, Apps
<1>2. /\ {"Paused", "Running"} \subseteq Statuses /\ "PAPER" \in Modes
      /\ app.pauseEpoch + 1 \in Nat /\ app.safetyEpoch + 1 \in Nat
      /\ app.pending + 1 \in Nat /\ 0 \in Nat
      /\ {} \in SUBSET Nat /\ {app.safetyEpoch} \in SUBSET Nat
      /\ {TRUE, FALSE} \subseteq BOOLEAN
  BY <1>1, SMT DEF Apps, Statuses, Modes
<1>3. ASSUME NEW s \in Slots, TaskStep(s) PROVE app' \in Apps
  <2>1. CASE PauseAdmit(s)
    BY <1>1, <1>2, <2>1, Zenon DEF PauseAdmit, Apps
  <2>2. CASE PauseLock(s)
    BY <1>1, <1>2, <2>2, Zenon DEF PauseLock, Apps
  <2>3. CASE PauseClose(s)
    <3>1. app.pending - 1 \in Nat
      BY <1>1, <2>3, SMT
      DEF PauseClose, At, PendInv, Pending, ShapeInv, OpsOf, Apps, Slots
    <3> QED
      BY <1>1, <1>2, <2>3, <3>1, Zenon DEF PauseClose, Apps
  <2>4. CASE SilentLock(s)
    BY <1>1, <1>2, <2>4, Zenon DEF SilentLock, Apps
  <2>5. CASE Checked(s)
    BY <1>1, <1>2, <2>5, Zenon DEF Checked, Apps
  <2>6. CASE ResumeInstall(s)
    BY <1>1, <1>2, <2>6, Zenon DEF ResumeInstall, Apps
  <2>7. CASE StopLock(s)
    BY <1>1, <1>2, <2>7, Zenon DEF StopLock, Apps
  <2>8. CASE StopWrite(s)
    BY <1>1, <1>2, <2>8, Zenon DEF StopWrite, Apps
  <2>9. CASE CommitLock(s)
    BY <1>1, <1>2, <2>9, Zenon DEF CommitLock, Apps
  <2>10. CASE CommitClear(s)
    BY <1>1, <1>2, <2>10, Zenon DEF CommitClear, Apps
  <2>11. CASE SaveInstall(s)
    <3>1. job[s].mode \in Modes
      BY <2>11, SMT
      DEF SaveInstall, At, ShapeInv, OpsOf, JobInv, EngineTask, Slots
    <3> QED
      BY <1>1, <1>2, <2>11, <3>1, Zenon DEF SaveInstall, Apps
  <2> QED
    BY <1>3, <2>1, <2>2, <2>3, <2>4, <2>5, <2>6, <2>7, <2>8, <2>9, <2>10, <2>11,
       <1>1
    DEF TaskStep, PauseWrite, SilentWrite, GlobalCheck, CheckPaused, ResumeLock,
        ResumeWrite, CommitAdmit, CommitWrite, SaveLock, SaveWrite, outside
<1>4. CASE Receive
  BY <1>1, <1>2, <1>4, ReceiveEffect, Zenon
  DEF Stops, Resumes, Saves, Begins, Apps
<1>5. CASE CancelRead
  BY <1>1, <1>2, <1>5, Zenon DEF CancelRead, Apps
<1>6. CASE Shutdown
  BY <1>1, <1>2, <1>6, Zenon DEF Shutdown, Apps
<1>7. CASE Exit \/ Crash
  <2>1. app' = NewApp("Paused", "PAPER")
    BY <1>7, DownEffect DEF GoDown
  <2> QED
    BY <2>1, SMT DEF NewApp, Apps, Statuses, Modes
<1>8. CASE Boot
  BY <1>1, <1>2, <1>8, SMT
  DEF Boot, NewApp, Apps, StartStatus, SavedStatus, TypeOK, Statuses
<1> QED
  BY <1>1, <1>3, <1>4, <1>5, <1>6, <1>7, <1>8
  DEF Next, EngineStep, LifeStep, EngineBoot, EngineBootFailed, EngineBootCheck,
      EngineResumed, EngineLimit, EngineLimitPaused, CancelBegin, CancelPaused,
      CancelWork, CancelRestored, CancelSafety, CancelReturn, ConfigSaved,
      ConfigSettled, EngineStopPaused, MonitorTick, DispatchPause,
      DispatchResume, RequestPause, RequestResume, RequestCommand, LifePaused,
      LifeReplied, Deadline, outside, around

\* Every step leaves each lock free or with a holder.
LEMMA HeldType ==
  ASSUME TypeOK, Next
  PROVE  held' \in Holders
<1>1. held \in Holders
  BY DEF TypeOK, Holders
<1>2. {"status", "global", "admission"} \subseteq Locks
  BY DEF Locks
<1>3. ASSUME NEW s \in Slots, TaskStep(s) PROVE held' \in Holders
  <2>1. CASE PauseLock(s)
    BY <1>1, <1>2, <2>1, Zenon
      DEF PauseLock, Release, Holders
  <2>2. CASE PauseWrite(s)
    BY <1>1, <1>2, <2>2, Zenon
      DEF PauseWrite, Release, Holders
  <2>3. CASE SilentLock(s)
    BY <1>1, <1>2, <2>3, Zenon
      DEF SilentLock, Release, Holders
  <2>4. CASE SilentWrite(s)
    BY <1>1, <1>2, <2>4, Zenon
      DEF SilentWrite, Release, Holders
  <2>5. CASE GlobalCheck(s)
    BY <1>1, <1>2, <2>5, Zenon
      DEF GlobalCheck, Release, Holders
  <2>6. CASE Checked(s)
    BY <1>1, <1>2, <2>6, Zenon
      DEF Checked, Release, Holders
  <2>7. CASE ResumeLock(s)
    BY <1>1, <1>2, <2>7, Zenon
      DEF ResumeLock, Release, Holders
  <2>8. CASE ResumeWrite(s)
    BY <1>1, <1>2, <2>8, Zenon
      DEF ResumeWrite, Release, Holders
  <2>9. CASE ResumeInstall(s)
    BY <1>1, <1>2, <2>9, Zenon
      DEF ResumeInstall, Release, Holders
  <2>10. CASE StopLock(s)
    BY <1>1, <1>2, <2>10, Zenon
      DEF StopLock, Release, Holders
  <2>11. CASE StopWrite(s)
    BY <1>1, <1>2, <2>11, Zenon
      DEF StopWrite, Release, Holders
  <2>12. CASE CommitAdmit(s)
    BY <1>1, <1>2, <2>12, Zenon
      DEF CommitAdmit, Release, Holders
  <2>13. CASE CommitLock(s)
    BY <1>1, <1>2, <2>13, Zenon
      DEF CommitLock, Release, Holders
  <2>14. CASE CommitWrite(s)
    BY <1>1, <1>2, <2>14, Zenon
      DEF CommitWrite, Release, Holders
  <2>15. CASE CommitClear(s)
    BY <1>1, <1>2, <2>15, Zenon
      DEF CommitClear, Release, Holders
  <2>16. CASE SaveLock(s)
    BY <1>1, <1>2, <2>16, Zenon
      DEF SaveLock, Release, Holders
  <2>17. CASE SaveWrite(s)
    BY <1>1, <1>2, <2>17, Zenon
      DEF SaveWrite, Release, Holders
  <2>18. CASE SaveInstall(s)
    BY <1>1, <1>2, <2>18, Zenon
      DEF SaveInstall, Release, Holders
  <2> QED
    BY <1>3, <2>1, <2>2, <2>3, <2>4, <2>5, <2>6, <2>7, <2>8, <2>9, <2>10, <2>11,
       <2>12, <2>13, <2>14, <2>15, <2>16, <2>17, <2>18, <1>1
    DEF TaskStep, PauseAdmit, PauseClose, CheckPaused, outside
<1>4. CASE Exit \/ Crash
  BY <1>4, DownEffect, Zenon DEF GoDown, Holders
<1>5. CASE Boot
  BY <1>1, <1>5 DEF Boot
<1> QED
  BY <1>1, <1>3, <1>4, <1>5
  DEF Next, EngineStep, LifeStep, EngineBoot, EngineBootFailed, EngineBootCheck,
      Receive, EngineResumed, EngineLimit, EngineLimitPaused, CancelBegin,
      CancelRead, CancelPaused, CancelWork, CancelRestored, CancelSafety,
      CancelReturn, ConfigSaved, ConfigSettled, EngineStopPaused, MonitorTick,
      DispatchPause, DispatchResume, RequestPause, RequestResume,
      RequestCommand, Shutdown, LifePaused, LifeReplied, Deadline, outside,
      around

\* Every step leaves a well-formed risk state.
LEMMA RiskType ==
  ASSUME TypeOK, Next
  PROVE  risk' \in Risks
<1>1. risk \in Risks
  BY DEF TypeOK, Risks
<1>2. risk.unsafe \in BOOLEAN /\ risk.cancelPending \in BOOLEAN
  BY <1>1, Zenon DEF Risks
<1>3. ASSUME NEW s \in Slots, TaskStep(s) PROVE risk' \in Risks
  <2>1. CASE GlobalCheck(s)
    <3>1. PICK unsafe \in BOOLEAN :
            risk' = [risk EXCEPT !.unsafe = unsafe,
                       !.cancelPending = @ \/ (unsafe /\ (~risk.unsafe \/ app.status = "Running"))]
      BY <2>1, Zenon DEF GlobalCheck
    <3> QED
      BY <1>1, <1>2, <3>1, Zenon DEF Risks
  <2>2. CASE Checked(s)
    BY <1>1, <1>2, <2>2, Zenon DEF Checked, QueueGlobalCancel, Risks
  <2> QED
    BY <1>3, <2>1, <2>2, <1>1
    DEF TaskStep, PauseAdmit, PauseLock, PauseWrite, PauseClose, SilentLock,
        SilentWrite, CheckPaused, ResumeLock, ResumeWrite, ResumeInstall,
        StopLock, StopWrite, CommitAdmit, CommitLock, CommitWrite, CommitClear,
        SaveLock, SaveWrite, SaveInstall, outside
<1>4. CASE CancelReturn
  BY <1>1, <1>2, <1>4, Zenon DEF CancelReturn, Risks
<1>5. CASE Exit \/ Crash
  <2>1. risk' = NoRisk
    BY <1>5, DownEffect DEF GoDown
  <2> QED
    BY <2>1, SMT DEF NoRisk, Risks
<1>6. CASE Boot
  BY <1>1, <1>6 DEF Boot
<1> QED
  BY <1>1, <1>3, <1>4, <1>5, <1>6
  DEF Next, EngineStep, LifeStep, EngineBoot, EngineBootFailed, EngineBootCheck,
      Receive, EngineResumed, EngineLimit, EngineLimitPaused, CancelBegin,
      CancelRead, CancelPaused, CancelWork, CancelRestored, CancelSafety,
      ConfigSaved, ConfigSettled, EngineStopPaused, MonitorTick, DispatchPause,
      DispatchResume, RequestPause, RequestResume, RequestCommand, Shutdown,
      LifePaused, LifeReplied, Deadline, outside, around

\* Every step leaves the coordinator in one of its phases.
LEMMA LifeType ==
  ASSUME TypeOK, Next
  PROVE  life' \in Lives
<1>1. life \in Lives
  BY DEF TypeOK, Lives
<1>2. {"none", "pausing", "waiting", "finishing", "failing"} \subseteq Lives
  BY DEF Lives
<1>3. ASSUME NEW s \in Slots, TaskStep(s) PROVE life' \in Lives
  <2> QED
    BY <1>3, <1>1
    DEF TaskStep, PauseAdmit, PauseLock, PauseWrite, PauseClose, SilentLock,
        SilentWrite, GlobalCheck, CheckPaused, Checked, ResumeLock, ResumeWrite,
        ResumeInstall, StopLock, StopWrite, CommitAdmit, CommitLock,
        CommitWrite, CommitClear, SaveLock, SaveWrite, SaveInstall, outside
<1>4. CASE Shutdown
  BY <1>1, <1>2, <1>4, Zenon
    DEF Shutdown, LifeFail
<1>5. CASE LifePaused
  BY <1>1, <1>2, <1>5, Zenon
    DEF LifePaused, LifeFail
<1>6. CASE LifeReplied
  BY <1>1, <1>2, <1>6, Zenon
    DEF LifeReplied, LifeFail
<1>7. CASE Deadline
  BY <1>1, <1>2, <1>7, Zenon
    DEF Deadline, LifeFail
<1>8. CASE Exit \/ Crash
  BY <1>2, <1>8, DownEffect DEF GoDown
<1>9. CASE Boot
  BY <1>1, <1>9 DEF Boot
<1> QED
  BY <1>1, <1>3, <1>4, <1>5, <1>6, <1>7, <1>8, <1>9
  DEF Next, EngineStep, LifeStep, EngineBoot, EngineBootFailed, EngineBootCheck,
      Receive, EngineResumed, EngineLimit, EngineLimitPaused, CancelBegin,
      CancelRead, CancelPaused, CancelWork, CancelRestored, CancelSafety,
      CancelReturn, ConfigSaved, ConfigSettled, EngineStopPaused, MonitorTick,
      DispatchPause, DispatchResume, RequestPause, RequestResume,
      RequestCommand, outside, around

\* Every step leaves a well-formed history.
LEMMA SeenType ==
  ASSUME TypeOK, Next
  PROVE  seen' \in Seens
<1>1. seen \in Seens /\ job \in [Slots -> Jobs]
  BY DEF TypeOK, Seens
<1>2. seen.stops + 1 \in Nat /\ \A s \in Slots : job[s].by \in Nat
  BY <1>1, SMT DEF Seens, Jobs
<1>3. ASSUME NEW s \in Slots, TaskStep(s) PROVE seen' \in Seens
  <2>1. CASE PauseAdmit(s)
    BY <1>1, <1>2, <2>1, Zenon
      DEF PauseAdmit, Seens
  <2>2. CASE ResumeInstall(s)
    BY <1>1, <1>2, <2>2, Zenon
      DEF ResumeInstall, Seens
  <2>3. CASE SaveWrite(s)
    BY <1>1, <1>2, <2>3, Zenon
      DEF SaveWrite, Seens
  <2> QED
    BY <1>3, <2>1, <2>2, <2>3, <1>1
    DEF TaskStep, PauseLock, PauseWrite, PauseClose, SilentLock, SilentWrite,
        GlobalCheck, CheckPaused, Checked, ResumeLock, ResumeWrite, StopLock,
        StopWrite, CommitAdmit, CommitLock, CommitWrite, CommitClear, SaveLock,
        SaveInstall, outside
<1>4. CASE CancelRead
  BY <1>1, <1>2, <1>4, Zenon
    DEF CancelRead, Seens
<1>5. CASE Exit \/ Crash
  BY <1>1, <1>5, DownEffect DEF GoDown
<1>6. CASE Boot
  BY <1>1, <1>6 DEF Boot
<1> QED
  BY <1>1, <1>3, <1>4, <1>5, <1>6
  DEF Next, EngineStep, LifeStep, EngineBoot, EngineBootFailed, EngineBootCheck,
      Receive, EngineResumed, EngineLimit, EngineLimitPaused, CancelBegin,
      CancelPaused, CancelWork, CancelRestored, CancelSafety, CancelReturn,
      ConfigSaved, ConfigSettled, EngineStopPaused, MonitorTick, DispatchPause,
      DispatchResume, RequestPause, RequestResume, RequestCommand, Shutdown,
      LifePaused, LifeReplied, Deadline, outside, around

\* Every step leaves a well-formed database.
LEMMA DbType ==
  ASSUME TypeOK, ShapeInv, JobInv, Next
  PROVE  db' \in Dbs
<1>1. db \in Dbs /\ app \in Apps
  BY DEF TypeOK, Dbs, Apps
<1>2. /\ app.mode \in Modes
      /\ [db EXCEPT !.status[app.mode] = "Paused"] \in Dbs
      /\ [db EXCEPT !.status[app.mode] = "Running"] \in Dbs
      /\ [db EXCEPT !.dirty[app.mode] = FALSE] \in Dbs
      /\ [db EXCEPT !.dirty[db.mode] = TRUE] \in Dbs
  <2>1. app.mode \in Modes /\ db.mode \in Modes
    BY <1>1, SMT DEF Apps, Dbs
  <2>2. ASSUME NEW m \in Modes, NEW status \in Statuses
        PROVE  [db EXCEPT !.status[m] = status] \in Dbs
    BY <1>1, SMT DEF Dbs
  <2>3. ASSUME NEW m \in Modes, NEW b \in BOOLEAN
        PROVE  [db EXCEPT !.dirty[m] = b] \in Dbs
    BY <1>1, SMT DEF Dbs
  <2>4. {"Paused", "Running"} \subseteq Statuses
    BY DEF Statuses
  <2> QED
    BY <2>1, <2>2, <2>3, <2>4, Zenon
<1>3. ASSUME NEW s \in Slots, TaskStep(s) PROVE db' \in Dbs
  <2>1. CASE PauseWrite(s)
    BY <1>1, <1>2, <2>1, Zenon DEF PauseWrite
  <2>2. CASE SilentWrite(s)
    BY <1>1, <1>2, <2>2, Zenon DEF SilentWrite
  <2>3. CASE ResumeWrite(s)
    BY <1>1, <1>2, <2>3, Zenon DEF ResumeWrite
  <2>4. CASE StopWrite(s)
    BY <1>1, <1>2, <2>4, Zenon DEF StopWrite
  <2>5. CASE CommitWrite(s)
    BY <1>1, <1>2, <2>5, Zenon DEF CommitWrite
  <2>6. CASE CommitClear(s)
    BY <1>1, <1>2, <2>6, Zenon DEF CommitClear
  <2>7. CASE SaveWrite(s)
    <3>1. job[s].mode \in Modes
      BY <2>7, SMT DEF SaveWrite, At, ShapeInv, OpsOf, JobInv, EngineTask, Slots
    <3>2. app.status \in Statuses /\ app.mode \in Modes
      BY <1>1, SMT DEF Apps
    <3>3. ASSUME NEW new \in Modes, NEW status \in Statuses
          PROVE  SavedDb(new, status) \in Dbs
      BY <1>1, Zenon DEF SavedDb, Dbs, Statuses
    <3> QED
      BY <1>1, <2>7, <3>1, <3>2, <3>3, Zenon DEF SaveWrite
  <2> QED
    BY <1>3, <2>1, <2>2, <2>3, <2>4, <2>5, <2>6, <2>7, <1>1
    DEF TaskStep, PauseAdmit, PauseLock, PauseClose, SilentLock, GlobalCheck,
        CheckPaused, Checked, ResumeLock, ResumeInstall, StopLock, CommitAdmit,
        CommitLock, SaveLock, SaveInstall, outside
<1>4. CASE Exit \/ Crash
  BY <1>1, <1>4, DownEffect DEF GoDown
<1>5. CASE Boot
  BY <1>2, <1>5 DEF Boot, Armed
<1> QED
  BY <1>1, <1>3, <1>4, <1>5
  DEF Next, EngineStep, LifeStep, EngineBoot, EngineBootFailed, EngineBootCheck,
      Receive, EngineResumed, EngineLimit, EngineLimitPaused, CancelBegin,
      CancelRead, CancelPaused, CancelWork, CancelRestored, CancelSafety,
      CancelReturn, ConfigSaved, ConfigSettled, EngineStopPaused, MonitorTick,
      DispatchPause, DispatchResume, RequestPause, RequestResume,
      RequestCommand, Shutdown, LifePaused, LifeReplied, Deadline, outside,
      around

\* Every step leaves well-formed counts.
LEMMA BudgetType ==
  ASSUME TypeOK, Next
  PROVE  budget' \in Budgets
<1>1. budget \in Budgets
  BY DEF TypeOK, Budgets
<1>2. /\ \A ok : Outcome(ok) => budget' \in Budgets
      /\ \A kind : Input(kind) => budget' \in Budgets
  <2>1. /\ budget.faults + 1 \in Nat /\ budget.inputs + 1 \in Nat
    BY <1>1, SMT DEF Budgets
  <2> QED
    BY <1>1, <2>1, Zenon DEF Outcome, Input, Budgets
<1>3. ASSUME NEW s \in Slots, TaskStep(s) PROVE budget' \in Budgets
  <2>1. CASE PauseWrite(s)
    BY <1>2, <2>1, Zenon DEF PauseWrite
  <2>2. CASE SilentWrite(s)
    BY <1>2, <2>2, Zenon DEF SilentWrite
  <2>3. CASE GlobalCheck(s)
    BY <1>1, <1>2, <2>3, Zenon DEF GlobalCheck
  <2>4. CASE ResumeWrite(s)
    BY <1>2, <2>4, Zenon DEF ResumeWrite
  <2>5. CASE StopWrite(s)
    BY <1>2, <2>5, Zenon DEF StopWrite
  <2>6. CASE CommitWrite(s)
    BY <1>2, <2>6, Zenon DEF CommitWrite
  <2>7. CASE CommitClear(s)
    BY <1>2, <2>7, Zenon DEF CommitClear
  <2>8. CASE SaveWrite(s)
    BY <1>2, <2>8, Zenon DEF SaveWrite
  <2> QED
    BY <1>3, <2>1, <2>2, <2>3, <2>4, <2>5, <2>6, <2>7, <2>8, <1>1
    DEF TaskStep, PauseAdmit, PauseLock, PauseClose, SilentLock, CheckPaused,
        Checked, ResumeLock, ResumeInstall, StopLock, CommitAdmit, CommitLock,
        SaveLock, SaveInstall, outside
<1>4. CASE EngineBoot
  BY <1>2, <1>4, Zenon DEF EngineBoot
<1>5. CASE EngineLimit
  BY <1>1, <1>2, <1>5, Zenon DEF EngineLimit
<1>6. CASE CancelWork
  BY <1>2, <1>6, Zenon DEF CancelWork
<1>7. CASE ConfigSaved
  BY <1>2, <1>7, Zenon DEF ConfigSaved
<1>8. CASE EngineStopPaused
  BY <1>2, <1>8, Zenon DEF EngineStopPaused
<1>9. CASE RequestPause
  BY <1>1, <1>2, <1>9, Zenon DEF RequestPause
<1>10. CASE RequestResume
  BY <1>1, <1>2, <1>10, Zenon DEF RequestResume
<1>11. CASE RequestCommand
  BY <1>1, <1>2, <1>11, Zenon DEF RequestCommand
<1>12. CASE Shutdown
  BY <1>1, <1>2, <1>12, Zenon DEF Shutdown
<1>13. CASE Deadline
  BY <1>1, <1>2, <1>13, Zenon DEF Deadline
<1>14. CASE Exit \/ Crash
  BY <1>1, <1>2, <1>14 DEF Exit, Crash
<1>15. CASE Boot
  <2>1. budget.boots + 1 \in Nat
    BY <1>1, SMT DEF Budgets
  <2> QED
    BY <1>1, <1>15, <2>1, Zenon DEF Boot, Budgets
<1> QED
  BY <1>1, <1>3, <1>4, <1>5, <1>6, <1>7, <1>8, <1>9, <1>10, <1>11, <1>12, <1>13,
     <1>14, <1>15
  DEF Next, EngineStep, LifeStep, EngineBootFailed, EngineBootCheck, Receive,
      EngineResumed, EngineLimitPaused, CancelBegin, CancelRead, CancelPaused,
      CancelRestored, CancelSafety, CancelReturn, ConfigSettled, MonitorTick,
      DispatchPause, DispatchResume, LifePaused, LifeReplied, outside, around

\* Every step leaves a well-formed engine.
LEMMA EngineType ==
  ASSUME TypeOK, JobInv, Next
  PROVE  engine' \in Engines
<1>1. /\ engine \in Engines /\ app \in Apps /\ queue \in Seq(Messages)
  BY DEF TypeOK, Apps
<1>2. /\ EnginePcs = {"boot", "bootFailed", "bootCheck", "idle", "resuming",
                      "limit", "begin", "read", "pausing", "work", "restoring",
                      "safety", "return", "saving", "settle", "stopPausing",
                      "exited", "dead"}
      /\ {"control", "rebalance", "risk", "config", "switched", "boot",
          "limit", "stop"} \subseteq Reasons
      /\ \A pc \in EnginePcs : EngineGoto(pc) => engine' \in Engines
      /\ \A why \in Reasons : Begin(why) => engine' \in Engines
      /\ \A ok \in BOOLEAN : Return(ok) => engine' \in Engines
  <2>1. EnginePcs = {"boot", "bootFailed", "bootCheck", "idle", "resuming",
                     "limit", "begin", "read", "pausing", "work", "restoring",
                     "safety", "return", "saving", "settle", "stopPausing",
                     "exited", "dead"}
    BY DEF EnginePcs
  <2>2. ASSUME NEW pc \in EnginePcs, EngineGoto(pc) PROVE engine' \in Engines
    BY <1>1, <2>2, Zenon DEF EngineGoto, Engines
  <2>3. ASSUME NEW why \in Reasons, Begin(why) PROVE engine' \in Engines
    BY <1>1, <2>1, <2>3, Zenon DEF Begin, Engines
  <2>4. ASSUME NEW ok \in BOOLEAN, Return(ok) PROVE engine' \in Engines
    BY <1>1, <2>1, <2>4, Zenon DEF Return, Engines
  <2>5. {"control", "rebalance", "risk", "config", "switched", "boot",
         "limit", "stop"} \subseteq Reasons
    BY DEF Reasons
  <2> QED
    BY <2>1, <2>2, <2>3, <2>4, <2>5, Zenon
<1>3. ASSUME NEW s \in Slots, TaskStep(s) PROVE engine' \in Engines
  <2> QED
    BY <1>3, <1>1
    DEF TaskStep, PauseAdmit, PauseLock, PauseWrite, PauseClose, SilentLock,
        SilentWrite, GlobalCheck, CheckPaused, Checked, ResumeLock, ResumeWrite,
        ResumeInstall, StopLock, StopWrite, CommitAdmit, CommitLock,
        CommitWrite, CommitClear, SaveLock, SaveWrite, SaveInstall, outside
<1>4. CASE EngineBoot
  BY <1>1, <1>2, <1>4, Zenon DEF EngineBoot
<1>5. CASE EngineBootFailed
  BY <1>1, <1>2, <1>5, Zenon DEF EngineBootFailed
<1>6. CASE EngineBootCheck
  BY <1>1, <1>2, <1>6, Zenon DEF EngineBootCheck
<1>7. CASE Receive
  <2>1. Head(queue) = queue[1] /\ 1 \in DOMAIN queue
    BY <1>1, <1>7, ReceiveEffect, SMT
  <2>2. Head(queue).kind = "config" => Head(queue).mode \in Modes
    BY <2>1 DEF JobInv, Commands
  <2>3. app.mode \in Modes
    BY <1>1 DEF Apps
  <2>4. CASE Saves
    <3>1. engine' = [engine EXCEPT !.pc = "saving", !.target = app.mode,
                                  !.moved = FALSE]
      BY <2>4 DEF Saves
    <3> QED
      BY <1>1, <1>2, <2>3, <3>1, Zenon DEF Engines
  <2>5. CASE Begins
    <3>1. CASE \E why \in Reasons : Begin(why)
      BY <1>2, <3>1
    <3>2. CASE /\ Head(queue).kind = "config"
               /\ engine' = [engine EXCEPT !.pc = "begin", !.why = "config",
                                           !.target = Head(queue).mode]
      BY <1>1, <1>2, <2>2, <3>2, Zenon DEF Engines
    <3> QED
      BY <2>5, <3>1, <3>2, Zenon DEF Begins
  <2>6. CASE UNCHANGED engine \/ Stops \/ Resumes
    BY <1>1, <1>2, <2>6 DEF Stops, Resumes
  <2> QED
    BY <1>7, <2>4, <2>5, <2>6, ReceiveEffect
<1>8. CASE EngineResumed
  BY <1>1, <1>2, <1>8, Zenon DEF EngineResumed
<1>9. CASE EngineLimit
  BY <1>1, <1>2, <1>9, Zenon DEF EngineLimit
<1>10. CASE EngineLimitPaused
  BY <1>1, <1>2, <1>10, Zenon DEF EngineLimitPaused
<1>11. CASE CancelBegin
  <2>1. app.pauseEpoch \in Nat
    BY <1>1 DEF Apps
  <2>2. PICK pc \in {"work", "read"} :
          engine' = [engine EXCEPT !.pc = pc, !.base = app.pauseEpoch,
                                   !.was = FALSE]
    BY <1>11, Zenon DEF CancelBegin
  <2> QED
    BY <1>1, <1>2, <2>1, <2>2, Zenon DEF Engines
<1>12. CASE CancelRead
  <2>1. (app.status = "Running") \in BOOLEAN
    OBVIOUS
  <2> QED
    BY <1>1, <1>2, <1>12, <2>1, Zenon DEF CancelRead, Engines
<1>13. CASE CancelPaused
  BY <1>1, <1>2, <1>13, Zenon DEF CancelPaused
<1>14. CASE CancelWork
  BY <1>1, <1>2, <1>14, Zenon DEF CancelWork
<1>15. CASE CancelRestored
  BY <1>1, <1>2, <1>15, Zenon DEF CancelRestored
<1>16. CASE CancelSafety
  BY <1>1, <1>2, <1>16, Zenon DEF CancelSafety
<1>17. CASE CancelReturn
  <2>1. (engine.target # app.mode) \in BOOLEAN
    OBVIOUS
  <2>2. \/ EngineGoto("idle") \/ EngineGoto("exited")
        \/ engine' = [engine EXCEPT !.pc = "saving",
                                    !.moved = engine.target # app.mode]
    BY <1>17, Zenon DEF CancelReturn
  <2> QED
    BY <1>1, <1>2, <2>1, <2>2, Zenon DEF Engines
<1>18. CASE ConfigSaved
  BY <1>1, <1>2, <1>18, Zenon DEF ConfigSaved
<1>19. CASE ConfigSettled
  BY <1>1, <1>2, <1>19, Zenon DEF ConfigSettled
<1>20. CASE EngineStopPaused
  <2>1. job["engine"].ok \in BOOLEAN
    BY DEF TypeOK, Jobs, Slots
  <2>2. \/ engine' = [engine EXCEPT !.pc = "begin", !.why = "stop",
                                    !.stopOk = job["engine"].ok]
        \/ engine' = [engine EXCEPT !.pc = "exited", !.stopOk = FALSE]
    BY <1>20, Zenon DEF EngineStopPaused
  <2> QED
    BY <1>1, <1>2, <2>1, <2>2, Zenon DEF Engines
<1>21. CASE LifePaused
  BY <1>1, <1>2, <1>21, Zenon DEF LifePaused, LifeFail
<1>22. CASE LifeReplied
  BY <1>1, <1>2, <1>22, Zenon DEF LifeReplied, LifeFail
<1>23. CASE Deadline
  BY <1>1, <1>2, <1>23, Zenon DEF Deadline, LifeFail
<1>24. CASE Exit \/ Crash
  <2>1. engine' = NewEngine
    BY <1>24, DownEffect DEF GoDown
  <2> QED
    BY <1>2, <2>1, SMT DEF NewEngine, Engines, Reasons, Modes
<1>25. CASE Boot
  BY <1>1, <1>25 DEF Boot
<1> QED
  BY <1>1, <1>3, <1>4, <1>5, <1>6, <1>7, <1>8, <1>9, <1>10, <1>11, <1>12, <1>13,
     <1>14, <1>15, <1>16, <1>17, <1>18, <1>19, <1>20, <1>21, <1>22, <1>23,
     <1>24, <1>25
  DEF Next, EngineStep, LifeStep, MonitorTick, DispatchPause, DispatchResume,
      RequestPause, RequestResume, RequestCommand, Shutdown, outside, around

\* Every step leaves well-formed commands, in the queue and on their way.
LEMMA QueueType ==
  ASSUME TypeOK, Next
  PROVE  queue' \in Seq(Messages) /\ asked' \subseteq Messages
<1>1. /\ queue \in Seq(Messages) /\ asked \subseteq Messages
      /\ app \in Apps /\ seen \in Seens
  BY DEF TypeOK, Apps, Seens
<1>2. /\ \A kind \in MsgKinds, mode \in Modes \cup {AnyMode} :
           Message(kind, mode) \in Messages
      /\ {"riskCancel", "pauseDone", "rebalance", "config", "shutdown",
          "resume"} \subseteq MsgKinds
      /\ \A m \in Messages : Append(queue, m) \in Seq(Messages)
  BY <1>1, SMT DEF Message, Messages, MsgKinds
<1>3. ASSUME NEW s \in Slots, TaskStep(s)
      PROVE  queue' \in Seq(Messages) /\ asked' \subseteq Messages
  <2>1. CASE Checked(s)
    BY <1>1, <1>2, <2>1, Zenon DEF Checked, QueueGlobalCancel
  <2> QED
    BY <1>3, <2>1, <1>1
    DEF TaskStep, PauseAdmit, PauseLock, PauseWrite, PauseClose, SilentLock,
        SilentWrite, GlobalCheck, CheckPaused, ResumeLock, ResumeWrite,
        ResumeInstall, StopLock, StopWrite, CommitAdmit, CommitLock,
        CommitWrite, CommitClear, SaveLock, SaveWrite, SaveInstall, outside
<1>4. CASE Receive
  <2>1. UNCHANGED asked /\ queue' = Tail(queue) /\ queue # <<>>
    BY <1>4, ReceiveEffect
  <2> QED
    BY <1>1, <2>1, SMT
<1>5. CASE DispatchPause
  BY <1>1, <1>2, <1>5, Zenon DEF DispatchPause, around
<1>6. CASE DispatchResume
  BY <1>1, <1>2, <1>6, Zenon DEF DispatchResume
<1>7. CASE RequestResume
  <2>1. app.pauseEpoch \in Nat /\ seen.stops \in Nat
    BY <1>1 DEF Apps, Seens
  <2>2. PICK mode \in Modes :
          asked' = {[kind |-> "resume", epoch |-> app.pauseEpoch,
                     by |-> seen.stops, mode |-> mode]}
    BY <1>7 DEF RequestResume
  <2>3. queue' = queue
    BY <1>7 DEF RequestResume
  <2> QED
    BY <1>1, <1>2, <2>1, <2>2, <2>3, SMT DEF Messages
<1>8. CASE RequestCommand
  <2>1. PICK kind \in {"rebalance", "config"}, mode \in Modes :
          queue' = Append(queue, Message(kind, mode))
    BY <1>8 DEF RequestCommand
  <2>2. asked' = asked
    BY <1>8 DEF RequestCommand, around
  <2> QED
    BY <1>1, <1>2, <2>1, <2>2, Zenon
<1>9. CASE LifePaused
  BY <1>1, <1>2, <1>9, Zenon DEF LifePaused
<1>10. CASE Exit \/ Crash
  <2>1. queue' = <<>> /\ asked' = {}
    BY <1>10, DownEffect DEF GoDown
  <2> QED
    BY <2>1, SMT
<1>11. CASE Boot
  BY <1>1, <1>11 DEF Boot
<1> QED
  BY <1>1, <1>3, <1>4, <1>5, <1>6, <1>7, <1>8, <1>9, <1>10, <1>11
  DEF Next, EngineStep, LifeStep, EngineBoot, EngineBootFailed, EngineBootCheck,
      EngineResumed, EngineLimit, EngineLimitPaused, CancelBegin, CancelRead,
      CancelPaused, CancelWork, CancelRestored, CancelSafety, CancelReturn,
      ConfigSaved, ConfigSettled, EngineStopPaused, MonitorTick, RequestPause,
      Shutdown, LifeReplied, Deadline, outside, around

\* Every step leaves every variable well-formed.
LEMMA TypeStep ==
  ASSUME TaskInv, Next
  PROVE  TypeOK'
<1>1. up' \in BOOLEAN
  <2>1. up \in BOOLEAN
    BY DEF TaskInv, TypeOK
  <2>2. ASSUME NEW s \in Slots, TaskStep(s) PROVE up' = up
    BY <2>2
    DEF TaskStep, outside, PauseAdmit, PauseLock, PauseWrite, PauseClose,
        SilentLock, SilentWrite, GlobalCheck, CheckPaused, Checked, ResumeLock,
        ResumeWrite, ResumeInstall, StopLock, StopWrite, CommitAdmit,
        CommitLock, CommitWrite, CommitClear, SaveLock, SaveWrite, SaveInstall
  <2>3. CASE EngineStep \/ EngineLimit
    BY <2>3, EngineEffect DEF EngineMoves
  <2>4. CASE \/ MonitorTick \/ DispatchPause \/ DispatchResume
             \/ RequestPause \/ RequestResume \/ RequestCommand
    BY <2>4, RequestEffect DEF RequestMoves
  <2>5. CASE Shutdown \/ LifePaused \/ LifeReplied \/ Deadline
    BY <2>5, ShutdownEffect, LifeEffect
  <2>6. CASE Exit \/ Crash
    BY <2>6, DownEffect DEF GoDown
  <2> QED
    BY <2>1, <2>2, <2>3, <2>4, <2>5, <2>6 DEF Next, LifeStep, Boot
<1>2. /\ app' \in Apps /\ job' \in [Slots -> Jobs] /\ held' \in Holders
      /\ risk' \in Risks /\ engine' \in Engines /\ life' \in Lives
      /\ db' \in Dbs /\ seen' \in Seens /\ budget' \in Budgets
      /\ queue' \in Seq(Messages) /\ asked' \subseteq Messages
  BY AppType, JobType, HeldType, RiskType, EngineType, LifeType, DbType,
     SeenType, BudgetType, QueueType DEF TaskInv
<1> QED
  BY <1>1, <1>2
  DEF TypeOK, Apps, Holders, Risks, Lives, Dbs, Seens, Budgets

\* Every step is of a task, of the engine, of a request, of the coordinator, or
\* the end or the start of a life.
LEMMA StepCases ==
  ASSUME TaskInv, Next
  PROVE  \/ \E s \in Slots : TaskStep(s)
         \/ EngineMoves \/ RequestMoves \/ Shutdown
         \/ LifePaused \/ LifeReplied \/ Deadline
         \/ GoDown \/ Boot
<1>1. CASE EngineStep \/ EngineLimit
  BY <1>1, EngineEffect
<1>2. CASE \/ MonitorTick \/ DispatchPause \/ DispatchResume
           \/ RequestPause \/ RequestResume \/ RequestCommand
  BY <1>2, RequestEffect
<1>3. CASE Exit \/ Crash
  BY <1>3, DownEffect
<1> QED
  BY <1>1, <1>2, <1>3 DEF Next, LifeStep

\* A process that is down only starts; one that is up goes on or goes down.
LEMMA UpSteps ==
  ASSUME TaskInv, Next
  PROVE  (up /\ up') \/ GoDown \/ Boot
<1>1. ASSUME NEW s \in Slots, TaskStep(s) PROVE up /\ up'
  <2>1. up' = up
    BY <1>1
    DEF TaskStep, outside, PauseAdmit, PauseLock, PauseWrite, PauseClose,
        SilentLock, SilentWrite, GlobalCheck, CheckPaused, Checked, ResumeLock,
        ResumeWrite, ResumeInstall, StopLock, StopWrite, CommitAdmit,
        CommitLock, CommitWrite, CommitClear, SaveLock, SaveWrite, SaveInstall
  <2>2. up
    BY <1>1
    DEF TaskStep, At, PauseAdmit, PauseLock, PauseWrite, PauseClose, SilentLock,
        SilentWrite, GlobalCheck, CheckPaused, Checked, ResumeLock, ResumeWrite,
        ResumeInstall, StopLock, StopWrite, CommitAdmit, CommitLock,
        CommitWrite, CommitClear, SaveLock, SaveWrite, SaveInstall
  <2> QED
    BY <2>1, <2>2, Zenon
<1>2. CASE EngineMoves
  BY <1>2 DEF EngineMoves
<1>3. CASE RequestMoves
  BY <1>3 DEF RequestMoves
<1>4. CASE Shutdown
  BY <1>4, ShutdownEffect
<1>5. CASE LifePaused \/ LifeReplied \/ Deadline
  BY <1>5, LifeEffect
<1> QED
  BY <1>1, <1>2, <1>3, <1>4, <1>5, StepCases

-----------------------------------------------------------------------------
(* Tasks and locks.                                                         *)

\* The tasks and their steps, spelled out.
LEMMA Shapes ==
  /\ OpsOf("engine") = {"none", "pause", "silentPause", "resume", "stopPause",
                        "save"}
  /\ OpsOf("user") = {"none", "pause"}
  /\ OpsOf("nested") = {"none", "pause"}
  /\ OpsOf("monitor") = {"none", "check"}
  /\ OpsOf("stop") = {"none", "stopPause"}
  /\ OpsOf("final") = {"none", "pause", "commit"}
  /\ PcsOf("none") = {"idle"}
  /\ PcsOf("pause") = {"admit", "lock", "write", "close", "done"}
  /\ PcsOf("silentPause") = {"lock", "write", "done"}
  /\ PcsOf("resume") = {"global", "checking", "checked", "lock", "write",
                        "install", "done"}
  /\ PcsOf("stopPause") = {"global", "checking", "checked", "lock", "write",
                           "done"}
  /\ PcsOf("commit") = {"global", "checking", "checked", "admit", "lock",
                        "write", "clear", "done"}
  /\ PcsOf("save") = {"lock", "write", "install", "done"}
  /\ PcsOf("check") = {"global", "checking", "checked"}
BY DEF OpsOf, PcsOf

\* An engine has only the tasks of its slot.
LEMMA EngineOpsOf ==
  ASSUME NEW pc \in EnginePcs
  PROVE  EngineOps(pc) \subseteq OpsOf("engine")
BY SMT DEF EnginePcs, EngineOps, OpsOf

\* The task a slot holds is one of its own, at one of its steps.
LEMMA SlotTasks ==
  ASSUME ShapeInv, NEW s \in Slots
  PROVE  /\ job[s].op \in {"none", "pause", "silentPause", "resume",
                           "stopPause", "commit", "save", "check"}
         /\ job[s].op \in {"silentPause", "resume", "save"} => s = "engine"
         /\ job[s].op = "stopPause" => s \in {"engine", "stop"}
         /\ job[s].op = "commit" => s = "final"
         /\ job[s].op = "check" => s = "monitor"
         /\ job[s].op = "pause" => s \in {"engine", "user", "nested", "final"}
         /\ job[s].pc \in {"global", "checking", "checked"} =>
              job[s].op \in {"resume", "stopPause", "commit", "check"}
BY Shapes, SMT DEF ShapeInv, Slots

\* The task of s goes on to pc, whatever it remembers.
Goes(s, pc) == /\ OnlyJob(s)
               /\ job'[s].op = job[s].op /\ job'[s].pc = pc
               /\ job'[s].mode = job[s].mode
               /\ job[s].op # "commit" => /\ job'[s].epoch = job[s].epoch
                                          /\ job'[s].by = job[s].by

\* Which actions bring a task to the steps, or past the steps, that matter.
Turns(s, pc) ==
    /\ job[s].op = "pause" /\ pc = "lock" => PauseAdmit(s)
    /\ job[s].op = "pause" /\ job[s].pc = "lock" => PauseLock(s)
    /\ job[s].op = "save" /\ pc = "install" => SaveWrite(s)
    /\ job[s].op = "save" /\ job[s].pc = "install" => SaveInstall(s)
    /\ job[s].op = "resume" /\ pc \in {"global", "checking", "checked"} =>
         job[s].pc = "global"
    /\ job[s].op = "resume" /\ pc = "lock" => Checked(s)
    /\ job[s].op = "resume" /\ pc = "write" => ResumeLock(s)
    /\ job[s].op = "resume" /\ pc = "install" => job[s].pc = "write"
    /\ job[s].op = "stopPause" /\ pc = "write" => StopLock(s)
    /\ job[s].op = "stopPause" /\ pc = "done" => StopWrite(s)
    /\ job[s].op = "commit" /\ pc = "write" => CommitLock(s)
    /\ job[s].op = "commit" /\ pc = "clear" => CommitLock(s) \/ CommitWrite(s)
    /\ job[s].op = "commit" /\ job[s].pc = "clear" => pc = "done"

\* What the step of a task does to the tasks: it goes on, it starts or it ends
\* the nested pause of a check, or the periodic check is over.
TaskMoves(s) ==
    \/ /\ job[s].pc \notin {"idle", "checking", "done"}
       /\ \E pc \in PcsOf(job[s].op) : Goes(s, pc) /\ Turns(s, pc)
    \/ /\ job[s].pc = "global" /\ held["global"] = "free"
       /\ s # "nested" /\ job'["nested"] = SafetyPause
       /\ OnlyJobs(s) /\ Steps(s, "checking")
    \/ /\ job[s].pc = "checking" /\ job["nested"].pc = "done"
       /\ s # "nested" /\ job'["nested"] = NoJob
       /\ OnlyJobs(s) /\ Steps(s, "checked")
    \/ /\ s = "monitor" /\ job[s].pc = "checked" /\ Placed(s, NoJob)

\* Every step of a task leaves the engine, the coordinator and the requests.
LEMMA TaskStepMoves ==
  ASSUME TypeOK, ShapeInv, NEW s \in Slots, TaskStep(s)
  PROVE  /\ up /\ UNCHANGED <<up, engine, asked, life>>
         /\ OldCommands /\ TaskMoves(s)
<1>1. \A pc : Moved(s, pc) => Goes(s, pc)
  BY DEF Moved, Steps, Goes
<1>2. queue' = queue => OldCommands
  BY DEF OldCommands
<1>3. CASE PauseAdmit(s)
  <2>1. /\ job[s].op = "pause" /\ job[s].pc = "admit"
        /\ up /\ UNCHANGED <<up, engine, queue, asked, life>>
        /\ Goes(s, "lock") \/ Goes(s, "done")
    BY <1>1, <1>3, PauseAdmitEffect
  <2>2. {"lock", "done"} \subseteq PcsOf("pause")
    BY Shapes
  <2> QED
    BY <1>2, <1>3, <2>1, <2>2 DEF TaskMoves, Turns
<1>4. CASE PauseLock(s)
  <2>1. /\ job[s].op = "pause" /\ job[s].pc = "lock"
        /\ up /\ UNCHANGED <<up, engine, queue, asked, life>>
        /\ Goes(s, "write")
    BY <1>1, <1>4, PauseLockEffect
  <2>2. {"write"} \subseteq PcsOf("pause")
    BY Shapes
  <2> QED
    BY <1>2, <1>4, <2>1, <2>2 DEF TaskMoves, Turns
<1>5. CASE PauseWrite(s)
  <2>1. /\ job[s].op = "pause" /\ job[s].pc = "write"
        /\ up /\ UNCHANGED <<up, engine, queue, asked, life>>
        /\ Goes(s, "close")
    BY <1>1, <1>5, PauseWriteEffect
  <2>2. {"close"} \subseteq PcsOf("pause")
    BY Shapes
  <2> QED
    BY <1>2, <1>5, <2>1, <2>2 DEF TaskMoves, Turns
<1>6. CASE PauseClose(s)
  <2>1. /\ job[s].op = "pause" /\ job[s].pc = "close"
        /\ up /\ UNCHANGED <<up, engine, queue, asked, life>>
        /\ Goes(s, "done")
    BY <1>1, <1>6, PauseCloseEffect
  <2>2. {"done"} \subseteq PcsOf("pause")
    BY Shapes
  <2> QED
    BY <1>2, <1>6, <2>1, <2>2 DEF TaskMoves, Turns
<1>7. CASE SilentLock(s)
  <2>1. /\ job[s].op = "silentPause" /\ job[s].pc = "lock"
        /\ up /\ UNCHANGED <<up, engine, queue, asked, life>>
        /\ Goes(s, "write") \/ Goes(s, "done")
    BY <1>1, <1>7, SilentLockEffect
  <2>2. {"write", "done"} \subseteq PcsOf("silentPause")
    BY Shapes
  <2> QED
    BY <1>2, <1>7, <2>1, <2>2 DEF TaskMoves, Turns
<1>8. CASE SilentWrite(s)
  <2>1. /\ job[s].op = "silentPause" /\ job[s].pc = "write"
        /\ up /\ UNCHANGED <<up, engine, queue, asked, life>>
        /\ Goes(s, "done")
    BY <1>1, <1>8, SilentWriteEffect
  <2>2. {"done"} \subseteq PcsOf("silentPause")
    BY Shapes
  <2> QED
    BY <1>2, <1>8, <2>1, <2>2 DEF TaskMoves, Turns
<1>9. CASE GlobalCheck(s)
  <2>1. {"checking", "checked"} \subseteq PcsOf(job[s].op) /\ s # "nested"
    BY <1>9, SlotTasks, Shapes, GlobalCheckEffect DEF ShapeInv
  <2> QED
    BY <1>1, <1>2, <1>9, <2>1, GlobalCheckEffect DEF TaskMoves, Turns
<1>10. CASE CheckPaused(s)
  <2>1. s # "nested"
    BY <1>10, SlotTasks, Shapes, CheckPausedEffect DEF ShapeInv
  <2> QED
    BY <1>2, <1>10, <2>1, CheckPausedEffect DEF TaskMoves
<1>11. CASE Checked(s)
  <2>1. /\ {"lock", "done"} \subseteq PcsOf("resume")
        /\ "lock" \in PcsOf("stopPause") /\ "admit" \in PcsOf("commit")
    BY Shapes
  <2>2. job[s].op = "check" => s = "monitor"
    BY SlotTasks
  <2> QED
    BY <1>1, <1>11, <2>1, <2>2, CheckedEffect DEF TaskMoves, Turns
<1>12. CASE ResumeLock(s)
  <2>1. /\ job[s].op = "resume" /\ job[s].pc = "lock"
        /\ up /\ UNCHANGED <<up, engine, queue, asked, life>>
        /\ Goes(s, "write") \/ Goes(s, "done")
    BY <1>1, <1>12, ResumeLockEffect
  <2>2. {"write", "done"} \subseteq PcsOf("resume")
    BY Shapes
  <2> QED
    BY <1>2, <1>12, <2>1, <2>2 DEF TaskMoves, Turns
<1>13. CASE ResumeWrite(s)
  <2>1. /\ job[s].op = "resume" /\ job[s].pc = "write"
        /\ up /\ UNCHANGED <<up, engine, queue, asked, life>>
        /\ Goes(s, "install") \/ Goes(s, "done")
    BY <1>1, <1>13, ResumeWriteEffect
  <2>2. {"install", "done"} \subseteq PcsOf("resume")
    BY Shapes
  <2> QED
    BY <1>2, <1>13, <2>1, <2>2 DEF TaskMoves, Turns
<1>14. CASE ResumeInstall(s)
  <2>1. /\ job[s].op = "resume" /\ job[s].pc = "install"
        /\ up /\ UNCHANGED <<up, engine, queue, asked, life>>
        /\ Goes(s, "done")
    BY <1>1, <1>14, ResumeInstallEffect
  <2>2. {"done"} \subseteq PcsOf("resume")
    BY Shapes
  <2> QED
    BY <1>2, <1>14, <2>1, <2>2 DEF TaskMoves, Turns
<1>15. CASE StopLock(s)
  <2>1. /\ job[s].op = "stopPause" /\ job[s].pc = "lock"
        /\ up /\ UNCHANGED <<up, engine, queue, asked, life>>
        /\ Goes(s, "write")
    BY <1>1, <1>15, StopLockEffect
  <2>2. {"write"} \subseteq PcsOf("stopPause")
    BY Shapes
  <2> QED
    BY <1>2, <1>15, <2>1, <2>2 DEF TaskMoves, Turns
<1>16. CASE StopWrite(s)
  <2>1. /\ job[s].op = "stopPause" /\ job[s].pc = "write"
        /\ up /\ UNCHANGED <<up, engine, queue, asked, life>>
        /\ Goes(s, "done")
    BY <1>1, <1>16, StopWriteEffect
  <2>2. {"done"} \subseteq PcsOf("stopPause")
    BY Shapes
  <2> QED
    BY <1>2, <1>16, <2>1, <2>2 DEF TaskMoves, Turns
<1>17. CASE CommitAdmit(s)
  <2>1. /\ job[s].op = "commit" /\ job[s].pc = "admit"
        /\ up /\ UNCHANGED <<up, engine, queue, asked, life>>
        /\ Goes(s, "lock")
    BY <1>1, <1>17, CommitAdmitEffect
  <2>2. {"lock"} \subseteq PcsOf("commit")
    BY Shapes
  <2> QED
    BY <1>2, <1>17, <2>1, <2>2 DEF TaskMoves, Turns
<1>18. CASE CommitLock(s)
  <2>1. /\ job[s].op = "commit" /\ job[s].pc = "lock"
        /\ up /\ UNCHANGED <<up, engine, queue, asked, life>>
        /\ Goes(s, "done") \/ Goes(s, "write") \/ Goes(s, "clear")
    BY <1>1, <1>18, CommitLockEffect DEF Goes
  <2>2. {"done", "write", "clear"} \subseteq PcsOf("commit")
    BY Shapes
  <2> QED
    BY <1>2, <1>18, <2>1, <2>2 DEF TaskMoves, Turns
<1>19. CASE CommitWrite(s)
  <2>1. /\ job[s].op = "commit" /\ job[s].pc = "write"
        /\ up /\ UNCHANGED <<up, engine, queue, asked, life>>
        /\ Goes(s, "clear") \/ Goes(s, "done")
    BY <1>1, <1>19, CommitWriteEffect
  <2>2. {"clear", "done"} \subseteq PcsOf("commit")
    BY Shapes
  <2> QED
    BY <1>2, <1>19, <2>1, <2>2 DEF TaskMoves, Turns
<1>20. CASE CommitClear(s)
  <2>1. /\ job[s].op = "commit" /\ job[s].pc = "clear"
        /\ up /\ UNCHANGED <<up, engine, queue, asked, life>>
        /\ Goes(s, "done")
    BY <1>1, <1>20, CommitClearEffect
  <2>2. {"done"} \subseteq PcsOf("commit")
    BY Shapes
  <2> QED
    BY <1>2, <1>20, <2>1, <2>2 DEF TaskMoves, Turns
<1>21. CASE SaveLock(s)
  <2>1. /\ job[s].op = "save" /\ job[s].pc = "lock"
        /\ up /\ UNCHANGED <<up, engine, queue, asked, life>>
        /\ Goes(s, "write") \/ Goes(s, "done")
    BY <1>1, <1>21, SaveLockEffect
  <2>2. {"write", "done"} \subseteq PcsOf("save")
    BY Shapes
  <2> QED
    BY <1>2, <1>21, <2>1, <2>2 DEF TaskMoves, Turns
<1>22. CASE SaveWrite(s)
  <2>1. /\ job[s].op = "save" /\ job[s].pc = "write"
        /\ up /\ UNCHANGED <<up, engine, queue, asked, life>>
        /\ Goes(s, "install") \/ Goes(s, "done")
    BY <1>1, <1>22, SaveWriteEffect
  <2>2. {"install", "done"} \subseteq PcsOf("save")
    BY Shapes
  <2> QED
    BY <1>2, <1>22, <2>1, <2>2 DEF TaskMoves, Turns
<1>23. CASE SaveInstall(s)
  <2>1. /\ job[s].op = "save" /\ job[s].pc = "install"
        /\ up /\ UNCHANGED <<up, engine, queue, asked, life>>
        /\ Goes(s, "done")
    BY <1>1, <1>23, SaveInstallEffect
  <2>2. {"done"} \subseteq PcsOf("save")
    BY Shapes
  <2> QED
    BY <1>2, <1>23, <2>1, <2>2 DEF TaskMoves, Turns
<1> QED
  BY <1>3, <1>4, <1>5, <1>6, <1>7, <1>8, <1>9, <1>10, <1>11, <1>12, <1>13,
     <1>14, <1>15, <1>16, <1>17, <1>18, <1>19, <1>20, <1>21, <1>22, <1>23
  DEF TaskStep

\* A slot of each name.
LEMMA SlotNames ==
  {"engine", "user", "nested", "monitor", "stop", "final"} = Slots
BY DEF Slots

\* Every step leaves each slot with one of its tasks, at one of its steps.
LEMMA ShapeStep ==
  ASSUME TaskInv, Next
  PROVE  ShapeInv'
<1>1. TypeOK /\ ShapeInv
  BY DEF TaskInv
<1>2. engine'.pc \in EnginePcs
  BY EngineType DEF TaskInv, Engines
<1>3. ASSUME NEW s \in Slots, Starts(s), job'[s].op \in OpsOf(s)
      PROVE  ShapeInv'
  <2>1. job'[s].pc \in PcsOf(job'[s].op)
    BY <1>3, Shapes DEF Starts, Fresh
  <2> QED
    BY <1>1, <1>3, <2>1 DEF ShapeInv, Starts, OnlyJob
<1>4. job' = job => ShapeInv'
  BY <1>1 DEF ShapeInv
<1>5. ASSUME NEW s \in Slots, TaskStep(s) PROVE ShapeInv'
  <2>1. TaskMoves(s)
    BY <1>1, <1>5, TaskStepMoves
  <2>2. /\ SafetyPause.op = "pause" /\ SafetyPause.pc = "admit"
        /\ NoJob.op = "none" /\ NoJob.pc = "idle"
    BY DEF SafetyPause, NoJob, NewJob
  <2>3. CASE \E pc \in PcsOf(job[s].op) : Goes(s, pc)
    BY <1>1, <2>3 DEF ShapeInv, Goes, OnlyJob
  <2>4. CASE /\ job[s].pc = "global" /\ s # "nested"
             /\ job'["nested"] = SafetyPause
             /\ OnlyJobs(s) /\ Steps(s, "checking")
    <3>1. "checking" \in PcsOf(job[s].op)
      BY <1>1, <2>4, SlotTasks, Shapes
    <3> QED
      BY <1>1, <2>2, <2>4, <3>1, Shapes DEF ShapeInv, OnlyJobs, Steps
  <2>5. CASE /\ job[s].pc = "checking" /\ s # "nested"
             /\ job'["nested"] = NoJob
             /\ OnlyJobs(s) /\ Steps(s, "checked")
    <3>1. "checked" \in PcsOf(job[s].op)
      BY <1>1, <2>5, SlotTasks, Shapes
    <3> QED
      BY <1>1, <2>2, <2>5, <3>1, Shapes DEF ShapeInv, OnlyJobs, Steps
  <2>6. CASE s = "monitor" /\ Placed(s, NoJob)
    BY <1>1, <2>2, <2>6, Shapes DEF ShapeInv, Placed, OnlyJob
  <2> QED
    BY <2>1, <2>3, <2>4, <2>5, <2>6 DEF TaskMoves
<1>6. CASE EngineMoves
  <2>1. job'["engine"].op \in OpsOf("engine")
    BY <1>2, <1>6, EngineOpsOf DEF EngineMoves
  <2> QED
    BY <1>3, <1>4, <1>6, <2>1, SlotNames DEF EngineMoves
<1>7. CASE RequestMoves
  BY <1>3, <1>4, <1>7, SlotNames, Shapes DEF RequestMoves
<1>8. CASE Shutdown
  BY <1>3, <1>8, SlotNames, Shapes, ShutdownEffect
<1>9. CASE LifePaused \/ LifeReplied \/ Deadline
  <2>1. SafetyPause.op = "pause"
    BY DEF SafetyPause, NewJob
  <2> QED
    BY <1>3, <1>4, <1>9, <2>1, SlotNames, Shapes, LifeEffect DEF LifeFails
<1>10. CASE GoDown
  BY <1>1, <1>10, SlotNames, Shapes DEF GoDown, NoJob, NewJob, ShapeInv
<1>11. CASE Boot
  BY <1>4, <1>11 DEF Boot
<1> QED
  BY StepCases, <1>5, <1>6, <1>7, <1>8, <1>9, <1>10, <1>11

\* Every step leaves the engine waiting for the task it started, a nested pause
\* inside its check, and well-formed commands in the queue.
LEMMA JobStep ==
  ASSUME TaskInv, Next
  PROVE  JobInv'
<1>1. TypeOK /\ ShapeInv /\ EngineTask /\ NestedTask /\ Commands
  BY DEF TaskInv, JobInv
<1>2. /\ NoJob.op = "none" /\ SafetyPause.op = "pause"
      /\ {"pause", "none"} \subseteq OpsOf("engine")
  BY Shapes DEF NoJob, SafetyPause, NewJob
<1>3. ASSUME asked' = asked, OldCommands PROVE Commands'
  BY <1>1, <1>3 DEF Commands, OldCommands
<1>4. ASSUME NEW s \in Slots, Starts(s), s # "nested" PROVE NestedTask'
  BY <1>1, <1>4, SlotNames DEF NestedTask, Starts, OnlyJob
<1>5. ASSUME job' = job PROVE NestedTask'
  BY <1>1, <1>5 DEF NestedTask
<1>6. ASSUME NEW s \in Slots, Starts(s), s # "engine", engine'.pc = engine.pc
      PROVE  EngineTask'
  BY <1>1, <1>6, SlotNames DEF EngineTask, Starts, OnlyJob
<1>7. ASSUME NEW s \in Slots, TaskStep(s) PROVE JobInv'
  <2>1. /\ TaskMoves(s) /\ OldCommands
        /\ UNCHANGED <<up, engine, asked, life>>
    BY <1>1, <1>7, TaskStepMoves
  <2>2. Commands'
    BY <1>3, <2>1
  <2>3. CASE /\ job[s].pc \notin {"idle", "checking", "done"}
             /\ \E pc \in PcsOf(job[s].op) : Goes(s, pc)
    <3>1. /\ job'["engine"].op = job["engine"].op
          /\ job'["engine"].mode = job["engine"].mode
          /\ job'["nested"].op = job["nested"].op
      BY <2>3, SlotNames DEF Goes, OnlyJob
    <3>2. \A t \in Slots : job[t].pc = "checking" => job'[t].pc = "checking"
      BY <2>3 DEF Goes, OnlyJob
    <3> QED
      BY <1>1, <2>1, <2>2, <3>1, <3>2 DEF JobInv, EngineTask, NestedTask
  <2>4. CASE /\ s # "nested" /\ job'["nested"] = SafetyPause
             /\ OnlyJobs(s) /\ Steps(s, "checking")
    BY <1>1, <2>1, <2>2, <2>4, SlotNames
    DEF JobInv, EngineTask, NestedTask, OnlyJobs, Steps
  <2>5. CASE /\ s # "nested" /\ job'["nested"] = NoJob
             /\ OnlyJobs(s) /\ Steps(s, "checked")
    BY <1>1, <1>2, <2>1, <2>2, <2>5, SlotNames
    DEF JobInv, EngineTask, NestedTask, OnlyJobs, Steps
  <2>6. CASE s = "monitor" /\ job[s].pc = "checked" /\ Placed(s, NoJob)
    BY <1>1, <2>1, <2>2, <2>6, SlotNames
    DEF JobInv, EngineTask, NestedTask, Placed, OnlyJob
  <2> QED
    BY <2>1, <2>3, <2>4, <2>5, <2>6 DEF TaskMoves
<1>8. CASE EngineMoves
  BY <1>3, <1>4, <1>5, <1>8, SlotNames DEF EngineMoves, JobInv, EngineTask
<1>9. CASE RequestMoves
  <2>1. Commands'
    BY <1>1, <1>9 DEF Commands, RequestMoves
  <2>2. EngineTask'
    BY <1>1, <1>6, <1>9, SlotNames DEF RequestMoves, EngineTask
  <2> QED
    BY <1>4, <1>5, <1>9, <2>1, <2>2, SlotNames DEF RequestMoves, JobInv
<1>10. CASE Shutdown
  <2>1. OldCommands
    BY <1>10, ShutdownEffect DEF OldCommands
  <2> QED
    BY <1>3, <1>4, <1>6, <1>10, <2>1, SlotNames, ShutdownEffect DEF JobInv
<1>11. CASE LifePaused \/ LifeReplied \/ Deadline
  <2>1. OldCommands /\ asked' = asked
    BY <1>11, LifeEffect DEF OldCommands, LifeFails
  <2>2. NestedTask'
    BY <1>4, <1>5, <1>11, SlotNames, LifeEffect DEF LifeFails
  <2>3. CASE LifeFails
    <3>1. /\ job'["engine"].op = job["engine"].op
          /\ job'["engine"].mode = job["engine"].mode
      BY <2>3, SlotNames DEF LifeFails, Starts, OnlyJob
    <3>2. job["engine"].op \in OpsOf("engine")
      BY <1>1, SlotNames DEF ShapeInv
    <3>3. EngineOps("dead") = OpsOf("engine")
      BY DEF EngineOps
    <3> QED
      BY <1>1, <1>3, <2>1, <2>2, <2>3, <3>1, <3>2, <3>3
      DEF LifeFails, JobInv, EngineTask
  <2>4. CASE engine' = engine /\ (job' = job \/ Starts("final"))
    BY <1>1, <1>3, <1>6, <2>1, <2>2, <2>4, SlotNames DEF JobInv, EngineTask
  <2> QED
    BY <1>11, <2>3, <2>4, LifeEffect
<1>12. CASE GoDown
  <2>1. EngineOps("boot") = {"none"} /\ NewEngine.pc = "boot"
    BY DEF EngineOps, NewEngine
  <2> QED
    BY <1>2, <1>12, <2>1, SlotNames
    DEF GoDown, JobInv, EngineTask, NestedTask, Commands
<1>13. CASE Boot
  BY <1>1, <1>13 DEF Boot, JobInv, EngineTask, NestedTask, Commands
<1> QED
  BY StepCases, <1>7, <1>8, <1>9, <1>10, <1>11, <1>12, <1>13

\* A process that is down has no state, whatever its last step.
LEMMA DownStep ==
  ASSUME TaskInv, Next
  PROVE  DownInv'
<1>1. CASE up /\ up'
  BY <1>1 DEF DownInv
<1>2. CASE GoDown
  BY <1>2 DEF GoDown, DownInv
<1>3. CASE Boot
  BY <1>3 DEF Boot, DownInv
<1> QED
  BY <1>1, <1>2, <1>3, UpSteps

-----------------------------------------------------------------------------
(* The locks.                                                               *)

\* A task that goes on or is put in a slot leaves the locks to their holders
\* when what it holds does not change.
HoldsSame(s) == \A l \in Locks : Holds(l, job'[s]) <=> Holds(l, job[s])

\* The locks of the other tasks do not change hands.
Others(s) == \A t \in Slots \ {s} : HoldsSame(t)

\* A task that keeps what it holds leaves the locks in order.
LEMMA LocksKept ==
  ASSUME LockInv, NEW s \in Slots, Others(s), HoldsSame(s), held' = held
  PROVE  LockInv'
<1> SUFFICES ASSUME NEW t \in Slots, NEW l \in Locks
             PROVE  held'[l] = t <=> Holds(l, job'[t])
  BY DEF LockInv
<1>1. held[l] = t <=> Holds(l, job[t])
  BY DEF LockInv
<1>2. Holds(l, job'[t]) <=> Holds(l, job[t])
  BY DEF Others, HoldsSame
<1> QED
  BY <1>1, <1>2

\* A task takes a free lock.
LEMMA LockTaken ==
  ASSUME TypeOK, LockInv, NEW s \in Slots, NEW k \in Locks, Others(s),
         held[k] = "free", held' = [held EXCEPT ![k] = s],
         Holds(k, job'[s]),
         \A l \in Locks \ {k} : Holds(l, job'[s]) <=> Holds(l, job[s])
  PROVE  LockInv'
<1> SUFFICES ASSUME NEW t \in Slots, NEW l \in Locks
             PROVE  held'[l] = t <=> Holds(l, job'[t])
  BY DEF LockInv
<1>1. held \in [Locks -> Slots \cup {"free"}] /\ t # "free"
  BY SMT DEF TypeOK, Slots
<1>2. held[l] = t <=> Holds(l, job[t])
  BY DEF LockInv
<1>3. t # s => (Holds(l, job'[t]) <=> Holds(l, job[t]))
  BY DEF Others, HoldsSame
<1>4. held'[l] = IF l = k THEN s ELSE held[l]
  BY <1>1
<1> QED
  BY <1>1, <1>2, <1>3, <1>4

\* A task gives some of its locks back and keeps the others.
LEMMA LocksGiven ==
  ASSUME TypeOK, LockInv, NEW s \in Slots, NEW L \in SUBSET Locks, Others(s),
         held' = Release(L),
         \A l \in L : Holds(l, job[s]) /\ ~Holds(l, job'[s]),
         \A l \in Locks \ L : Holds(l, job'[s]) <=> Holds(l, job[s])
  PROVE  LockInv'
<1> SUFFICES ASSUME NEW t \in Slots, NEW l \in Locks
             PROVE  held'[l] = t <=> Holds(l, job'[t])
  BY DEF LockInv
<1>1. t # "free"
  BY SMT DEF Slots
<1>2. /\ held[l] = t <=> Holds(l, job[t])
      /\ held[l] = s <=> Holds(l, job[s])
  BY DEF LockInv
<1>3. t # s => (Holds(l, job'[t]) <=> Holds(l, job[t]))
  BY DEF Others, HoldsSame
<1>4. held'[l] = IF l \in L THEN "free" ELSE held[l]
  BY DEF Release
<1> QED
  BY <1>1, <1>2, <1>3, <1>4

\* What a task holds depends on its operation and its step.
LEMMA HoldsBy ==
  ASSUME NEW j
  PROVE  /\ Holds("status", j) <=> HoldsStatus(j)
         /\ Holds("global", j) <=> HoldsGlobal(j)
         /\ Holds("admission", j) <=> HoldsAdmission(j)
         /\ Fresh(j) \/ j.pc \in {"idle", "done"} =>
              ~HoldsStatus(j) /\ ~HoldsGlobal(j) /\ ~HoldsAdmission(j)
<1>1. /\ Holds("status", j) <=> HoldsStatus(j)
      /\ Holds("global", j) <=> HoldsGlobal(j)
      /\ Holds("admission", j) <=> HoldsAdmission(j)
  BY Zenon DEF Holds
<1>2. Fresh(j) \/ j.pc \in {"idle", "done"} =>
        ~HoldsStatus(j) /\ ~HoldsGlobal(j) /\ ~HoldsAdmission(j)
  BY SMT DEF HoldsStatus, HoldsGlobal, HoldsAdmission, Fresh
<1> QED
  BY <1>1, <1>2

\* The locks, and the tasks a step leaves alone.
LEMMA LockFrame ==
  ASSUME NEW s \in Slots
  PROVE  /\ Locks = {"global", "admission", "status"}
         /\ OnlyJob(s) => Others(s)
         /\ Starts(s) => Others(s) /\ HoldsSame(s)
<1>1. OnlyJob(s) => Others(s)
  BY DEF OnlyJob, Others, HoldsSame
<1>2. ASSUME Starts(s) PROVE HoldsSame(s)
  <2>1. \A l \in Locks : ~Holds(l, job'[s]) /\ ~Holds(l, job[s])
    BY <1>2, HoldsBy DEF Starts, Locks
  <2> QED
    BY <2>1 DEF HoldsSame
<1> QED
  BY <1>1, <1>2 DEF Locks, Starts

\* The nested pause starts and ends without a lock.
LEMMA NestedFrame ==
  ASSUME ShapeInv, NEW s \in Slots, s # "nested", OnlyJobs(s),
         Fresh(job["nested"]) \/ job["nested"].pc = "done",
         job'["nested"] \in {SafetyPause, NoJob}
  PROVE  Others(s)
<1>1. Fresh(SafetyPause) /\ Fresh(NoJob)
  BY SMT DEF Fresh, SafetyPause, NoJob, NewJob
<1>2. HoldsSame("nested")
  <2>1. \A l \in Locks : ~Holds(l, job'["nested"]) /\ ~Holds(l, job["nested"])
    BY <1>1, HoldsBy DEF Locks
  <2> QED
    BY <2>1 DEF HoldsSame
<1> QED
  BY <1>2 DEF OnlyJobs, Others, HoldsSame

\* No check runs, so no pause is nested in one, while its lock is free.
LEMMA NestedIdle ==
  ASSUME TaskInv, held["global"] = "free"
  PROVE  job["nested"].op = "none"
<1>1. \A t \in Slots : ~HoldsGlobal(job[t])
  BY HoldsBy, LockFrame DEF TaskInv, LockInv, Slots
<1> QED
  BY <1>1 DEF TaskInv, JobInv, NestedTask, HoldsGlobal

\* Every step leaves each lock with the task that is between its acquisition
\* and its release.
LEMMA LockStep ==
  ASSUME TaskInv, Next
  PROVE  LockInv'
<1>1. TypeOK /\ ShapeInv /\ NestedTask /\ LockInv
  BY DEF TaskInv, JobInv
<1>2. ASSUME NEW s \in Slots, Starts(s), held' = held PROVE LockInv'
  BY <1>1, <1>2, LockFrame, LocksKept
<1>3. ASSUME held' = held, job' = job PROVE LockInv'
  BY <1>1, <1>3 DEF LockInv
<1>4. ASSUME NEW s \in Slots, TaskStep(s) PROVE LockInv'
  <2>1. CASE PauseAdmit(s)
    <3>1. /\ OnlyJob(s) /\ job[s].op = "pause" /\ job[s].pc = "admit"
          /\ job'[s].op = "pause"
          /\ \/ /\ job'[s].pc = "lock"
                /\ held' = held
             \/ /\ job'[s].pc = "done"
                /\ held' = held
      BY <1>1, <2>1, PauseAdmitEffect DEF Moved, Steps
    <3>2. CASE job'[s].pc = "lock" /\ held' = held
      <4>1. /\ ~HoldsStatus(job[s]) /\ ~HoldsGlobal(job[s])
            /\ ~HoldsAdmission(job[s])
            /\ ~HoldsStatus(job'[s]) /\ ~HoldsGlobal(job'[s])
            /\ ~HoldsAdmission(job'[s])
        BY <3>1, <3>2 DEF HoldsStatus, HoldsGlobal, HoldsAdmission
      <4>2. HoldsSame(s)
        BY <4>1, HoldsBy, LockFrame DEF HoldsSame
      <4> QED
        BY <1>1, <3>1, <3>2, <4>2, LockFrame, LocksKept
    <3>3. CASE job'[s].pc = "done" /\ held' = held
      <4>1. /\ ~HoldsStatus(job[s]) /\ ~HoldsGlobal(job[s])
            /\ ~HoldsAdmission(job[s])
            /\ ~HoldsStatus(job'[s]) /\ ~HoldsGlobal(job'[s])
            /\ ~HoldsAdmission(job'[s])
        BY <3>1, <3>3 DEF HoldsStatus, HoldsGlobal, HoldsAdmission
      <4>2. HoldsSame(s)
        BY <4>1, HoldsBy, LockFrame DEF HoldsSame
      <4> QED
        BY <1>1, <3>1, <3>3, <4>2, LockFrame, LocksKept
    <3> QED
      BY <3>1, <3>2, <3>3
  <2>2. CASE PauseLock(s)
    <3>1. /\ OnlyJob(s) /\ job[s].op = "pause" /\ job[s].pc = "lock"
          /\ job'[s].op = "pause"
          /\ job'[s].pc = "write"
          /\ held["status"] = "free"
          /\ held' = [held EXCEPT !["status"] = s]
      BY <1>1, <2>2, PauseLockEffect DEF Moved, Steps
    <3>2. /\ ~HoldsStatus(job[s]) /\ ~HoldsGlobal(job[s])
          /\ ~HoldsAdmission(job[s])
          /\ HoldsStatus(job'[s]) /\ ~HoldsGlobal(job'[s])
          /\ ~HoldsAdmission(job'[s])
      BY <3>1 DEF HoldsStatus, HoldsGlobal, HoldsAdmission
    <3>3. /\ Holds("status", job'[s])
          /\ \A k \in Locks \ {"status"} : Holds(k, job'[s]) <=> Holds(k, job[s])
      BY <3>2, LockFrame, HoldsBy
    <3> QED
      BY <1>1, <3>1, <3>3, LockFrame, LockTaken
  <2>3. CASE PauseWrite(s)
    <3>1. /\ OnlyJob(s) /\ job[s].op = "pause" /\ job[s].pc = "write"
          /\ job'[s].op = "pause"
          /\ job'[s].pc = "close"
          /\ held' = Release({"status"})
      BY <1>1, <2>3, PauseWriteEffect DEF Moved, Steps
    <3>2. /\ HoldsStatus(job[s]) /\ ~HoldsGlobal(job[s])
          /\ ~HoldsAdmission(job[s])
          /\ ~HoldsStatus(job'[s]) /\ ~HoldsGlobal(job'[s])
          /\ ~HoldsAdmission(job'[s])
      BY <3>1 DEF HoldsStatus, HoldsGlobal, HoldsAdmission
    <3> QED
      BY <1>1, <3>1, <3>2, LockFrame, LocksGiven, HoldsBy
  <2>4. CASE PauseClose(s)
    <3>1. /\ OnlyJob(s) /\ job[s].op = "pause" /\ job[s].pc = "close"
          /\ job'[s].op = "pause"
          /\ job'[s].pc = "done"
          /\ held' = held
      BY <1>1, <2>4, PauseCloseEffect DEF Moved, Steps
    <3>2. /\ ~HoldsStatus(job[s]) /\ ~HoldsGlobal(job[s])
          /\ ~HoldsAdmission(job[s])
          /\ ~HoldsStatus(job'[s]) /\ ~HoldsGlobal(job'[s])
          /\ ~HoldsAdmission(job'[s])
      BY <3>1 DEF HoldsStatus, HoldsGlobal, HoldsAdmission
    <3>3. HoldsSame(s)
      BY <3>2, HoldsBy, LockFrame DEF HoldsSame
    <3> QED
      BY <1>1, <3>1, <3>3, LockFrame, LocksKept
  <2>5. CASE SilentLock(s)
    <3>1. /\ OnlyJob(s) /\ job[s].op = "silentPause" /\ job[s].pc = "lock"
          /\ job'[s].op = "silentPause"
          /\ \/ /\ job'[s].pc = "done"
                /\ held' = held
             \/ /\ job'[s].pc = "write"
                /\ held["status"] = "free"
                /\ held' = [held EXCEPT !["status"] = s]
      BY <1>1, <2>5, SilentLockEffect DEF Moved, Steps
    <3>2. CASE job'[s].pc = "done" /\ held' = held
      <4>1. /\ ~HoldsStatus(job[s]) /\ ~HoldsGlobal(job[s])
            /\ ~HoldsAdmission(job[s])
            /\ ~HoldsStatus(job'[s]) /\ ~HoldsGlobal(job'[s])
            /\ ~HoldsAdmission(job'[s])
        BY <3>1, <3>2 DEF HoldsStatus, HoldsGlobal, HoldsAdmission
      <4>2. HoldsSame(s)
        BY <4>1, HoldsBy, LockFrame DEF HoldsSame
      <4> QED
        BY <1>1, <3>1, <3>2, <4>2, LockFrame, LocksKept
    <3>3. CASE /\ job'[s].pc = "write"
               /\ held["status"] = "free"
               /\ held' = [held EXCEPT !["status"] = s]
      <4>1. /\ ~HoldsStatus(job[s]) /\ ~HoldsGlobal(job[s])
            /\ ~HoldsAdmission(job[s])
            /\ HoldsStatus(job'[s]) /\ ~HoldsGlobal(job'[s])
            /\ ~HoldsAdmission(job'[s])
        BY <3>1, <3>3 DEF HoldsStatus, HoldsGlobal, HoldsAdmission
      <4>2. /\ Holds("status", job'[s])
            /\ \A k \in Locks \ {"status"} : Holds(k, job'[s]) <=> Holds(k, job[s])
        BY <4>1, LockFrame, HoldsBy
      <4> QED
        BY <1>1, <3>1, <3>3, <4>2, LockFrame, LockTaken
    <3> QED
      BY <3>1, <3>2, <3>3
  <2>6. CASE SilentWrite(s)
    <3>1. /\ OnlyJob(s) /\ job[s].op = "silentPause" /\ job[s].pc = "write"
          /\ job'[s].op = "silentPause"
          /\ job'[s].pc = "done"
          /\ held' = Release({"status"})
      BY <1>1, <2>6, SilentWriteEffect DEF Moved, Steps
    <3>2. /\ HoldsStatus(job[s]) /\ ~HoldsGlobal(job[s])
          /\ ~HoldsAdmission(job[s])
          /\ ~HoldsStatus(job'[s]) /\ ~HoldsGlobal(job'[s])
          /\ ~HoldsAdmission(job'[s])
      BY <3>1 DEF HoldsStatus, HoldsGlobal, HoldsAdmission
    <3> QED
      BY <1>1, <3>1, <3>2, LockFrame, LocksGiven, HoldsBy
  <2>7. CASE GlobalCheck(s)
    <3>1. /\ job[s].pc = "global" /\ held["global"] = "free"
          /\ held' = [held EXCEPT !["global"] = s]
          /\ \/ Moved(s, "checked")
             \/ /\ OnlyJobs(s) /\ Steps(s, "checking")
                /\ job'["nested"] = SafetyPause
      BY <1>1, <2>7, GlobalCheckEffect
    <3>2. s # "nested" /\ Fresh(job["nested"])
      <4>1. job["nested"].op = "none"
        BY <3>1, NestedIdle
      <4> QED
        BY <1>1, <3>1, <4>1, SlotTasks, SlotNames, Shapes
        DEF ShapeInv, Fresh
    <3>3. Others(s)
      BY <1>1, <3>1, <3>2, LockFrame, NestedFrame DEF Moved
    <3>4. job'[s].op = job[s].op /\ job'[s].pc \in {"checking", "checked"}
      BY <3>1 DEF Moved, Steps
    <3>5. job[s].op \in {"resume", "stopPause", "commit", "check"}
      BY <1>1, <3>1, SlotTasks
    <3>6. /\ HoldsGlobal(job'[s])
          /\ ~HoldsStatus(job[s]) /\ ~HoldsStatus(job'[s])
          /\ ~HoldsAdmission(job[s]) /\ ~HoldsAdmission(job'[s])
      BY <3>1, <3>4, <3>5 DEF HoldsStatus, HoldsGlobal, HoldsAdmission
    <3>7. /\ Holds("global", job'[s])
          /\ \A k \in Locks \ {"global"} : Holds(k, job'[s]) <=> Holds(k, job[s])
      BY <3>6, LockFrame, HoldsBy
    <3> QED
      BY <1>1, <3>1, <3>3, <3>7, LockFrame, LockTaken
  <2>8. CASE CheckPaused(s)
    <3>1. /\ job[s].pc = "checking" /\ job["nested"].pc = "done"
          /\ held' = held /\ OnlyJobs(s) /\ Steps(s, "checked")
          /\ job'["nested"] = NoJob
      BY <1>1, <2>8, CheckPausedEffect
    <3>2. s # "nested"
      BY <3>1
    <3>3. Others(s)
      BY <1>1, <3>1, <3>2, NestedFrame
    <3>4. job[s].op \in {"resume", "stopPause", "commit", "check"}
      BY <1>1, <3>1, SlotTasks
    <3>5. /\ HoldsGlobal(job[s]) /\ HoldsGlobal(job'[s])
          /\ ~HoldsStatus(job[s]) /\ ~HoldsStatus(job'[s])
          /\ ~HoldsAdmission(job[s]) /\ ~HoldsAdmission(job'[s])
      BY <3>1, <3>4 DEF HoldsStatus, HoldsGlobal, HoldsAdmission, Steps
    <3>6. HoldsSame(s)
      BY <3>5, HoldsBy, LockFrame DEF HoldsSame
    <3> QED
      BY <1>1, <3>1, <3>3, <3>6, LocksKept
  <2>9. CASE Checked(s)
    <3>1. /\ job[s].pc = "checked"
          /\ job[s].op \in {"resume", "stopPause", "commit", "check"}
      BY <1>1, <2>9, CheckedEffect
    <3>2. /\ HoldsGlobal(job[s])
          /\ ~HoldsStatus(job[s]) /\ ~HoldsAdmission(job[s])
      BY <3>1 DEF HoldsStatus, HoldsGlobal, HoldsAdmission
    <3>3. /\ OnlyJob(s)
          /\ \/ /\ job'[s].pc \in {"idle", "done"}
                /\ held' = Release({"global"})
             \/ /\ job'[s].op \in {"resume", "stopPause"}
                /\ job'[s].pc = "lock" /\ held' = held
             \/ /\ job'[s].op = "commit"
                /\ job'[s].pc = "admit" /\ held' = held
      BY <1>1, <2>9, CheckedEffect
      DEF Moved, Steps, Placed, NoJob, NewJob
    <3>4. CASE job'[s].pc \in {"idle", "done"} /\ held' = Release({"global"})
      BY <1>1, <3>2, <3>3, <3>4, LockFrame, LocksGiven, HoldsBy
    <3>5. CASE /\ held' = held
               /\ \/ /\ job'[s].op \in {"resume", "stopPause"}
                     /\ job'[s].pc = "lock"
                  \/ /\ job'[s].op = "commit" /\ job'[s].pc = "admit"
      <4>1. /\ HoldsGlobal(job'[s])
            /\ ~HoldsStatus(job'[s]) /\ ~HoldsAdmission(job'[s])
        BY <3>5 DEF HoldsStatus, HoldsGlobal, HoldsAdmission
      <4>2. HoldsSame(s)
        BY <3>2, <4>1, HoldsBy, LockFrame DEF HoldsSame
      <4> QED
        BY <1>1, <3>3, <3>5, <4>2, LockFrame, LocksKept
    <3> QED
      BY <3>3, <3>4, <3>5
  <2>10. CASE ResumeLock(s)
    <3>1. /\ OnlyJob(s) /\ job[s].op = "resume" /\ job[s].pc = "lock"
          /\ job'[s].op = "resume"
          /\ \/ /\ job'[s].pc = "write"
                /\ held["status"] = "free"
                /\ held' = [held EXCEPT !["status"] = s]
             \/ /\ job'[s].pc = "done"
                /\ held' = Release({"global"})
      BY <1>1, <2>10, ResumeLockEffect DEF Moved, Steps
    <3>2. CASE /\ job'[s].pc = "write"
               /\ held["status"] = "free"
               /\ held' = [held EXCEPT !["status"] = s]
      <4>1. /\ ~HoldsStatus(job[s]) /\ HoldsGlobal(job[s])
            /\ ~HoldsAdmission(job[s])
            /\ HoldsStatus(job'[s]) /\ HoldsGlobal(job'[s])
            /\ ~HoldsAdmission(job'[s])
        BY <3>1, <3>2 DEF HoldsStatus, HoldsGlobal, HoldsAdmission
      <4>2. /\ Holds("status", job'[s])
            /\ \A k \in Locks \ {"status"} : Holds(k, job'[s]) <=> Holds(k, job[s])
        BY <4>1, LockFrame, HoldsBy
      <4> QED
        BY <1>1, <3>1, <3>2, <4>2, LockFrame, LockTaken
    <3>3. CASE job'[s].pc = "done" /\ held' = Release({"global"})
      <4>1. /\ ~HoldsStatus(job[s]) /\ HoldsGlobal(job[s])
            /\ ~HoldsAdmission(job[s])
            /\ ~HoldsStatus(job'[s]) /\ ~HoldsGlobal(job'[s])
            /\ ~HoldsAdmission(job'[s])
        BY <3>1, <3>3 DEF HoldsStatus, HoldsGlobal, HoldsAdmission
      <4> QED
        BY <1>1, <3>1, <3>3, <4>1, LockFrame, LocksGiven, HoldsBy
    <3> QED
      BY <3>1, <3>2, <3>3
  <2>11. CASE ResumeWrite(s)
    <3>1. /\ OnlyJob(s) /\ job[s].op = "resume" /\ job[s].pc = "write"
          /\ job'[s].op = "resume"
          /\ \/ /\ job'[s].pc = "install"
                /\ held' = held
             \/ /\ job'[s].pc = "done"
                /\ held' = Release({"global", "status"})
      BY <1>1, <2>11, ResumeWriteEffect DEF Moved, Steps
    <3>2. CASE job'[s].pc = "install" /\ held' = held
      <4>1. /\ HoldsStatus(job[s]) /\ HoldsGlobal(job[s])
            /\ ~HoldsAdmission(job[s])
            /\ HoldsStatus(job'[s]) /\ HoldsGlobal(job'[s])
            /\ ~HoldsAdmission(job'[s])
        BY <3>1, <3>2 DEF HoldsStatus, HoldsGlobal, HoldsAdmission
      <4>2. HoldsSame(s)
        BY <4>1, HoldsBy, LockFrame DEF HoldsSame
      <4> QED
        BY <1>1, <3>1, <3>2, <4>2, LockFrame, LocksKept
    <3>3. CASE job'[s].pc = "done" /\ held' = Release({"global", "status"})
      <4>1. /\ HoldsStatus(job[s]) /\ HoldsGlobal(job[s])
            /\ ~HoldsAdmission(job[s])
            /\ ~HoldsStatus(job'[s]) /\ ~HoldsGlobal(job'[s])
            /\ ~HoldsAdmission(job'[s])
        BY <3>1, <3>3 DEF HoldsStatus, HoldsGlobal, HoldsAdmission
      <4> QED
        BY <1>1, <3>1, <3>3, <4>1, LockFrame, LocksGiven, HoldsBy
    <3> QED
      BY <3>1, <3>2, <3>3
  <2>12. CASE ResumeInstall(s)
    <3>1. /\ OnlyJob(s) /\ job[s].op = "resume" /\ job[s].pc = "install"
          /\ job'[s].op = "resume"
          /\ job'[s].pc = "done"
          /\ held' = Release({"global", "status"})
      BY <1>1, <2>12, ResumeInstallEffect DEF Moved, Steps
    <3>2. /\ HoldsStatus(job[s]) /\ HoldsGlobal(job[s])
          /\ ~HoldsAdmission(job[s])
          /\ ~HoldsStatus(job'[s]) /\ ~HoldsGlobal(job'[s])
          /\ ~HoldsAdmission(job'[s])
      BY <3>1 DEF HoldsStatus, HoldsGlobal, HoldsAdmission
    <3> QED
      BY <1>1, <3>1, <3>2, LockFrame, LocksGiven, HoldsBy
  <2>13. CASE StopLock(s)
    <3>1. /\ OnlyJob(s) /\ job[s].op = "stopPause" /\ job[s].pc = "lock"
          /\ job'[s].op = "stopPause"
          /\ job'[s].pc = "write"
          /\ held["status"] = "free"
          /\ held' = [held EXCEPT !["status"] = s]
      BY <1>1, <2>13, StopLockEffect DEF Moved, Steps
    <3>2. /\ ~HoldsStatus(job[s]) /\ HoldsGlobal(job[s])
          /\ ~HoldsAdmission(job[s])
          /\ HoldsStatus(job'[s]) /\ HoldsGlobal(job'[s])
          /\ ~HoldsAdmission(job'[s])
      BY <3>1 DEF HoldsStatus, HoldsGlobal, HoldsAdmission
    <3>3. /\ Holds("status", job'[s])
          /\ \A k \in Locks \ {"status"} : Holds(k, job'[s]) <=> Holds(k, job[s])
      BY <3>2, LockFrame, HoldsBy
    <3> QED
      BY <1>1, <3>1, <3>3, LockFrame, LockTaken
  <2>14. CASE StopWrite(s)
    <3>1. /\ OnlyJob(s) /\ job[s].op = "stopPause" /\ job[s].pc = "write"
          /\ job'[s].op = "stopPause"
          /\ job'[s].pc = "done"
          /\ held' = Release({"global", "status"})
      BY <1>1, <2>14, StopWriteEffect DEF Moved, Steps
    <3>2. /\ HoldsStatus(job[s]) /\ HoldsGlobal(job[s])
          /\ ~HoldsAdmission(job[s])
          /\ ~HoldsStatus(job'[s]) /\ ~HoldsGlobal(job'[s])
          /\ ~HoldsAdmission(job'[s])
      BY <3>1 DEF HoldsStatus, HoldsGlobal, HoldsAdmission
    <3> QED
      BY <1>1, <3>1, <3>2, LockFrame, LocksGiven, HoldsBy
  <2>15. CASE CommitAdmit(s)
    <3>1. /\ OnlyJob(s) /\ job[s].op = "commit" /\ job[s].pc = "admit"
          /\ job'[s].op = "commit"
          /\ job'[s].pc = "lock"
          /\ held["admission"] = "free"
          /\ held' = [held EXCEPT !["admission"] = s]
      BY <1>1, <2>15, CommitAdmitEffect DEF Moved, Steps
    <3>2. /\ ~HoldsStatus(job[s]) /\ HoldsGlobal(job[s])
          /\ ~HoldsAdmission(job[s])
          /\ ~HoldsStatus(job'[s]) /\ HoldsGlobal(job'[s])
          /\ HoldsAdmission(job'[s])
      BY <3>1 DEF HoldsStatus, HoldsGlobal, HoldsAdmission
    <3>3. /\ Holds("admission", job'[s])
          /\ \A k \in Locks \ {"admission"} : Holds(k, job'[s]) <=> Holds(k, job[s])
      BY <3>2, LockFrame, HoldsBy
    <3> QED
      BY <1>1, <3>1, <3>3, LockFrame, LockTaken
  <2>16. CASE CommitLock(s)
    <3>1. /\ OnlyJob(s) /\ job[s].op = "commit" /\ job[s].pc = "lock"
          /\ job'[s].op = "commit"
          /\ \/ /\ job'[s].pc = "done"
                /\ held' = Release({"global", "admission"})
             \/ /\ job'[s].pc = "write"
                /\ held["status"] = "free"
                /\ held' = [held EXCEPT !["status"] = s]
             \/ /\ job'[s].pc = "clear"
                /\ held["status"] = "free"
                /\ held' = [held EXCEPT !["status"] = s]
      BY <1>1, <2>16, CommitLockEffect DEF Moved, Steps
    <3>2. CASE job'[s].pc = "done" /\ held' = Release({"global", "admission"})
      <4>1. /\ ~HoldsStatus(job[s]) /\ HoldsGlobal(job[s])
            /\ HoldsAdmission(job[s])
            /\ ~HoldsStatus(job'[s]) /\ ~HoldsGlobal(job'[s])
            /\ ~HoldsAdmission(job'[s])
        BY <3>1, <3>2 DEF HoldsStatus, HoldsGlobal, HoldsAdmission
      <4> QED
        BY <1>1, <3>1, <3>2, <4>1, LockFrame, LocksGiven, HoldsBy
    <3>3. CASE /\ job'[s].pc = "write"
               /\ held["status"] = "free"
               /\ held' = [held EXCEPT !["status"] = s]
      <4>1. /\ ~HoldsStatus(job[s]) /\ HoldsGlobal(job[s])
            /\ HoldsAdmission(job[s])
            /\ HoldsStatus(job'[s]) /\ HoldsGlobal(job'[s])
            /\ HoldsAdmission(job'[s])
        BY <3>1, <3>3 DEF HoldsStatus, HoldsGlobal, HoldsAdmission
      <4>2. /\ Holds("status", job'[s])
            /\ \A k \in Locks \ {"status"} : Holds(k, job'[s]) <=> Holds(k, job[s])
        BY <4>1, LockFrame, HoldsBy
      <4> QED
        BY <1>1, <3>1, <3>3, <4>2, LockFrame, LockTaken
    <3>4. CASE /\ job'[s].pc = "clear"
               /\ held["status"] = "free"
               /\ held' = [held EXCEPT !["status"] = s]
      <4>1. /\ ~HoldsStatus(job[s]) /\ HoldsGlobal(job[s])
            /\ HoldsAdmission(job[s])
            /\ HoldsStatus(job'[s]) /\ HoldsGlobal(job'[s])
            /\ HoldsAdmission(job'[s])
        BY <3>1, <3>4 DEF HoldsStatus, HoldsGlobal, HoldsAdmission
      <4>2. /\ Holds("status", job'[s])
            /\ \A k \in Locks \ {"status"} : Holds(k, job'[s]) <=> Holds(k, job[s])
        BY <4>1, LockFrame, HoldsBy
      <4> QED
        BY <1>1, <3>1, <3>4, <4>2, LockFrame, LockTaken
    <3> QED
      BY <3>1, <3>2, <3>3, <3>4
  <2>17. CASE CommitWrite(s)
    <3>1. /\ OnlyJob(s) /\ job[s].op = "commit" /\ job[s].pc = "write"
          /\ job'[s].op = "commit"
          /\ \/ /\ job'[s].pc = "clear"
                /\ held' = held
             \/ /\ job'[s].pc = "done"
                /\ held' = Release(Locks)
      BY <1>1, <2>17, CommitWriteEffect DEF Moved, Steps
    <3>2. CASE job'[s].pc = "clear" /\ held' = held
      <4>1. /\ HoldsStatus(job[s]) /\ HoldsGlobal(job[s])
            /\ HoldsAdmission(job[s])
            /\ HoldsStatus(job'[s]) /\ HoldsGlobal(job'[s])
            /\ HoldsAdmission(job'[s])
        BY <3>1, <3>2 DEF HoldsStatus, HoldsGlobal, HoldsAdmission
      <4>2. HoldsSame(s)
        BY <4>1, HoldsBy, LockFrame DEF HoldsSame
      <4> QED
        BY <1>1, <3>1, <3>2, <4>2, LockFrame, LocksKept
    <3>3. CASE job'[s].pc = "done" /\ held' = Release(Locks)
      <4>1. /\ HoldsStatus(job[s]) /\ HoldsGlobal(job[s])
            /\ HoldsAdmission(job[s])
            /\ ~HoldsStatus(job'[s]) /\ ~HoldsGlobal(job'[s])
            /\ ~HoldsAdmission(job'[s])
        BY <3>1, <3>3 DEF HoldsStatus, HoldsGlobal, HoldsAdmission
      <4> QED
        BY <1>1, <3>1, <3>3, <4>1, LockFrame, LocksGiven, HoldsBy
    <3> QED
      BY <3>1, <3>2, <3>3
  <2>18. CASE CommitClear(s)
    <3>1. /\ OnlyJob(s) /\ job[s].op = "commit" /\ job[s].pc = "clear"
          /\ job'[s].op = "commit"
          /\ job'[s].pc = "done"
          /\ held' = Release(Locks)
      BY <1>1, <2>18, CommitClearEffect DEF Moved, Steps
    <3>2. /\ HoldsStatus(job[s]) /\ HoldsGlobal(job[s])
          /\ HoldsAdmission(job[s])
          /\ ~HoldsStatus(job'[s]) /\ ~HoldsGlobal(job'[s])
          /\ ~HoldsAdmission(job'[s])
      BY <3>1 DEF HoldsStatus, HoldsGlobal, HoldsAdmission
    <3> QED
      BY <1>1, <3>1, <3>2, LockFrame, LocksGiven, HoldsBy
  <2>19. CASE SaveLock(s)
    <3>1. /\ OnlyJob(s) /\ job[s].op = "save" /\ job[s].pc = "lock"
          /\ job'[s].op = "save"
          /\ \/ /\ job'[s].pc = "write"
                /\ held["status"] = "free"
                /\ held' = [held EXCEPT !["status"] = s]
             \/ /\ job'[s].pc = "done"
                /\ held' = held
      BY <1>1, <2>19, SaveLockEffect DEF Moved, Steps
    <3>2. CASE /\ job'[s].pc = "write"
               /\ held["status"] = "free"
               /\ held' = [held EXCEPT !["status"] = s]
      <4>1. /\ ~HoldsStatus(job[s]) /\ ~HoldsGlobal(job[s])
            /\ ~HoldsAdmission(job[s])
            /\ HoldsStatus(job'[s]) /\ ~HoldsGlobal(job'[s])
            /\ ~HoldsAdmission(job'[s])
        BY <3>1, <3>2 DEF HoldsStatus, HoldsGlobal, HoldsAdmission
      <4>2. /\ Holds("status", job'[s])
            /\ \A k \in Locks \ {"status"} : Holds(k, job'[s]) <=> Holds(k, job[s])
        BY <4>1, LockFrame, HoldsBy
      <4> QED
        BY <1>1, <3>1, <3>2, <4>2, LockFrame, LockTaken
    <3>3. CASE job'[s].pc = "done" /\ held' = held
      <4>1. /\ ~HoldsStatus(job[s]) /\ ~HoldsGlobal(job[s])
            /\ ~HoldsAdmission(job[s])
            /\ ~HoldsStatus(job'[s]) /\ ~HoldsGlobal(job'[s])
            /\ ~HoldsAdmission(job'[s])
        BY <3>1, <3>3 DEF HoldsStatus, HoldsGlobal, HoldsAdmission
      <4>2. HoldsSame(s)
        BY <4>1, HoldsBy, LockFrame DEF HoldsSame
      <4> QED
        BY <1>1, <3>1, <3>3, <4>2, LockFrame, LocksKept
    <3> QED
      BY <3>1, <3>2, <3>3
  <2>20. CASE SaveWrite(s)
    <3>1. /\ OnlyJob(s) /\ job[s].op = "save" /\ job[s].pc = "write"
          /\ job'[s].op = "save"
          /\ \/ /\ job'[s].pc = "install"
                /\ held' = held
             \/ /\ job'[s].pc = "done"
                /\ held' = Release({"status"})
      BY <1>1, <2>20, SaveWriteEffect DEF Moved, Steps
    <3>2. CASE job'[s].pc = "install" /\ held' = held
      <4>1. /\ HoldsStatus(job[s]) /\ ~HoldsGlobal(job[s])
            /\ ~HoldsAdmission(job[s])
            /\ HoldsStatus(job'[s]) /\ ~HoldsGlobal(job'[s])
            /\ ~HoldsAdmission(job'[s])
        BY <3>1, <3>2 DEF HoldsStatus, HoldsGlobal, HoldsAdmission
      <4>2. HoldsSame(s)
        BY <4>1, HoldsBy, LockFrame DEF HoldsSame
      <4> QED
        BY <1>1, <3>1, <3>2, <4>2, LockFrame, LocksKept
    <3>3. CASE job'[s].pc = "done" /\ held' = Release({"status"})
      <4>1. /\ HoldsStatus(job[s]) /\ ~HoldsGlobal(job[s])
            /\ ~HoldsAdmission(job[s])
            /\ ~HoldsStatus(job'[s]) /\ ~HoldsGlobal(job'[s])
            /\ ~HoldsAdmission(job'[s])
        BY <3>1, <3>3 DEF HoldsStatus, HoldsGlobal, HoldsAdmission
      <4> QED
        BY <1>1, <3>1, <3>3, <4>1, LockFrame, LocksGiven, HoldsBy
    <3> QED
      BY <3>1, <3>2, <3>3
  <2>21. CASE SaveInstall(s)
    <3>1. /\ OnlyJob(s) /\ job[s].op = "save" /\ job[s].pc = "install"
          /\ job'[s].op = "save"
          /\ job'[s].pc = "done"
          /\ held' = Release({"status"})
      BY <1>1, <2>21, SaveInstallEffect DEF Moved, Steps
    <3>2. /\ HoldsStatus(job[s]) /\ ~HoldsGlobal(job[s])
          /\ ~HoldsAdmission(job[s])
          /\ ~HoldsStatus(job'[s]) /\ ~HoldsGlobal(job'[s])
          /\ ~HoldsAdmission(job'[s])
      BY <3>1 DEF HoldsStatus, HoldsGlobal, HoldsAdmission
    <3> QED
      BY <1>1, <3>1, <3>2, LockFrame, LocksGiven, HoldsBy
  <2> QED
    BY <1>4, <2>1, <2>2, <2>3, <2>4, <2>5, <2>6, <2>7, <2>8, <2>9, <2>10, <2>11,
       <2>12, <2>13, <2>14, <2>15, <2>16, <2>17, <2>18, <2>19, <2>20, <2>21
    DEF TaskStep
<1>5. CASE EngineMoves
  BY <1>2, <1>3, <1>5, SlotNames DEF EngineMoves
<1>6. CASE RequestMoves
  BY <1>2, <1>3, <1>6, SlotNames DEF RequestMoves
<1>7. CASE Shutdown
  BY <1>2, <1>7, SlotNames, ShutdownEffect
<1>8. CASE LifePaused \/ LifeReplied \/ Deadline
  BY <1>2, <1>3, <1>8, SlotNames, LifeEffect DEF LifeFails
<1>9. CASE GoDown
  <2>1. /\ \A s \in Slots : job'[s].pc = "idle" /\ s # "free"
        /\ \A l \in Locks : held'[l] = "free"
    BY <1>9, SMT DEF GoDown, NoJob, NewJob, Slots
  <2>2. \A s \in Slots, l \in Locks : ~Holds(l, job'[s])
    BY <2>1, HoldsBy, LockFrame
  <2> QED
    BY <2>1, <2>2 DEF LockInv
<1>10. CASE Boot
  BY <1>3, <1>10 DEF Boot
<1> QED
  BY StepCases, <1>4, <1>5, <1>6, <1>7, <1>8, <1>9, <1>10

-----------------------------------------------------------------------------
(* The coordinator and the pending count.                                   *)

\* No step of a task gives an epoch back or revokes a shutdown, and none
\* changes the mode but the one that follows a saved configuration.
LEMMA TaskKeeps ==
  ASSUME TypeOK, ShapeInv, NEW s \in Slots, TaskStep(s)
  PROVE  /\ app'.stopping = app.stopping
         /\ app'.pauseEpoch >= app.pauseEpoch
         /\ app'.safetyEpoch >= app.safetyEpoch
         /\ seen'.stops >= seen.stops
<1>1. /\ app.pauseEpoch \in Nat /\ app.safetyEpoch \in Nat
      /\ seen.stops \in Nat
  BY DEF TypeOK
<1>2. CASE PauseAdmit(s)
  BY <1>1, <1>2, PauseAdmitEffect
<1>3. CASE PauseLock(s)
  BY <1>1, <1>3, PauseLockEffect
<1>4. CASE PauseWrite(s)
  BY <1>1, <1>4, PauseWriteEffect
<1>5. CASE PauseClose(s)
  BY <1>1, <1>5, PauseCloseEffect
<1>6. CASE SilentLock(s)
  BY <1>1, <1>6, SilentLockEffect
<1>7. CASE SilentWrite(s)
  BY <1>1, <1>7, SilentWriteEffect
<1>8. CASE GlobalCheck(s)
  BY <1>1, <1>8, GlobalCheckEffect
<1>9. CASE CheckPaused(s)
  BY <1>1, <1>9, CheckPausedEffect
<1>10. CASE Checked(s)
  BY <1>1, <1>10, CheckedEffect
<1>11. CASE ResumeLock(s)
  BY <1>1, <1>11, ResumeLockEffect
<1>12. CASE ResumeWrite(s)
  BY <1>1, <1>12, ResumeWriteEffect
<1>13. CASE ResumeInstall(s)
  BY <1>1, <1>13, ResumeInstallEffect
<1>14. CASE StopLock(s)
  BY <1>1, <1>14, StopLockEffect
<1>15. CASE StopWrite(s)
  <2>1. seen' = seen
    BY <1>15, StopWriteEffect
  <2>2. /\ app'.stopping = app.stopping
        /\ app'.pauseEpoch = app.pauseEpoch
        /\ app'.safetyEpoch = app.safetyEpoch
    BY <1>15, StopWriteEffect
  <2> QED
    BY <1>1, <2>1, <2>2
<1>16. CASE CommitAdmit(s)
  BY <1>1, <1>16, CommitAdmitEffect
<1>17. CASE CommitLock(s)
  BY <1>1, <1>17, CommitLockEffect
<1>18. CASE CommitWrite(s)
  BY <1>1, <1>18, CommitWriteEffect
<1>19. CASE CommitClear(s)
  <2>1. seen' = seen
    BY <1>19, CommitClearEffect
  <2>2. /\ app'.stopping = app.stopping
        /\ app'.pauseEpoch = app.pauseEpoch
        /\ app'.safetyEpoch = app.safetyEpoch
    BY <1>19, CommitClearEffect
  <2> QED
    BY <1>1, <2>1, <2>2
<1>20. CASE SaveLock(s)
  BY <1>1, <1>20, SaveLockEffect
<1>21. CASE SaveWrite(s)
  BY <1>1, <1>21, SaveWriteEffect
<1>22. CASE SaveInstall(s)
  BY <1>1, <1>22, SaveInstallEffect
<1> QED
  BY <1>2, <1>3, <1>4, <1>5, <1>6, <1>7, <1>8, <1>9, <1>10, <1>11, <1>12, <1>13,
     <1>14, <1>15, <1>16, <1>17, <1>18, <1>19, <1>20, <1>21, <1>22
  DEF TaskStep

\* Every step leaves the coordinator with the tasks it started.
LEMMA LifeStepKeeps ==
  ASSUME TaskInv, Next
  PROVE  LifeInv'
<1>1. TypeOK /\ ShapeInv /\ LifeInv
  BY DEF TaskInv
<1>2. ASSUME NEW s \in Slots, TaskStep(s) PROVE LifeInv'
  <2>1. TaskMoves(s) /\ UNCHANGED <<engine, life>>
    BY <1>1, <1>2, TaskStepMoves
  <2>2. app'.stopping = app.stopping
    BY <1>1, <1>2, TaskKeeps
  <2>3. /\ job'["stop"].op = job["stop"].op
        /\ job'["final"].op = job["final"].op
    BY <2>1, SlotNames DEF TaskMoves, Goes, OnlyJob, OnlyJobs, Steps, Placed
  <2>4. StopDone => job'["stop"] = job["stop"]
    BY <2>1, SlotNames
    DEF TaskMoves, Goes, OnlyJob, OnlyJobs, Steps, Placed, StopDone
  <2>5. StopDone => StopDone'
    BY <2>4 DEF StopDone
  <2> QED
    BY <1>1, <2>1, <2>2, <2>3, <2>5 DEF LifeInv
<1>3. ASSUME NEW s \in {"engine", "user", "monitor"}, job' = job \/ Starts(s)
      PROVE  job'["stop"] = job["stop"] /\ job'["final"] = job["final"]
  BY <1>3, SlotNames DEF Starts, OnlyJob
<1>4. CASE EngineMoves
  <2>1. job'["stop"] = job["stop"] /\ job'["final"] = job["final"]
    BY <1>3, <1>4 DEF EngineMoves
  <2> QED
    BY <1>1, <1>4, <2>1 DEF EngineMoves, LifeInv, StopDone
<1>5. CASE RequestMoves
  <2>1. job'["stop"] = job["stop"] /\ job'["final"] = job["final"]
    BY <1>3, <1>5 DEF RequestMoves
  <2> QED
    BY <1>1, <1>5, <2>1 DEF RequestMoves, LifeInv, StopDone
<1>6. CASE Shutdown
  <2>1. job'["final"] = job["final"]
    BY <1>6, SlotNames, ShutdownEffect DEF Starts, OnlyJob
  <2> QED
    BY <1>1, <1>6, <2>1, ShutdownEffect DEF LifeInv
<1>7. CASE LifePaused \/ LifeReplied \/ Deadline
  <2>1. Starts("final") => job'["stop"] = job["stop"]
    BY SlotNames DEF Starts, OnlyJob
  <2>2. CASE LifeFails
    BY <1>1, <1>7, <2>1, <2>2, LifeEffect
    DEF LifeFails, LifeInv, SafetyPause, NewJob
  <2>3. CASE /\ life = "pausing" /\ life' = "waiting"
             /\ job["stop"].pc = "done" /\ job["stop"].ok
             /\ UNCHANGED <<job, engine>>
    <3>1. job["stop"].op = "stopPause"
      BY <1>1, <2>3, SlotNames, Shapes DEF LifeInv, ShapeInv
    <3> QED
      BY <1>1, <1>7, <2>3, <3>1, LifeEffect DEF LifeInv, StopDone
  <2>4. CASE /\ life = "waiting" /\ life' = "finishing"
             /\ engine.pc = "exited" /\ UNCHANGED <<engine, queue>>
             /\ Starts("final") /\ job'["final"].op = "commit"
    BY <1>1, <1>7, <2>1, <2>4, LifeEffect DEF LifeInv, StopDone
  <2> QED
    BY <1>7, <2>2, <2>3, <2>4, LifeEffect
<1>8. CASE GoDown
  BY <1>8, SlotNames
  DEF GoDown, LifeInv, StopDone, NoJob, NewJob, NewEngine
<1>9. CASE Boot
  <2>1. life = "none" /\ job' = job /\ engine' = engine /\ life' = life
    BY <1>9 DEF Boot, TaskInv, DownInv
  <2> QED
    BY <1>1, <2>1 DEF LifeInv, StopDone
<1> QED
  BY StepCases, <1>2, <1>4, <1>5, <1>6, <1>7, <1>8, <1>9

\* The pending count follows the one task that a step changes.
LEMMA PendShift ==
  ASSUME TypeOK, PendInv, NEW s \in Slots, OnlyJob(s), app'.pending \in Nat,
         app'.pending = app.pending + Pending(job'[s]) - Pending(job[s]),
         s \in {"monitor", "stop"} => Pending(job'[s]) = Pending(job[s])
  PROVE  PendInv'
<1>1. \A t \in Slots : Pending(job[t]) \in {0, 1} /\ Pending(job'[t]) \in {0, 1}
  BY DEF Pending
<1>2. \A t \in Slots : t # s => Pending(job'[t]) = Pending(job[t])
  BY DEF OnlyJob
<1>3. app.pending \in Nat
  BY DEF TypeOK
<1> HIDE DEF Pending
<1> QED
  BY <1>1, <1>2, <1>3, SlotNames, SMT DEF PendInv, Slots

\* A task that starts or ends is not counted.
LEMMA PendStarts ==
  ASSUME TypeOK, PendInv, app'.pending = app.pending,
         job' = job \/ \E s \in Slots : Starts(s)
  PROVE  PendInv'
<1>1. app.pending \in Nat
  BY DEF TypeOK
<1>2. CASE job' = job
  BY <1>2 DEF PendInv
<1>3. ASSUME NEW s \in Slots, Starts(s) PROVE PendInv'
  <2>1. Pending(job[s]) = 0 /\ Pending(job'[s]) = 0
    BY <1>3, SMT DEF Starts, Fresh, Pending
  <2> QED
    BY <1>1, <1>3, <2>1, PendShift DEF Starts
<1> QED
  BY <1>2, <1>3

\* Every step keeps the pending count the number of pauses under way.
LEMMA PendStep ==
  ASSUME TaskInv, Next
  PROVE  PendInv'
<1>1. TypeOK /\ ShapeInv /\ PendInv /\ {app.pending, app'.pending} \subseteq Nat
  BY TypeStep DEF TaskInv, TypeOK
<1>2. ASSUME NEW s \in Slots, OnlyJob(s), app'.pending = app.pending,
             Pending(job'[s]) = Pending(job[s])
      PROVE  PendInv'
  <2>1. Pending(job[s]) \in {0, 1}
    BY DEF Pending
  <2> HIDE DEF Pending
  <2> QED
    BY <1>1, <1>2, <2>1, PendShift
<1>3. /\ Pending(NoJob) = 0 /\ Pending(SafetyPause) = 0
  BY DEF Pending, NoJob, SafetyPause, NewJob
<1>4. ASSUME NEW s \in Slots, TaskStep(s) PROVE PendInv'
  <2>1. CASE PauseAdmit(s)
    <3>1. CASE Moved(s, "lock")
      <4>1. /\ Pending(job[s]) = 0 /\ Pending(job'[s]) = 1
            /\ app'.pending = app.pending + 1
            /\ s \notin {"monitor", "stop"}
        BY <1>1, <2>1, <3>1, PauseAdmitEffect, SlotTasks
        DEF Moved, Steps, Pending
      <4> QED
        BY <1>1, <3>1, <4>1, PendShift DEF Moved
    <3>2. CASE Moved(s, "done") /\ app' = app
      <4>1. Pending(job[s]) = 0 /\ Pending(job'[s]) = 0
        BY <1>1, <2>1, <3>2, PauseAdmitEffect DEF Moved, Steps, Pending
      <4> QED
        BY <1>2, <3>2, <4>1 DEF Moved
    <3> QED
      BY <1>1, <2>1, <3>1, <3>2, PauseAdmitEffect
  <2>2. CASE PauseLock(s)
    <3>1. OnlyJob(s) /\ app'.pending = app.pending
      BY <1>1, <2>2, PauseLockEffect DEF Moved
    <3>2. Pending(job'[s]) = Pending(job[s])
      BY <1>1, <2>2, PauseLockEffect DEF Moved, Steps, Pending
    <3> QED
      BY <1>2, <3>1, <3>2
  <2>3. CASE PauseWrite(s)
    <3>1. OnlyJob(s) /\ app'.pending = app.pending
      BY <1>1, <2>3, PauseWriteEffect DEF Moved
    <3>2. Pending(job'[s]) = Pending(job[s])
      BY <1>1, <2>3, PauseWriteEffect DEF Moved, Steps, Pending
    <3> QED
      BY <1>2, <3>1, <3>2
  <2>4. CASE PauseClose(s)
    <3>1. /\ Pending(job[s]) = 1 /\ Pending(job'[s]) = 0 /\ OnlyJob(s)
          /\ app'.pending = app.pending - 1
          /\ s \notin {"monitor", "stop"}
      BY <1>1, <2>4, PauseCloseEffect, SlotTasks DEF Moved, Steps, Pending
    <3> QED
      BY <1>1, <3>1, PendShift
  <2>5. CASE SilentLock(s)
    <3>1. OnlyJob(s) /\ app'.pending = app.pending
      BY <1>1, <2>5, SilentLockEffect DEF Moved
    <3>2. Pending(job'[s]) = Pending(job[s])
      BY <1>1, <2>5, SilentLockEffect DEF Moved, Steps, Pending
    <3> QED
      BY <1>2, <3>1, <3>2
  <2>6. CASE SilentWrite(s)
    <3>1. OnlyJob(s) /\ app'.pending = app.pending
      BY <1>1, <2>6, SilentWriteEffect DEF Moved
    <3>2. Pending(job'[s]) = Pending(job[s])
      BY <1>1, <2>6, SilentWriteEffect DEF Moved, Steps, Pending
    <3> QED
      BY <1>2, <3>1, <3>2
  <2>7. CASE GlobalCheck(s)
    <3>1. CASE Moved(s, "checked")
      <4>1. Pending(job[s]) = 0 /\ Pending(job'[s]) = 0 /\ app'.pending = app.pending
        BY <1>1, <2>7, <3>1, GlobalCheckEffect DEF Moved, Steps, Pending
      <4> QED
        BY <1>2, <3>1, <4>1 DEF Moved
    <3>2. CASE ~Moved(s, "checked")
      <4>1. /\ OnlyJobs(s) /\ Steps(s, "checking")
            /\ job'["nested"] = SafetyPause /\ app' = app
            /\ job[s].pc = "global" /\ held["global"] = "free"
        BY <1>1, <2>7, <3>2, GlobalCheckEffect
      <4>2. job["nested"].op = "none"
        BY <4>1, NestedIdle
      <4>3. /\ Pending(job["nested"]) = 0 /\ Pending(job[s]) = 0
            /\ Pending(job'[s]) = 0
        BY <1>3, <4>1, <4>2 DEF Pending, Steps
      <4>4. \A t \in Slots : Pending(job'[t]) = Pending(job[t])
        BY <1>3, <4>1, <4>3 DEF OnlyJobs
      <4> QED
        BY <1>1, <4>1, <4>4, SlotNames DEF PendInv
    <3> QED
      BY <3>1, <3>2
  <2>8. CASE CheckPaused(s)
    <3>1. /\ OnlyJobs(s) /\ Steps(s, "checked") /\ app' = app
          /\ job'["nested"] = NoJob
          /\ job[s].pc = "checking" /\ job["nested"].pc = "done"
      BY <1>1, <2>8, CheckPausedEffect
    <3>2. /\ Pending(job["nested"]) = 0 /\ Pending(job[s]) = 0
          /\ Pending(job'[s]) = 0
      BY <1>3, <3>1 DEF Pending, Steps
    <3>3. \A t \in Slots : Pending(job'[t]) = Pending(job[t])
      BY <1>3, <3>1, <3>2 DEF OnlyJobs
    <3> QED
      BY <1>1, <3>1, <3>3, SlotNames DEF PendInv
  <2>9. CASE Checked(s)
    <3>1. OnlyJob(s) /\ app'.pending = app.pending
      BY <1>1, <2>9, CheckedEffect DEF Moved, Placed
    <3>2. Pending(job[s]) = 0 /\ Pending(job'[s]) = 0
      BY <1>1, <1>3, <2>9, CheckedEffect DEF Moved, Steps, Placed, Pending
    <3> QED
      BY <1>2, <3>1, <3>2
  <2>10. CASE ResumeLock(s)
    <3>1. OnlyJob(s) /\ app'.pending = app.pending
      BY <1>1, <2>10, ResumeLockEffect DEF Moved
    <3>2. Pending(job'[s]) = Pending(job[s])
      BY <1>1, <2>10, ResumeLockEffect DEF Moved, Steps, Pending
    <3> QED
      BY <1>2, <3>1, <3>2
  <2>11. CASE ResumeWrite(s)
    <3>1. OnlyJob(s) /\ app'.pending = app.pending
      BY <1>1, <2>11, ResumeWriteEffect DEF Moved
    <3>2. Pending(job'[s]) = Pending(job[s])
      BY <1>1, <2>11, ResumeWriteEffect DEF Moved, Steps, Pending
    <3> QED
      BY <1>2, <3>1, <3>2
  <2>12. CASE ResumeInstall(s)
    <3>1. OnlyJob(s) /\ app'.pending = app.pending
      BY <1>1, <2>12, ResumeInstallEffect DEF Moved
    <3>2. Pending(job'[s]) = Pending(job[s])
      BY <1>1, <2>12, ResumeInstallEffect DEF Moved, Steps, Pending
    <3> QED
      BY <1>2, <3>1, <3>2
  <2>13. CASE StopLock(s)
    <3>1. OnlyJob(s) /\ app'.pending = app.pending
      BY <1>1, <2>13, StopLockEffect DEF Moved
    <3>2. Pending(job'[s]) = Pending(job[s])
      BY <1>1, <2>13, StopLockEffect DEF Moved, Steps, Pending
    <3> QED
      BY <1>2, <3>1, <3>2
  <2>14. CASE StopWrite(s)
    <3>1. OnlyJob(s) /\ app'.pending = app.pending
      BY <1>1, <2>14, StopWriteEffect DEF Moved
    <3>2. Pending(job'[s]) = Pending(job[s])
      BY <1>1, <2>14, StopWriteEffect DEF Moved, Steps, Pending
    <3> QED
      BY <1>2, <3>1, <3>2
  <2>15. CASE CommitAdmit(s)
    <3>1. OnlyJob(s) /\ app'.pending = app.pending
      BY <1>1, <2>15, CommitAdmitEffect DEF Moved
    <3>2. Pending(job'[s]) = Pending(job[s])
      BY <1>1, <2>15, CommitAdmitEffect DEF Moved, Steps, Pending
    <3> QED
      BY <1>2, <3>1, <3>2
  <2>16. CASE CommitLock(s)
    <3>1. OnlyJob(s) /\ app'.pending = app.pending
      BY <1>1, <2>16, CommitLockEffect DEF Moved
    <3>2. Pending(job'[s]) = Pending(job[s])
      BY <1>1, <2>16, CommitLockEffect DEF Moved, Steps, Pending
    <3> QED
      BY <1>2, <3>1, <3>2
  <2>17. CASE CommitWrite(s)
    <3>1. OnlyJob(s) /\ app'.pending = app.pending
      BY <1>1, <2>17, CommitWriteEffect DEF Moved
    <3>2. Pending(job'[s]) = Pending(job[s])
      BY <1>1, <2>17, CommitWriteEffect DEF Moved, Steps, Pending
    <3> QED
      BY <1>2, <3>1, <3>2
  <2>18. CASE CommitClear(s)
    <3>1. OnlyJob(s) /\ app'.pending = app.pending
      BY <1>1, <2>18, CommitClearEffect DEF Moved
    <3>2. Pending(job'[s]) = Pending(job[s])
      BY <1>1, <2>18, CommitClearEffect DEF Moved, Steps, Pending
    <3> QED
      BY <1>2, <3>1, <3>2
  <2>19. CASE SaveLock(s)
    <3>1. OnlyJob(s) /\ app'.pending = app.pending
      BY <1>1, <2>19, SaveLockEffect DEF Moved
    <3>2. Pending(job'[s]) = Pending(job[s])
      BY <1>1, <2>19, SaveLockEffect DEF Moved, Steps, Pending
    <3> QED
      BY <1>2, <3>1, <3>2
  <2>20. CASE SaveWrite(s)
    <3>1. OnlyJob(s) /\ app'.pending = app.pending
      BY <1>1, <2>20, SaveWriteEffect DEF Moved
    <3>2. Pending(job'[s]) = Pending(job[s])
      BY <1>1, <2>20, SaveWriteEffect DEF Moved, Steps, Pending
    <3> QED
      BY <1>2, <3>1, <3>2
  <2>21. CASE SaveInstall(s)
    <3>1. OnlyJob(s) /\ app'.pending = app.pending
      BY <1>1, <2>21, SaveInstallEffect DEF Moved
    <3>2. Pending(job'[s]) = Pending(job[s])
      BY <1>1, <2>21, SaveInstallEffect DEF Moved, Steps, Pending
    <3> QED
      BY <1>2, <3>1, <3>2
  <2> QED
    BY <1>4, <2>1, <2>2, <2>3, <2>4, <2>5, <2>6, <2>7, <2>8, <2>9, <2>10, <2>11,
       <2>12, <2>13, <2>14, <2>15, <2>16, <2>17, <2>18, <2>19, <2>20, <2>21
    DEF TaskStep
<1>5. CASE EngineMoves
  BY <1>1, <1>5, PendStarts, SlotNames DEF EngineMoves
<1>6. CASE RequestMoves
  BY <1>1, <1>6, PendStarts, SlotNames DEF RequestMoves
<1>7. CASE Shutdown
  BY <1>1, <1>7, PendStarts, SlotNames, ShutdownEffect
<1>8. CASE LifePaused \/ LifeReplied \/ Deadline
  BY <1>1, <1>8, PendStarts, SlotNames, LifeEffect DEF LifeFails
<1>9. CASE GoDown
  BY <1>3, <1>9, SlotNames, SMT DEF GoDown, PendInv, NewApp
<1>10. CASE Boot
  BY <1>3, <1>10, SlotNames, SMT DEF Boot, TaskInv, DownInv, PendInv, NewApp
<1> QED
  BY StepCases, <1>4, <1>5, <1>6, <1>7, <1>8, <1>9, <1>10

\* The tasks and their locks are in order after every step.
LEMMA TaskInvStep ==
  ASSUME TaskInv, Next
  PROVE  TaskInv'
BY TypeStep, ShapeStep, JobStep, DownStep, LockStep, LifeStepKeeps, PendStep
DEF TaskInv

-----------------------------------------------------------------------------
(* What leaves alone what the stop orders and grants depend on.             *)

\* Which actions of a task touch the status, the counts, the epochs, the grant
\* and the database: the status and the database only with the status lock.
LEMMA TaskFrame ==
  ASSUME TypeOK, ShapeInv, NEW s \in Slots, TaskStep(s)
  PROVE  /\ PauseAdmit(s) \/ SaveWrite(s) \/ ResumeInstall(s) \/ seen' = seen
         /\ HoldsStatus(job[s]) \/ db' = db
         /\ SaveInstall(s) \/ app'.mode = app.mode
         /\ \/ PauseLock(s) \/ SilentLock(s) \/ StopLock(s)
            \/ ResumeInstall(s) \/ SaveInstall(s) \/ app'.status = app.status
         /\ PauseAdmit(s) \/ PauseClose(s) \/ app'.pending = app.pending
         /\ \/ PauseAdmit(s) \/ SaveInstall(s)
            \/ app'.safetyEpoch = app.safetyEpoch
         /\ \/ PauseAdmit(s) \/ SaveInstall(s) \/ Checked(s)
            \/ app'.pauseEpoch = app.pauseEpoch
         /\ \/ StopLock(s) \/ app'.eligible = app.eligible
            \/ app'.eligible = {}
         /\ CommitClear(s) \/ app'.cleared = app.cleared
         /\ \/ GlobalCheck(s)
            \/ /\ risk'.unsafe = risk.unsafe
               /\ risk'.cancelPending = risk.cancelPending
<1>1. CASE PauseAdmit(s)
  BY <1>1, PauseAdmitEffect
<1>2. CASE PauseLock(s)
  BY <1>2, PauseLockEffect
<1>3. CASE PauseWrite(s)
  <2>1. HoldsStatus(job[s])
    BY <1>3, PauseWriteEffect DEF HoldsStatus
  <2> QED
    BY <1>3, <2>1, PauseWriteEffect
<1>4. CASE PauseClose(s)
  BY <1>4, PauseCloseEffect
<1>5. CASE SilentLock(s)
  BY <1>5, SilentLockEffect
<1>6. CASE SilentWrite(s)
  <2>1. HoldsStatus(job[s])
    BY <1>6, SilentWriteEffect DEF HoldsStatus
  <2> QED
    BY <1>6, <2>1, SilentWriteEffect
<1>7. CASE GlobalCheck(s)
  BY <1>7, GlobalCheckEffect
<1>8. CASE CheckPaused(s)
  BY <1>8, CheckPausedEffect
<1>9. CASE Checked(s)
  BY <1>9, CheckedEffect
<1>10. CASE ResumeLock(s)
  BY <1>10, ResumeLockEffect
<1>11. CASE ResumeWrite(s)
  <2>1. HoldsStatus(job[s])
    BY <1>11, ResumeWriteEffect DEF HoldsStatus
  <2> QED
    BY <1>11, <2>1, ResumeWriteEffect
<1>12. CASE ResumeInstall(s)
  BY <1>12, ResumeInstallEffect
<1>13. CASE StopLock(s)
  BY <1>13, StopLockEffect
<1>14. CASE StopWrite(s)
  <2>1. HoldsStatus(job[s])
    BY <1>14, StopWriteEffect DEF HoldsStatus
  <2> QED
    BY <1>14, <2>1, StopWriteEffect
<1>15. CASE CommitAdmit(s)
  BY <1>15, CommitAdmitEffect
<1>16. CASE CommitLock(s)
  BY <1>16, CommitLockEffect
<1>17. CASE CommitWrite(s)
  <2>1. HoldsStatus(job[s])
    BY <1>17, CommitWriteEffect DEF HoldsStatus
  <2> QED
    BY <1>17, <2>1, CommitWriteEffect
<1>18. CASE CommitClear(s)
  <2>1. HoldsStatus(job[s])
    BY <1>18, CommitClearEffect DEF HoldsStatus
  <2> QED
    BY <1>18, <2>1, CommitClearEffect
<1>19. CASE SaveLock(s)
  BY <1>19, SaveLockEffect
<1>20. CASE SaveWrite(s)
  <2>1. HoldsStatus(job[s])
    BY <1>20, SaveWriteEffect DEF HoldsStatus
  <2> QED
    BY <1>20, <2>1, SaveWriteEffect
<1>21. CASE SaveInstall(s)
  BY <1>21, SaveInstallEffect
<1> QED
  BY <1>1, <1>2, <1>3, <1>4, <1>5, <1>6, <1>7, <1>8, <1>9, <1>10, <1>11, <1>12,
     <1>13, <1>14, <1>15, <1>16, <1>17, <1>18, <1>19, <1>20, <1>21
  DEF TaskStep

\* The steps of the engine, the handlers and the coordinator start tasks, move
\* the pause epoch on and may note a pause that a cancellation ran into.
Calm ==
    /\ up /\ up' /\ held' = held /\ db' = db
    /\ app'.status = app.status /\ app'.mode = app.mode
    /\ app'.safetyEpoch = app.safetyEpoch /\ app'.pending = app.pending
    /\ app'.eligible = app.eligible /\ app'.cleared = app.cleared
    /\ app'.pauseEpoch >= app.pauseEpoch
    /\ seen'.stops = seen.stops /\ seen'.grant = seen.grant
    /\ seen.raced => seen'.raced
    /\ risk'.unsafe = risk.unsafe
    /\ risk'.cancelPending => risk.cancelPending
    /\ job' = job \/ \E s \in Slots : Starts(s)
    /\ \/ EngineMoves
       \/ /\ job'["engine"] = job["engine"]
          /\ engine' = engine \/ engine'.pc = "dead"
    /\ \A m \in asked' :
         m \in asked \/ (m.epoch = app'.pauseEpoch /\ m.by = seen'.stops)
    /\ \A i \in DOMAIN queue' :
         \/ \E k \in DOMAIN queue : queue'[i] = queue[k]
         \/ queue'[i] \in asked
         \/ queue'[i].kind # "resume"
    /\ job["final"].op = "commit" => job'["final"] = job["final"]

\* Every step is of a task, calm, or the end or the start of a life.
LEMMA StepKinds ==
  ASSUME TaskInv, Next
  PROVE  (\E s \in Slots : TaskStep(s)) \/ Calm \/ GoDown \/ Boot
<1>1. app.pauseEpoch \in Nat
  BY DEF TaskInv, TypeOK
<1> DEFINE Queued ==
        \A i \in DOMAIN queue' :
          \/ \E k \in DOMAIN queue : queue'[i] = queue[k]
          \/ queue'[i] \in asked
          \/ queue'[i].kind # "resume"
<1>2. (OldCommands => Queued) /\ (queue' = queue => Queued)
  BY DEF OldCommands
<1>3. \A s \in Slots : Starts(s) /\ s # "engine" =>
        job'["engine"] = job["engine"]
  BY SlotNames DEF Starts, OnlyJob
<1> DEFINE Committed ==
        job["final"].op = "commit" => job'["final"] = job["final"]
<1>8. /\ \A s \in Slots : Starts(s) /\ s # "final" => Committed
      /\ job' = job => Committed
  BY SlotNames DEF Starts, OnlyJob
<1> HIDE DEF Committed
<1>4. CASE EngineMoves
  <2>1. Queued
    BY <1>2, <1>4 DEF EngineMoves
  <2>2. Committed
    BY <1>4, <1>8, SlotNames DEF EngineMoves
  <2> QED
    BY <1>4, <2>1, <2>2, SlotNames, Zenon DEF EngineMoves, Calm, Committed
<1>5. CASE RequestMoves
  <2>1. job'["engine"] = job["engine"]
    BY <1>3, <1>5, SlotNames DEF RequestMoves
  <2>2. Queued
    BY <1>5 DEF RequestMoves
  <2> HIDE DEF Queued
  <2>3. /\ \A m \in asked' :
             m \in asked \/ (m.epoch = app'.pauseEpoch /\ m.by = seen'.stops)
        /\ job' = job \/ \E s \in Slots : Starts(s)
    BY <1>5, SlotNames DEF RequestMoves
  <2>4. Committed
    BY <1>5, <1>8, SlotNames DEF RequestMoves
  <2> QED
    BY <1>1, <1>5, <2>1, <2>2, <2>3, <2>4
    DEF RequestMoves, Calm, Queued, Committed
<1>6. CASE Shutdown
  <2>1. job'["engine"] = job["engine"] /\ Queued
    BY <1>2, <1>3, <1>6, SlotNames, ShutdownEffect
  <2> HIDE DEF Queued
  <2>2. Committed
    BY <1>6, <1>8, SlotNames, ShutdownEffect
  <2> QED
    BY <1>1, <1>6, <2>1, <2>2, SlotNames, ShutdownEffect
    DEF Calm, Queued, Committed
<1>7. CASE LifePaused \/ LifeReplied \/ Deadline
  <2>1. job'["engine"] = job["engine"] /\ Queued
    BY <1>2, <1>3, <1>7, SlotNames, LifeEffect DEF LifeFails
  <2>2. engine' = engine \/ engine'.pc = "dead"
    BY <1>7, LifeEffect DEF LifeFails
  <2>3. job' = job \/ \E s \in Slots : Starts(s)
    BY <1>7, SlotNames, LifeEffect DEF LifeFails
  <2>4. UNCHANGED <<up, app, held, risk, asked, db, seen>> /\ up
    BY <1>7, LifeEffect
  <2>5. Committed
    <3>1. life \in {"pausing", "waiting"} => job["final"].op # "commit"
      BY DEF TaskInv, LifeInv
    <3>2. Starts("final") => life \in {"pausing", "waiting"} \/ Committed
      BY <1>7, <1>8, LifeEffect DEF LifeFails
    <3>3. Starts("final") \/ job' = job
      BY <1>7, LifeEffect DEF LifeFails
    <3> QED
      BY <1>8, <3>1, <3>2, <3>3 DEF Committed
  <2> HIDE DEF Queued
  <2> QED
    BY <1>1, <2>1, <2>2, <2>3, <2>4, <2>5 DEF Calm, Queued, Committed
<1> QED
  BY <1>4, <1>5, <1>6, <1>7, StepCases

\* A pause that waits for its locks goes on waiting until it installs its
\* status; a change of mode is over when the memory follows the database.
Quiet == (PauseWaits' <=> PauseWaits) /\ (Switched' <=> Switched)

\* Only the admission and the lock of a pause, and the two halves of a save,
\* change whether a pause waits or a change of mode is under way.
LEMMA TaskQuiet ==
  ASSUME TaskInv, NEW s \in Slots, TaskStep(s)
  PROVE  /\ PauseWaits' => PauseWaits \/ PauseAdmit(s)
         /\ PauseWaits => PauseWaits' \/ PauseLock(s)
         /\ Switched' => Switched \/ SaveWrite(s)
         /\ Switched => Switched' \/ SaveInstall(s)
<1>1. TypeOK /\ ShapeInv /\ TaskMoves(s)
  BY TaskStepMoves DEF TaskInv
<1>2. SaveInstall(s) \/ app'.mode = app.mode
  BY <1>1, TaskFrame
<1>3. /\ NoJob.pc = "idle" /\ NoJob.op = "none"
      /\ SafetyPause.pc = "admit" /\ SafetyPause.op = "pause"
  BY DEF NoJob, SafetyPause, NewJob
<1>4. CASE \E pc \in PcsOf(job[s].op) : Goes(s, pc) /\ Turns(s, pc)
  <2>1. PICK pc \in PcsOf(job[s].op) : Goes(s, pc) /\ Turns(s, pc)
    BY <1>4
  <2>2. \A t \in Slots : t # s => job'[t] = job[t]
    BY <2>1 DEF Goes, OnlyJob
  <2>3. /\ job'[s].op = job[s].op /\ job'[s].pc = pc
        /\ job'[s].mode = job[s].mode
    BY <2>1 DEF Goes
  <2>4. PauseWaits' => PauseWaits \/ PauseAdmit(s)
    BY <2>1, <2>2, <2>3 DEF Turns, PauseWaits
  <2>5. PauseWaits => PauseWaits' \/ PauseLock(s)
    BY <2>1, <2>2, <2>3 DEF Turns, PauseWaits
  <2>6. ASSUME s # "engine"
        PROVE  Switched' <=> Switched
    <3>1. ~SaveInstall(s)
      BY <1>1, <2>6, SlotTasks, SaveInstallEffect
    <3> QED
      BY <1>2, <2>2, <2>6, <3>1, SlotNames DEF Switched
  <2>7. ASSUME s = "engine"
        PROVE  /\ Switched' => Switched \/ SaveWrite(s)
               /\ Switched => Switched' \/ SaveInstall(s)
    BY <1>2, <2>1, <2>3, <2>7 DEF Turns, Switched
  <2> QED
    BY <2>4, <2>5, <2>6, <2>7
<1>5. CASE /\ s # "nested" /\ job[s].pc \in {"global", "checking"}
           /\ OnlyJobs(s) /\ \E pc \in {"checking", "checked"} : Steps(s, pc)
           /\ job'["nested"] \in {NoJob, SafetyPause}
           /\ job["nested"].pc # "lock"
  <2>1. /\ \A t \in Slots \ {s, "nested"} : job'[t] = job[t]
        /\ job'[s].op = job[s].op /\ job'[s].pc \in {"checking", "checked"}
        /\ job[s].pc \in {"global", "checking"}
    BY <1>5 DEF OnlyJobs, Steps
  <2>2. PauseWaits' <=> PauseWaits
    BY <1>3, <1>5, <2>1, SlotNames DEF PauseWaits
  <2>3. ~SaveInstall(s)
    BY <1>1, <1>5, SaveInstallEffect
  <2>4. Switched' <=> Switched
    BY <1>2, <2>1, <2>3, SlotNames DEF Switched
  <2> QED
    BY <2>2, <2>4
<1>6. CASE s = "monitor" /\ job[s].pc = "checked" /\ Placed(s, NoJob)
  <2>1. ~SaveInstall(s)
    BY <1>1, <1>6, SaveInstallEffect
  <2> QED
    BY <1>2, <1>3, <1>6, <2>1, SlotNames
    DEF Placed, OnlyJob, PauseWaits, Switched
<1>7. held["global"] = "free" => job["nested"].pc # "lock"
  BY <1>1, NestedIdle, SlotNames, Shapes DEF ShapeInv
<1> QED
  BY <1>1, <1>4, <1>5, <1>6, <1>7 DEF TaskMoves

\* The steps that belong to no task change neither.
LEMMA CalmQuiet ==
  ASSUME TaskInv, Calm
  PROVE  Quiet
<1>1. app'.mode = app.mode
  BY DEF Calm
<1>2. CASE job' = job
  BY <1>1, <1>2, Zenon DEF Quiet, PauseWaits, Switched
<1>3. ASSUME NEW s \in Slots, Starts(s) PROVE Quiet
  <2>1. /\ \A t \in Slots : t # s => job'[t] = job[t]
        /\ job[s].pc \notin {"lock", "install"} /\ job'[s].pc # "install"
        /\ ~(job'[s].op = "pause" /\ job'[s].pc = "lock")
    BY <1>3 DEF Starts, Fresh, OnlyJob
  <2>2. PauseWaits' <=> PauseWaits
    BY <2>1 DEF PauseWaits
  <2>3. Switched' <=> Switched
    BY <1>1, <2>1, SlotNames DEF Switched
  <2> QED
    BY <2>2, <2>3 DEF Quiet
<1> QED
  BY <1>2, <1>3 DEF Calm

\* Only one task holds the status lock, and none while it is free.
LEMMA StatusLock ==
  ASSUME TaskInv, NEW s \in Slots
  PROVE  /\ held["status"] = "free" => ~HoldsStatus(job[s])
         /\ \A t \in Slots :
              HoldsStatus(job[s]) /\ HoldsStatus(job[t]) => s = t
         /\ HoldsStatus(job[s]) /\ Switched =>
              s = "engine" /\ job[s].op = "save" /\ job[s].pc = "install"
         /\ held["status"] = "free" => ~Switched
<1>1. \A t \in Slots : held["status"] = t <=> HoldsStatus(job[t])
  BY HoldsBy, LockFrame DEF TaskInv, LockInv
<1>2. "free" \notin Slots
  BY DEF Slots
<1>3. Switched => /\ HoldsStatus(job["engine"]) /\ job["engine"].op = "save"
                  /\ job["engine"].pc = "install"
  BY DEF Switched, HoldsStatus
<1> QED
  BY <1>1, <1>2, <1>3, SlotNames

\* Only one task holds the global lock, and only a commit keeps pauses out.
LEMMA OtherLocks ==
  ASSUME TaskInv, NEW s \in Slots
  PROVE  /\ held["global"] = "free" => ~HoldsGlobal(job[s])
         /\ held["admission"] = "free" => ~HoldsAdmission(job[s])
<1>1. "free" \notin Slots
  BY DEF Slots
<1> QED
  BY <1>1, HoldsBy, LockFrame DEF TaskInv, LockInv

\* A grant lasts until the next stop order.
LEMMA GrantLasts ==
  ASSUME Granted, seen'.stops = seen.stops, seen'.grant = seen.grant,
         seen.raced => seen'.raced
  PROVE  Granted'
BY Zenon DEF Granted

\* A pause under way is counted.
LEMMA Counted ==
  ASSUME TaskInv, NEW s \in Slots, job[s].op = "pause",
         job[s].pc \in {"lock", "write", "close"}
  PROVE  app.pending > 0
<1>1. s \notin {"monitor", "stop"} /\ Pending(job[s]) = 1
  BY SlotTasks DEF TaskInv, Pending
<1>2. \A t \in Slots : Pending(job[t]) \in {0, 1}
  BY DEF Pending
<1> HIDE DEF Pending
<1> QED
  BY <1>1, <1>2, SlotNames DEF TaskInv, PendInv, Slots

\* So is one that waits for its locks.
LEMMA WaitsCounted ==
  ASSUME TaskInv, PauseWaits
  PROVE  app.pending > 0
BY Counted DEF PauseWaits

-----------------------------------------------------------------------------
(* Stop orders and grants.                                                  *)

\* A stop order moves the pause epoch on, at once or, when it is a change of
\* mode, at the latest when that is installed.
Onward ==
    \/ app'.pauseEpoch > app.pauseEpoch
    \/ /\ app'.pauseEpoch = app.pauseEpoch
       /\ Switched' \/ (~Switched /\ seen'.stops = seen.stops)

\* No step takes the pause epoch back, and a stop order moves it on.
LEMMA StepsOnward ==
  ASSUME TaskInv, Next, (\E s \in Slots : TaskStep(s)) \/ Calm
  PROVE  Onward
<1>1. TypeOK /\ ShapeInv /\ app.pauseEpoch \in Nat
  BY DEF TaskInv, TypeOK
<1>2. ASSUME NEW s \in Slots, TaskStep(s) PROVE Onward
  <2>1. CASE PauseAdmit(s)
    <3>1. CASE Moved(s, "lock")
      <4>1. app'.pauseEpoch = app.pauseEpoch + 1
        BY <1>1, <2>1, <3>1, PauseAdmitEffect DEF Moved, Steps
      <4> QED
        BY <1>1, <4>1 DEF Onward
    <3>2. CASE app' = app /\ seen' = seen
      <4>1. ~SaveInstall(s)
        BY <1>1, <2>1, SaveInstallEffect, PauseAdmitEffect
      <4> QED
        BY <1>1, <1>2, <3>2, <4>1, TaskQuiet DEF Onward
    <3> QED
      BY <1>1, <2>1, <3>1, <3>2, PauseAdmitEffect
  <2>2. CASE SaveInstall(s)
    <3>1. CASE job[s].mode # app.mode
      BY <1>1, <2>2, <3>1, SaveInstallEffect DEF Onward
    <3>2. CASE job[s].mode = app.mode
      <4>1. /\ app' = app /\ seen' = seen
            /\ job[s].op = "save" /\ job[s].pc = "install"
        BY <1>1, <2>2, <3>2, SaveInstallEffect
      <4>2. ~Switched
        BY <1>1, <3>2, <4>1, SlotTasks DEF Switched
      <4> QED
        BY <4>1, <4>2 DEF Onward
    <3> QED
      BY <3>1, <3>2
  <2>3. CASE SaveWrite(s)
    <3>1. /\ app' = app /\ job[s].op = "save" /\ job[s].pc = "write"
      BY <1>1, <2>3, SaveWriteEffect
    <3>2. ~Switched
      BY <1>1, <3>1, SlotTasks DEF Switched
    <3>3. CASE seen' = seen
      BY <3>1, <3>2, <3>3 DEF Onward
    <3>4. CASE job[s].mode # app.mode /\ Moved(s, "install")
      BY <1>1, <3>1, <3>4, SlotTasks DEF Onward, Switched, Moved, Steps
    <3> QED
      BY <1>1, <2>3, <3>3, <3>4, SaveWriteEffect
  <2>4. CASE ~PauseAdmit(s) /\ ~SaveInstall(s) /\ ~SaveWrite(s)
    <3>1. seen'.stops = seen.stops
      BY <1>1, <1>2, <2>4, TaskFrame, ResumeInstallEffect
    <3>2. app'.pauseEpoch \in Nat /\ app'.pauseEpoch >= app.pauseEpoch
      BY <1>1, <1>2, <2>4, TaskKeeps, TypeStep DEF TypeOK
    <3>3. Switched => Switched'
      BY <1>1, <1>2, <2>4, TaskQuiet
    <3> QED
      BY <1>1, <3>1, <3>2, <3>3 DEF Onward
  <2> QED
    BY <2>1, <2>2, <2>3, <2>4
<1>3. ASSUME Calm PROVE Onward
  <2>1. app'.pauseEpoch \in Nat
    BY TypeStep DEF TypeOK
  <2> QED
    BY <1>1, <1>3, <2>1, CalmQuiet DEF Calm, Onward, Quiet
<1> QED
  BY <1>2, <1>3

\* Whichever step, a strategy that runs keeps its grant, or a pause waits to
\* install its status or a change of mode to be installed.
LEMMA StatusStep ==
  ASSUME IInv, Next
  PROVE  StatusInv'
<1>1. TaskInv /\ TypeOK /\ ShapeInv /\ StatusInv
  BY DEF IInv, TaskInv, GrantInv
<1>2. ASSUME NEW s \in Slots, TaskStep(s) PROVE StatusInv'
  <2>1. CASE PauseAdmit(s)
    <3>1. CASE Moved(s, "lock")
      <4>1. job'[s].op = "pause" /\ job'[s].pc = "lock"
        BY <1>1, <2>1, <3>1, PauseAdmitEffect DEF Moved, Steps
      <4> QED
        BY <4>1 DEF StatusInv, PauseWaits
    <3>2. CASE app' = app /\ seen' = seen
      <4>1. ~PauseLock(s) /\ ~SaveInstall(s)
        BY <1>1, <2>1, SaveInstallEffect, PauseAdmitEffect, PauseLockEffect
      <4>2. PauseWaits => PauseWaits'
        BY <1>1, <1>2, <4>1, TaskQuiet
      <4>3. Switched => Switched'
        BY <1>1, <1>2, <4>1, TaskQuiet
      <4>4. Granted => Granted'
        BY <3>2 DEF Granted
      <4> QED
        BY <1>1, <3>2, <4>2, <4>3, <4>4 DEF StatusInv
    <3> QED
      BY <1>1, <2>1, <3>1, <3>2, PauseAdmitEffect
  <2>2. CASE PauseLock(s) \/ SilentLock(s) \/ StopLock(s)
    <3>1. app'.status = "Paused" \/ UNCHANGED <<app, seen>>
      BY <1>1, <2>2, PauseLockEffect, SilentLockEffect, StopLockEffect
    <3>2. CASE UNCHANGED <<app, seen>> /\ app.status = "Running"
      <4>1. ~PauseLock(s) /\ ~SaveInstall(s)
        BY <1>1, <2>2, <3>2, SaveInstallEffect, PauseLockEffect,
           SilentLockEffect, StopLockEffect
      <4>2. (PauseWaits => PauseWaits') /\ (Switched => Switched')
        BY <1>1, <1>2, <4>1, TaskQuiet
      <4>3. Granted => Granted'
        BY <3>2 DEF Granted
      <4> QED
        BY <1>1, <3>2, <4>2, <4>3 DEF StatusInv
    <3> QED
      BY <3>1, <3>2 DEF StatusInv
  <2>3. CASE SaveInstall(s)
    <3>1. CASE job[s].mode # app.mode
      <4>1. app'.status = "Paused"
        BY <1>1, <2>3, <3>1, SaveInstallEffect
      <4> QED
        BY <4>1 DEF StatusInv
    <3>2. CASE job[s].mode = app.mode
      <4>1. /\ app' = app /\ seen' = seen
            /\ job[s].op = "save" /\ job[s].pc = "install"
        BY <1>1, <2>3, <3>2, SaveInstallEffect
      <4>2. ~Switched /\ ~PauseLock(s)
        BY <1>1, <3>2, <4>1, SlotTasks, PauseLockEffect DEF Switched
      <4>3. PauseWaits => PauseWaits'
        BY <1>1, <1>2, <4>2, TaskQuiet
      <4>4. Granted => Granted'
        BY <4>1 DEF Granted
      <4> QED
        BY <1>1, <4>1, <4>2, <4>3, <4>4 DEF StatusInv
    <3> QED
      BY <3>1, <3>2
  <2>4. CASE SaveWrite(s)
    <3>1. /\ app' = app /\ job[s].op = "save" /\ job[s].pc = "write"
      BY <1>1, <2>4, SaveWriteEffect
    <3>2. ~PauseLock(s) /\ ~SaveInstall(s)
      BY <1>1, <3>1, PauseLockEffect, SaveInstallEffect
    <3>3. (PauseWaits => PauseWaits') /\ (Switched => Switched')
      BY <1>1, <1>2, <3>2, TaskQuiet
    <3>4. CASE seen' = seen
      <4>1. Granted => Granted'
        BY <3>4 DEF Granted
      <4> QED
        BY <1>1, <3>1, <3>3, <4>1 DEF StatusInv
    <3>5. CASE job[s].mode # app.mode /\ Moved(s, "install")
      <4>1. Switched'
        BY <1>1, <3>1, <3>5, SlotTasks DEF Switched, Moved, Steps
      <4> QED
        BY <4>1 DEF StatusInv
    <3> QED
      BY <1>1, <2>4, <3>4, <3>5, SaveWriteEffect
  <2>5. CASE ResumeInstall(s)
    <3>1. /\ s = "engine" /\ job[s].op = "resume" /\ job[s].pc = "install"
      BY <1>1, <2>5, ResumeInstallEffect, SlotTasks
    <3>2. Deserved(job[s]) \/ PauseWaits
      BY <3>1 DEF IInv, GrantInv, ResumeInv
    <3>3. ~PauseLock(s)
      BY <1>1, <3>1, PauseLockEffect
    <3>4. PauseWaits => PauseWaits'
      BY <1>1, <1>2, <3>3, TaskQuiet
    <3>5. Deserved(job[s]) => Granted'
      BY <1>1, <2>5, ResumeInstallEffect, Zenon DEF Deserved, Granted
    <3> QED
      BY <3>2, <3>4, <3>5 DEF StatusInv
  <2>6. CASE /\ ~PauseAdmit(s) /\ ~PauseLock(s) /\ ~SilentLock(s)
             /\ ~StopLock(s) /\ ~SaveInstall(s) /\ ~SaveWrite(s)
             /\ ~ResumeInstall(s)
    <3>1. seen' = seen /\ app'.status = app.status
      BY <1>1, <1>2, <2>6, TaskFrame
    <3>2. (PauseWaits => PauseWaits') /\ (Switched => Switched')
      BY <1>1, <1>2, <2>6, TaskQuiet
    <3>3. Granted => Granted'
      BY <3>1 DEF Granted
    <3> QED
      BY <1>1, <3>1, <3>2, <3>3 DEF StatusInv
  <2> QED
    BY <2>1, <2>2, <2>3, <2>4, <2>5, <2>6
<1>3. CASE Calm
  <2>1. Quiet /\ app'.status = app.status
    BY <1>1, <1>3, CalmQuiet DEF Calm
  <2>2. Granted => Granted'
    BY <1>3, GrantLasts DEF Calm
  <2> QED
    BY <1>1, <2>1, <2>2 DEF StatusInv, Quiet
<1>4. CASE GoDown
  BY <1>4 DEF GoDown, NewApp, StatusInv
<1>5. CASE Boot
  <2>1. app'.status = StartStatus /\ seen' = seen
    BY <1>5 DEF Boot, NewApp
  <2>2. StartStatus = "Running" => Granted
    BY DEF StartStatus, IInv, DbInv, RestartIsGranted, Granted
  <2>3. Granted => Granted'
    BY <2>1 DEF Granted
  <2> QED
    BY <2>1, <2>2, <2>3 DEF StatusInv
<1> QED
  BY <1>1, <1>2, <1>3, <1>4, <1>5, StepKinds

\* A request that was not revoked by a stop order is not revoked by a step that
\* is none.
LEMMA ValidLasts ==
  ASSUME TaskInv, TypeOK', Onward, NEW m \in Messages, Valid(m)
  PROVE  Valid(m)'
<1>1. /\ app.pauseEpoch \in Nat /\ app'.pauseEpoch \in Nat /\ m.epoch \in Nat
  BY DEF TaskInv, TypeOK, Messages
<1> QED
  BY <1>1 DEF Valid, Onward

\* No step leaves a request whose epoch is current and whose grant is revoked.
LEMMA RequestStep ==
  ASSUME IInv, Next
  PROVE  RequestInv'
<1>1. TaskInv /\ TypeOK /\ ShapeInv /\ RequestInv /\ TypeOK'
  BY TypeStep DEF IInv, TaskInv, GrantInv
<1>2. /\ asked \subseteq Messages
      /\ \A i \in DOMAIN queue : queue[i] \in Messages
  BY <1>1 DEF TypeOK
<1>3. ASSUME NEW s \in Slots, TaskStep(s) PROVE RequestInv'
  <2>1. Onward
    BY <1>1, <1>3, StepsOnward
  <2>2. asked' = asked /\ OldCommands
    BY <1>1, <1>3, TaskStepMoves
  <2>3. \A m \in Messages : Valid(m) => Valid(m)'
    BY <1>1, <2>1, ValidLasts
  <2> HIDE DEF Valid
  <2> QED
    BY <1>1, <1>2, <2>2, <2>3 DEF RequestInv, OldCommands
<1>4. CASE Calm
  <2>1. Onward
    BY <1>1, <1>4, StepsOnward
  <2>2. \A m \in Messages : Valid(m) => Valid(m)'
    BY <1>1, <2>1, ValidLasts
  <2>3. \A m : m.epoch = app'.pauseEpoch /\ m.by = seen'.stops => Valid(m)'
    BY <1>1 DEF Valid, TypeOK
  <2>4. /\ \A m \in asked' :
             m \in asked \/ (m.epoch = app'.pauseEpoch /\ m.by = seen'.stops)
        /\ \A i \in DOMAIN queue' :
             \/ \E k \in DOMAIN queue : queue'[i] = queue[k]
             \/ queue'[i] \in asked
             \/ queue'[i].kind # "resume"
    BY <1>4 DEF Calm
  <2> HIDE DEF Valid
  <2> QED
    BY <1>1, <1>2, <2>2, <2>3, <2>4 DEF RequestInv
<1>5. CASE GoDown
  BY <1>5 DEF GoDown, RequestInv
<1>6. CASE Boot
  BY <1>1, <1>6 DEF Boot, TaskInv, DownInv, RequestInv
<1> QED
  BY <1>1, <1>3, <1>4, <1>5, <1>6, StepKinds

\* The engine starts a resume for a request it takes from the queue, or to
\* restore the run a cancellation interrupted.
LEMMA ResumeStarts ==
  ASSUME TaskInv, EngineMoves, job'["engine"].op = "resume"
  PROVE  LET j == job'["engine"] IN
         /\ j.pc = "global" /\ UNCHANGED <<app, seen>>
         /\ job["engine"].op = "none"
         /\ \/ /\ j.mode # AnyMode
               /\ \E i \in DOMAIN queue :
                    /\ queue[i].kind = "resume"
                    /\ j.epoch = queue[i].epoch /\ j.by = queue[i].by
            \/ /\ j.mode = AnyMode /\ j.epoch = engine.base + 1
               /\ engine.pc = "work" /\ engine.was
               /\ app.pauseEpoch = engine.base + 1
<1>1. TypeOK /\ job \in [Slots -> Jobs] /\ queue \in Seq(Messages)
  BY DEF TaskInv, TypeOK
<1>2. Receive \/ CancelWork
  BY DEF EngineMoves
<1>3. CASE Receive
  <2>1. /\ job["engine"].op = "none" /\ queue # <<>>
        /\ UNCHANGED <<risk, seen>>
    BY <1>1, <1>3, EngineAtRest, ReceiveEffect
  <2>2. Resumes
    <3>1. job' # job
      BY <2>1
    <3>2. ~Stops
      <4>1. Stops => job' = [job EXCEPT !["engine"] = NewJob("stopPause", "global")]
        BY DEF Stops, Spawn
      <4> QED
        BY <1>1, <4>1, SlotNames DEF NewJob
    <3>3. ~Saves
      <4>1. Saves => job' = [job EXCEPT !["engine"] =
                               [NewJob("save", "lock") EXCEPT !.mode = Head(queue).mode]]
        BY DEF Saves, Spawn
      <4> QED
        BY <1>1, <4>1, SlotNames DEF NewJob
    <3> QED
      BY <1>1, <1>3, <3>1, <3>2, <3>3, ReceiveEffect DEF Begins
  <2>3. /\ job' = [job EXCEPT !["engine"] =
                     [NewJob("resume", "global") EXCEPT !.epoch = Head(queue).epoch,
                        !.by = Head(queue).by, !.mode = app.mode]]
        /\ Head(queue).kind = "resume" /\ app' = app
    BY <2>2 DEF Resumes, Spawn
  <2>4. /\ job'["engine"].pc = "global" /\ job'["engine"].mode = app.mode
        /\ job'["engine"].epoch = Head(queue).epoch
        /\ job'["engine"].by = Head(queue).by
    BY <1>1, <2>3, SlotNames, SMT DEF NewJob
  <2>5. 1 \in DOMAIN queue /\ Head(queue) = queue[1]
    BY <1>1, <2>1
  <2>6. app.mode # AnyMode
    BY <1>1 DEF TypeOK, Modes, AnyMode
  <2> QED
    BY <2>1, <2>3, <2>4, <2>5, <2>6
<1>4. CASE CancelWork
  <2>1. job["engine"].op = "none" /\ UNCHANGED <<app, seen>> /\ engine.pc = "work"
    BY <1>4, EngineAtRest DEF CancelWork, EngineAt
  <2>2. /\ engine.was /\ app.pauseEpoch = engine.base + 1
        /\ Spawn([NewJob("resume", "global") EXCEPT
                    !.epoch = engine.base + 1, !.by = seen.grant])
    <3>1. job' # job
      BY <2>1
    <3>2. ~Spawn(SafetyPause)
      BY <1>1, SlotNames DEF Spawn, SafetyPause, NewJob
    <3> QED
      BY <1>4, <3>1, <3>2, Zenon DEF CancelWork
  <2>3. /\ job'["engine"].pc = "global" /\ job'["engine"].mode = AnyMode
        /\ job'["engine"].epoch = engine.base + 1
    BY <1>1, <2>2, SlotNames, SMT DEF Spawn, NewJob
  <2> QED
    BY <2>1, <2>2, <2>3
<1> QED
  BY <1>2, <1>3, <1>4

\* A grant that a resume relies on lasts, unless a pause waits for its locks.
LEMMA GrantStep ==
  ASSUME TaskInv, NEW s \in Slots, TaskStep(s), job["engine"].op # "save"
  PROVE  /\ ~PauseAdmit(s) => seen'.stops = seen.stops
         /\ ~PauseAdmit(s) /\ ~ResumeInstall(s) => seen' = seen
         /\ PauseAdmit(s) =>
              \/ PauseWaits' /\ app'.pauseEpoch = app.pauseEpoch + 1
              \/ UNCHANGED <<app, seen>>
<1>1. TypeOK /\ ShapeInv
  BY DEF TaskInv
<1>2. ~SaveWrite(s)
  BY <1>1, SlotTasks, SaveWriteEffect
<1>3. ResumeInstall(s) => seen'.stops = seen.stops
  BY <1>1, ResumeInstallEffect
<1>4. ASSUME PauseAdmit(s)
      PROVE  \/ PauseWaits' /\ app'.pauseEpoch = app.pauseEpoch + 1
             \/ UNCHANGED <<app, seen>>
  <2>1. CASE app' = app /\ seen' = seen
    BY <2>1
  <2>2. CASE ~(app' = app /\ seen' = seen)
    <3>1. /\ app'.pauseEpoch = app.pauseEpoch + 1 /\ Moved(s, "lock")
          /\ job[s].op = "pause"
      BY <1>1, <1>4, <2>2, PauseAdmitEffect
    <3>2. PauseWaits'
      BY <3>1 DEF PauseWaits, Moved, Steps
    <3> QED
      BY <3>1, <3>2
  <2> QED
    BY <2>1, <2>2
<1> QED
  BY <1>1, <1>2, <1>3, <1>4, TaskFrame

\* Every step keeps a resume from outrunning a stop order.
LEMMA ResumeStep ==
  ASSUME IInv, Next
  PROVE  ResumeInv'
<1>1. TaskInv /\ TypeOK /\ ShapeInv /\ TypeOK'
  BY TypeStep DEF IInv, TaskInv
<1> DEFINE j == job["engine"]
<1>2. /\ app.pauseEpoch \in Nat /\ app'.pauseEpoch \in Nat
      /\ j.epoch \in Nat /\ j.epoch' \in Nat
  BY <1>1, SlotNames DEF TypeOK, Jobs
<1>3. j.op = "resume" =>
        /\ j.epoch <= app.pauseEpoch
        /\ (j.pc \in {"global", "checking", "checked", "lock"}
              /\ j.epoch = app.pauseEpoch) => Deserved(j)
        /\ j.pc \in {"write", "install"} => Deserved(j) \/ PauseWaits
        /\ j.pc \in {"lock", "write", "install"} =>
             ~risk.unsafe /\ ~risk.cancelPending
  BY DEF IInv, GrantInv, ResumeInv
<1>4. ASSUME NEW s \in Slots, TaskStep(s), j.op' = "resume"
      PROVE  /\ j.epoch' <= app.pauseEpoch'
             /\ (j.pc' \in {"global", "checking", "checked", "lock"}
                   /\ j.epoch' = app.pauseEpoch') => Deserved(j)'
             /\ j.pc' \in {"write", "install"} => Deserved(j)' \/ PauseWaits'
             /\ j.pc' \in {"lock", "write", "install"} =>
                  ~risk.unsafe' /\ ~risk.cancelPending'
  <2>1. TaskMoves(s)
    BY <1>1, <1>4, TaskStepMoves
  <2>2. /\ j.op = "resume" /\ j.mode' = j.mode /\ j.epoch' = j.epoch
        /\ j.by' = j.by
    BY <1>4, <2>1, SlotNames
    DEF TaskMoves, Goes, OnlyJob, OnlyJobs, Steps, Placed
  <2>3. /\ j.pc' = "lock" => j.pc = "lock" \/ (s = "engine" /\ Checked(s))
        /\ j.pc' = "write" => j.pc = "write" \/ (s = "engine" /\ ResumeLock(s))
        /\ j.pc' = "install" => j.pc \in {"write", "install"}
        /\ j.pc' \in {"global", "checking", "checked"} =>
             j.pc \in {"global", "checking", "checked"}
    BY <2>1, <2>2, SlotNames
    DEF TaskMoves, Goes, Turns, OnlyJob, OnlyJobs, Steps, Placed
  <2>4. /\ app.pauseEpoch <= app'.pauseEpoch
        /\ j.epoch <= app.pauseEpoch
    BY <1>1, <1>3, <1>4, <2>2, TaskKeeps
  <2>5. ASSUME ~ResumeInstall(s), Deserved(j)
        PROVE  \/ Deserved(j)'
               \/ PauseWaits' /\ app'.pauseEpoch = app.pauseEpoch + 1
    <3>1. \/ seen' = seen
          \/ PauseWaits' /\ app'.pauseEpoch = app.pauseEpoch + 1
      BY <1>1, <1>4, <2>2, <2>5, GrantStep
    <3>2. seen' = seen => Deserved(j)'
      BY <2>2, <2>5 DEF Deserved, Granted
    <3> QED
      BY <3>1, <3>2
  <2>6. ResumeInstall(s) => j.pc' = "done"
    BY <1>1, SlotTasks, ResumeInstallEffect DEF Moved, Steps
  <2>7. j.epoch' <= app.pauseEpoch'
    BY <1>2, <2>2, <2>4
  <2>8. ASSUME j.pc' \in {"global", "checking", "checked", "lock"},
               j.epoch' = app.pauseEpoch'
        PROVE  Deserved(j)'
    <3>1. ~ResumeInstall(s)
      BY <2>6, <2>8
    <3>2. app'.pauseEpoch = app.pauseEpoch /\ j.epoch = app.pauseEpoch
      BY <1>2, <2>2, <2>4, <2>8
    <3>3. j.pc \in {"global", "checking", "checked", "lock"}
      BY <1>1, <2>3, <2>8, CheckedEffect
    <3> QED
      BY <1>2, <1>3, <2>2, <2>5, <3>1, <3>2, <3>3
  <2>9. ASSUME j.pc' \in {"write", "install"}
        PROVE  Deserved(j)' \/ PauseWaits'
    <3>1. ~ResumeInstall(s)
      BY <2>6, <2>9
    <3>2. CASE j.pc \in {"write", "install"}
      <4>1. ~PauseLock(s)
        BY <1>1, <2>2, <3>2, PauseLockEffect, StatusLock, SlotNames
        DEF HoldsStatus
      <4>2. PauseWaits => PauseWaits'
        BY <1>1, <1>4, <4>1, TaskQuiet
      <4> QED
        BY <1>3, <2>2, <2>5, <3>1, <3>2, <4>2
    <3>3. CASE s = "engine" /\ ResumeLock(s) /\ j.pc' = "write"
      <4>1. /\ j.pc = "lock" /\ seen' = seen /\ MayResume(j)
        BY <1>1, <3>3, SlotNames, ResumeLockEffect DEF Moved, Steps
      <4>2. j.epoch = app.pauseEpoch
        BY <4>1 DEF MayResume
      <4>3. Deserved(j)
        BY <1>3, <2>2, <4>1, <4>2
      <4> QED
        BY <2>2, <4>1, <4>3 DEF Deserved, Granted
    <3> QED
      BY <2>3, <2>9, <3>2, <3>3
  <2>10. ASSUME j.pc' \in {"lock", "write", "install"}
         PROVE  ~risk.unsafe' /\ ~risk.cancelPending'
    <3>1. CASE j.pc \in {"lock", "write", "install"}
      <4>1. ~GlobalCheck(s)
        BY <1>1, <2>2, <3>1, GlobalCheckEffect, OtherLocks, SlotNames
        DEF HoldsGlobal
      <4>2. ~risk.unsafe /\ ~risk.cancelPending
        BY <1>3, <2>2, <3>1
      <4>3. /\ risk'.unsafe = risk.unsafe
            /\ risk'.cancelPending = risk.cancelPending
        BY <1>1, <1>4, <4>1, TaskFrame
      <4> QED
        BY <4>2, <4>3, Zenon
    <3>2. CASE s = "engine" /\ Checked(s) /\ j.pc' = "lock"
      <4>1. /\ ~risk.unsafe /\ ~risk.cancelPending
            /\ risk'.unsafe = risk.unsafe
            /\ risk'.cancelPending = risk.cancelPending
        BY <1>1, <2>2, <3>2, SlotNames, CheckedEffect DEF Moved, Steps
      <4> QED
        BY <4>1, Zenon
    <3>3. ResumeLock(s) => job[s].pc = "lock"
      BY <1>1, ResumeLockEffect
    <3> QED
      BY <2>3, <2>10, <3>1, <3>2, <3>3
  <2> QED
    BY <2>7, <2>8, <2>9, <2>10
<1>5. ASSUME Calm, j.op' = "resume"
      PROVE  /\ j.epoch' <= app.pauseEpoch'
             /\ (j.pc' \in {"global", "checking", "checked", "lock"}
                   /\ j.epoch' = app.pauseEpoch') => Deserved(j)'
             /\ j.pc' \in {"write", "install"} => Deserved(j)' \/ PauseWaits'
             /\ j.pc' \in {"lock", "write", "install"} =>
                  ~risk.unsafe' /\ ~risk.cancelPending'
  <2>1. CASE EngineMoves
    <3>1. /\ j.pc' = "global" /\ UNCHANGED <<app, seen>> /\ j.op = "none"
      BY <1>1, <1>5, <2>1, ResumeStarts
    <3>2. CASE /\ j.mode' # AnyMode
               /\ \E i \in DOMAIN queue :
                    /\ queue[i].kind = "resume"
                    /\ j.epoch' = queue[i].epoch /\ j.by' = queue[i].by
      <4>1. PICK i \in DOMAIN queue :
                 /\ queue[i].kind = "resume"
                 /\ j.epoch' = queue[i].epoch /\ j.by' = queue[i].by
        BY <3>2
      <4>2. Valid(queue[i])
        BY <4>1 DEF IInv, GrantInv, RequestInv
      <4>3. ~Switched
        BY <3>1 DEF Switched
      <4> QED
        BY <3>1, <3>2, <4>1, <4>2, <4>3 DEF Valid, Deserved
    <3>3. CASE /\ j.mode' = AnyMode /\ j.epoch' = engine.base + 1
               /\ engine.pc = "work" /\ engine.was
               /\ app.pauseEpoch = engine.base + 1
      <4>1. Granted
        BY <3>3 DEF IInv, GrantInv, CycleInv
      <4>2. Granted'
        BY <3>1, <4>1 DEF Granted
      <4> QED
        BY <1>2, <3>1, <3>3, <4>2 DEF Deserved
    <3> QED
      BY <1>1, <1>5, <2>1, <3>2, <3>3, ResumeStarts
  <2>2. CASE job'["engine"] = job["engine"]
    <3>1. Deserved(j) => Deserved(j)'
      <4>1. Granted => Granted'
        BY <1>5, GrantLasts DEF Calm
      <4> QED
        BY <1>5, <2>2, <4>1, Zenon DEF Deserved, Calm
    <3>2. Quiet
      BY <1>1, <1>5, CalmQuiet
    <3>3. app'.pauseEpoch >= app.pauseEpoch
      BY <1>5 DEF Calm
    <3>4. ~risk.unsafe /\ ~risk.cancelPending =>
            ~risk'.unsafe /\ ~risk'.cancelPending
      BY <1>5, Zenon DEF Calm
    <3>5. j.op = "resume" /\ j' = j
      BY <1>5, <2>2
    <3> HIDE DEF j
    <3> QED
      BY <1>2, <1>3, <3>1, <3>2, <3>3, <3>4, <3>5 DEF Quiet
  <2> QED
    BY <1>5, <2>1, <2>2 DEF Calm
<1>6. CASE GoDown
  BY <1>6, SlotNames DEF GoDown, ResumeInv, NoJob, NewJob
<1>7. CASE Boot
  <2>1. job'["engine"].op = "none"
    BY <1>1, <1>7, SlotNames DEF Boot, TaskInv, DownInv, NoJob, NewJob
  <2> QED
    BY <2>1 DEF ResumeInv
<1>8. ASSUME (\E s \in Slots : TaskStep(s)) \/ Calm PROVE ResumeInv'
  BY <1>4, <1>5, <1>8 DEF ResumeInv
<1> QED
  BY <1>1, <1>6, <1>7, <1>8, StepKinds

\* A cancellation cycle restores a run only if no stop order came between.
LEMMA CycleStep ==
  ASSUME IInv, Next
  PROVE  CycleInv'
<1>1. TaskInv /\ TypeOK /\ ShapeInv /\ TypeOK' /\ CycleInv /\ StatusInv
  BY TypeStep DEF IInv, TaskInv, GrantInv
<1>2. /\ app.pauseEpoch \in Nat /\ app'.pauseEpoch \in Nat
      /\ engine.base \in Nat
  BY <1>1 DEF TypeOK, Engines
<1>3. engine.pc \in {"read", "pausing", "work"} =>
        job["engine"].op \in {"none", "silentPause"}
  BY <1>1 DEF TaskInv, JobInv, EngineTask, EngineOps
<1>4. ASSUME app'.pauseEpoch >= app.pauseEpoch, engine' = engine,
             \/ app'.pauseEpoch > app.pauseEpoch
             \/ ~Granted \/ Granted'
      PROVE  CycleInv'
  <2> HIDE DEF Granted
  <2> QED
    BY <1>1, <1>2, <1>4 DEF CycleInv
<1>5. ASSUME NEW s \in Slots, TaskStep(s) PROVE CycleInv'
  <2>1. engine' = engine
    BY <1>1, <1>5, TaskStepMoves
  <2>2. app'.pauseEpoch >= app.pauseEpoch
    BY <1>1, <1>5, TaskKeeps
  <2>3. CASE engine.pc \notin {"read", "pausing", "work"}
    BY <2>1, <2>3 DEF CycleInv
  <2>4. CASE engine.pc \in {"read", "pausing", "work"}
    <3>1. job["engine"].op \in {"none", "silentPause"}
      BY <1>3, <2>4
    <3>2. ~ResumeInstall(s)
      BY <1>1, <3>1, SlotTasks, ResumeInstallEffect
    <3>3. seen' = seen \/ app'.pauseEpoch > app.pauseEpoch
      BY <1>1, <1>2, <1>5, <3>1, <3>2, GrantStep
    <3>4. seen' = seen => (~Granted \/ Granted')
      BY DEF Granted
    <3> QED
      BY <1>4, <2>1, <2>2, <3>3, <3>4
  <2> QED
    BY <2>3, <2>4
<1>6. CASE Calm
  <2>1. ~Granted \/ Granted'
    BY <1>6, GrantLasts DEF Calm
  <2>2. app'.pauseEpoch >= app.pauseEpoch
    BY <1>6 DEF Calm
  <2>3. CASE engine' = engine
    BY <1>4, <2>1, <2>2, <2>3
  <2>4. CASE engine'.pc \notin {"read", "pausing", "work"}
    BY <2>4 DEF CycleInv
  <2>5. CASE CancelBegin
    <3>1. /\ engine' = [engine EXCEPT
                          !.pc = IF engine.why = "control" THEN "work" ELSE "read",
                          !.base = app.pauseEpoch, !.was = FALSE]
          /\ app' = app /\ engine \in Engines
      BY <1>1, <2>5 DEF CancelBegin, TypeOK
    <3>2. /\ engine'.base = app.pauseEpoch /\ ~engine'.was
      BY <3>1, SMT DEF Engines
    <3> QED
      BY <1>2, <3>1, <3>2 DEF CycleInv
  <2>6. CASE CancelRead
    <3>1. /\ engine.pc = "read" /\ app'.pauseEpoch = app.pauseEpoch + 1
          /\ engine' = [engine EXCEPT !.pc = "pausing",
                                      !.was = app.status = "Running"]
          /\ seen'.stops = seen.stops /\ seen'.grant = seen.grant
      BY <1>1, <2>6 DEF CancelRead, EngineAt, TypeOK
    <3>2. seen'.raced <=> seen.raced \/ (app.status = "Running" /\ app.pending > 0)
      BY <1>1, <2>6, Zenon DEF CancelRead, TypeOK
    <3>3. /\ engine'.pc = "pausing" /\ engine'.base = engine.base
          /\ engine'.was => app.status = "Running"
      BY <1>1, <3>1, Zenon DEF Engines, TypeOK
    <3>4. engine.base <= app.pauseEpoch
      BY <1>1, <3>1 DEF CycleInv
    <3>5. ASSUME app.status = "Running" PROVE Granted'
      <4>1. ~Switched
        BY <1>3, <3>1 DEF Switched
      <4>2. CASE Granted
        BY <3>1, <3>2, <4>2, GrantLasts
      <4>3. CASE PauseWaits
        BY <1>1, <3>2, <3>5, <4>3, WaitsCounted DEF Granted
      <4> QED
        BY <1>1, <3>5, <4>1, <4>2, <4>3 DEF StatusInv
    <3> QED
      BY <1>2, <3>1, <3>3, <3>4, <3>5 DEF CycleInv
  <2>7. CASE CancelPaused
    <3>1. /\ engine.pc = "pausing" /\ UNCHANGED <<app, seen>>
          /\ \E pc \in {"work", "safety"} : engine' = [engine EXCEPT !.pc = pc]
      BY <2>7, Zenon DEF CancelPaused, EngineAt, EngineGoto
    <3>2. /\ engine'.pc \in {"work", "safety"}
          /\ engine'.base = engine.base /\ engine'.was = engine.was
      BY <1>1, <3>1, SMT DEF Engines, TypeOK
    <3>3. Granted => Granted'
      BY <3>1 DEF Granted
    <3> HIDE DEF Granted
    <3> QED
      BY <1>1, <3>1, <3>2, <3>3 DEF CycleInv
  <2> QED
    BY <1>6, <2>3, <2>4, <2>5, <2>6, <2>7 DEF Calm, EngineMoves
<1>7. CASE GoDown
  BY <1>7 DEF GoDown, NewEngine, CycleInv
<1>8. CASE Boot
  <2>1. engine' = engine /\ engine.pc = "boot"
    BY <1>1, <1>8 DEF Boot, TaskInv, DownInv, NewEngine
  <2> QED
    BY <2>1 DEF CycleInv
<1> QED
  BY <1>1, <1>5, <1>6, <1>7, <1>8, StepKinds

\* What a shutdown may restore stays the granted run of the safety epoch.
LEMMA EligibleStep ==
  ASSUME IInv, Next
  PROVE  EligibleInv'
<1>1. TaskInv /\ TypeOK /\ ShapeInv /\ EligibleInv /\ StatusInv
  BY DEF IInv, TaskInv, GrantInv
<1>2. /\ app.safetyEpoch \in Nat /\ app.pending \in Nat
      /\ app.eligible \subseteq Nat
  BY <1>1 DEF TypeOK
<1>3. app'.eligible = {} => EligibleInv'
  BY DEF EligibleInv
<1>4. ASSUME app'.eligible = app.eligible, app'.safetyEpoch = app.safetyEpoch,
             app'.pending = app.pending \/ app.pending # 0,
             Granted \/ Switched => Granted' \/ Switched'
      PROVE  EligibleInv'
  <2> HIDE DEF Granted, Switched
  <2> QED
    BY <1>1, <1>4 DEF EligibleInv
<1>5. ASSUME NEW s \in Slots, TaskStep(s) PROVE EligibleInv'
  <2>1. CASE PauseAdmit(s)
    <3>1. CASE app' = app /\ seen' = seen
      <4>1. ~SaveInstall(s)
        BY <1>1, <2>1, SaveInstallEffect, PauseAdmitEffect
      <4>2. Switched => Switched'
        BY <1>1, <1>5, <4>1, TaskQuiet
      <4>3. Granted => Granted'
        BY <3>1 DEF Granted
      <4> QED
        BY <1>4, <3>1, <4>2, <4>3
    <3>2. CASE ~(app' = app /\ seen' = seen)
      <4>1. /\ app'.safetyEpoch = app.safetyEpoch + 1
            /\ app'.eligible = app.eligible
        BY <1>1, <2>1, <3>2, PauseAdmitEffect
      <4> QED
        BY <1>1, <1>2, <4>1 DEF EligibleInv
    <3> QED
      BY <3>1, <3>2
  <2>2. CASE StopLock(s)
    <3>1. /\ held["status"] = "free" /\ app'.safetyEpoch = app.safetyEpoch
          /\ app'.pending = app.pending /\ seen' = seen
      BY <1>1, <2>2, StopLockEffect
    <3>2. Granted => Granted'
      BY <3>1 DEF Granted
    <3>3. ~Switched
      BY <1>1, <3>1, StatusLock
    <3>4. CASE app'.eligible = app.eligible
      BY <1>4, <3>1, <3>2, <3>3, <3>4
    <3>5. CASE /\ app.status = "Running" /\ app.pending = 0
               /\ app'.eligible = {app.safetyEpoch}
      <4>1. ~PauseWaits
        BY <1>1, <3>5, WaitsCounted
      <4>2. Granted'
        BY <1>1, <3>2, <3>3, <3>5, <4>1 DEF StatusInv
      <4> QED
        BY <1>2, <3>1, <3>5, <4>2 DEF EligibleInv
    <3> QED
      BY <1>1, <1>3, <2>2, <3>4, <3>5, StopLockEffect
  <2>3. CASE SaveInstall(s)
    <3>1. CASE job[s].mode # app.mode
      BY <1>1, <1>3, <2>3, <3>1, SaveInstallEffect
    <3>2. CASE job[s].mode = app.mode
      <4>1. /\ app' = app /\ seen' = seen
            /\ job[s].op = "save" /\ job[s].pc = "install"
        BY <1>1, <2>3, <3>2, SaveInstallEffect
      <4>2. ~Switched
        BY <1>1, <3>2, <4>1, SlotTasks DEF Switched
      <4>3. Granted => Granted'
        BY <4>1 DEF Granted
      <4> QED
        BY <1>4, <4>1, <4>2, <4>3
    <3> QED
      BY <3>1, <3>2
  <2>4. CASE SaveWrite(s)
    <3>1. /\ app' = app /\ job[s].op = "save" /\ job[s].pc = "write"
      BY <1>1, <2>4, SaveWriteEffect
    <3>2. ~SaveInstall(s)
      BY <1>1, <3>1, SaveInstallEffect
    <3>3. Switched => Switched'
      BY <1>1, <1>5, <3>2, TaskQuiet
    <3>4. CASE seen' = seen
      <4>1. Granted => Granted'
        BY <3>4 DEF Granted
      <4> QED
        BY <1>4, <3>1, <3>3, <4>1
    <3>5. CASE job[s].mode # app.mode /\ Moved(s, "install")
      <4>1. Switched'
        BY <1>1, <3>1, <3>5, SlotTasks DEF Switched, Moved, Steps
      <4> QED
        BY <1>4, <3>1, <4>1
    <3> QED
      BY <1>1, <2>4, <3>4, <3>5, SaveWriteEffect
  <2>5. CASE ResumeInstall(s)
    <3>1. /\ s = "engine" /\ job[s].op = "resume" /\ job[s].pc = "install"
          /\ app'.eligible = app.eligible /\ app'.pending = app.pending
          /\ app'.safetyEpoch = app.safetyEpoch
      BY <1>1, <2>5, ResumeInstallEffect, SlotTasks
    <3>2. Deserved(job[s]) \/ PauseWaits
      BY <3>1 DEF IInv, GrantInv, ResumeInv
    <3>3. Deserved(job[s]) => Granted'
      BY <1>1, <2>5, ResumeInstallEffect, Zenon DEF Deserved, Granted
    <3>4. PauseWaits => app.pending # 0
      BY <1>1, <1>2, WaitsCounted
    <3> QED
      BY <1>1, <3>1, <3>2, <3>3, <3>4 DEF EligibleInv
  <2>6. CASE /\ ~PauseAdmit(s) /\ ~StopLock(s) /\ ~SaveInstall(s)
             /\ ~SaveWrite(s) /\ ~ResumeInstall(s)
    <3>1. /\ seen' = seen /\ app'.safetyEpoch = app.safetyEpoch
          /\ app'.eligible = app.eligible \/ app'.eligible = {}
          /\ app'.pending = app.pending \/ PauseClose(s)
      BY <1>1, <1>5, <2>6, TaskFrame
    <3>2. Switched => Switched'
      BY <1>1, <1>5, <2>6, TaskQuiet
    <3>3. Granted => Granted'
      BY <3>1 DEF Granted
    <3>4. PauseClose(s) => app.pending # 0
      BY <1>1, PauseCloseEffect, Counted
    <3> QED
      BY <1>3, <1>4, <3>1, <3>2, <3>3, <3>4
  <2> QED
    BY <2>1, <2>2, <2>3, <2>4, <2>5, <2>6
<1>6. CASE Calm
  <2>1. Granted => Granted'
    BY <1>6, GrantLasts DEF Calm
  <2>2. Switched => Switched'
    BY <1>1, <1>6, CalmQuiet DEF Quiet
  <2> QED
    BY <1>4, <1>6, <2>1, <2>2 DEF Calm
<1>7. CASE GoDown \/ Boot
  BY <1>3, <1>7 DEF GoDown, Boot, NewApp
<1> QED
  BY <1>1, <1>5, <1>6, <1>7, StepKinds

\* No step lets a stop order be lost.
LEMMA GrantInvStep ==
  ASSUME IInv, Next
  PROVE  GrantInv'
BY StatusStep, RequestStep, ResumeStep, CycleStep, EligibleStep DEF GrantInv

-----------------------------------------------------------------------------
(* The end of a shutdown, and the database.                                 *)

\* While the commit runs the engine has ended and its pause has succeeded.
LEMMA Finishing ==
  ASSUME TaskInv, job["final"].op = "commit"
  PROVE  /\ life = "finishing" /\ StopDone /\ job["engine"].op = "none"
         /\ app.stopping
<1>1. life = "finishing"
  BY DEF TaskInv, TypeOK, LifeInv
<1>2. EngineOps("exited") = {"none"}
  BY DEF EngineOps
<1> QED
  BY <1>1, <1>2 DEF TaskInv, JobInv, EngineTask, LifeInv

\* What a saved configuration leaves in the database.
LEMMA SavedFields ==
  ASSUME db \in Dbs, NEW new \in Modes, NEW status
  PROVE  /\ SavedDb(new, status).mode = new
         /\ SavedDb(new, status).dirty[new]
         /\ SavedDb(new, status).status[new] =
              IF new = app.mode THEN status ELSE "Paused"
         /\ \A m \in Modes \ {new} :
              SavedDb(new, status).status[m] =
                IF new = app.mode THEN db.status[m] ELSE "Paused"
<1>1. CASE new = app.mode
  BY <1>1, SMT DEF SavedDb, Dbs
<1>2. CASE new # app.mode
  BY <1>2, Zenon DEF SavedDb
<1> QED
  BY <1>1, <1>2

\* The writes other than those of a saved configuration and of the guard.
LEMMA WriteSteps ==
  ASSUME TypeOK, ShapeInv, NEW s \in Slots, TaskStep(s), db' # db,
         ~SaveWrite(s), ~CommitClear(s)
  PROVE  /\ job[s].pc # "install"
         /\ \/ Writes("Paused")
            \/ Writes("Running") /\ (ResumeWrite(s) \/ CommitWrite(s))
<1>1. CASE PauseWrite(s)
  BY <1>1, PauseWriteEffect
<1>2. CASE SilentWrite(s)
  BY <1>2, SilentWriteEffect
<1>3. CASE ResumeWrite(s)
  BY <1>3, ResumeWriteEffect
<1>4. CASE StopWrite(s)
  BY <1>4, StopWriteEffect
<1>5. CASE CommitWrite(s)
  BY <1>5, CommitWriteEffect
<1>6. CASE PauseAdmit(s)
  BY <1>6, PauseAdmitEffect
<1>7. CASE PauseLock(s)
  BY <1>7, PauseLockEffect
<1>8. CASE PauseClose(s)
  BY <1>8, PauseCloseEffect
<1>9. CASE SilentLock(s)
  BY <1>9, SilentLockEffect
<1>10. CASE GlobalCheck(s)
  BY <1>10, GlobalCheckEffect
<1>11. CASE CheckPaused(s)
  BY <1>11, CheckPausedEffect
<1>12. CASE Checked(s)
  BY <1>12, CheckedEffect
<1>13. CASE ResumeLock(s)
  BY <1>13, ResumeLockEffect
<1>14. CASE ResumeInstall(s)
  BY <1>14, ResumeInstallEffect
<1>15. CASE StopLock(s)
  BY <1>15, StopLockEffect
<1>16. CASE CommitAdmit(s)
  BY <1>16, CommitAdmitEffect
<1>17. CASE CommitLock(s)
  BY <1>17, CommitLockEffect
<1>18. CASE SaveLock(s)
  BY <1>18, SaveLockEffect
<1>19. CASE SaveInstall(s)
  BY <1>19, SaveInstallEffect
<1> QED
  BY <1>1, <1>2, <1>3, <1>4, <1>5, <1>6, <1>7, <1>8, <1>9, <1>10, <1>11, <1>12,
     <1>13, <1>14, <1>15, <1>16, <1>17, <1>18, <1>19
  DEF TaskStep

\* What the step of a task writes: only under the status lock, and to the mode
\* the database is in.
LEMMA Written ==
  ASSUME IInv, NEW s \in Slots, TaskStep(s)
  PROVE  \/ db' = db
         \/ /\ HoldsStatus(job[s]) /\ db.mode = app.mode
            /\ db'.mode = db.mode /\ db'.dirty = db.dirty
            /\ \A m \in Modes \ {db.mode} : db'.status[m] = db.status[m]
            /\ \/ db'.status[db.mode] = "Paused"
               \/ /\ db'.status[db.mode] = "Running"
                  /\ ResumeWrite(s) \/ CommitWrite(s)
         \/ /\ CommitClear(s) /\ app'.cleared
            /\ db'.mode = db.mode /\ db'.status = db.status
         \/ /\ SaveWrite(s) /\ db.mode = app.mode
            /\ db' = SavedDb(job[s].mode, app.status)
            /\ Moved(s, "install")
<1>1. TaskInv /\ TypeOK /\ ShapeInv /\ DbInv /\ db \in Dbs
  BY DEF IInv, TaskInv, TypeOK, Dbs
<1>2. CASE db' # db
  <2>1. HoldsStatus(job[s]) /\ up
    BY <1>1, <1>2, TaskFrame, TaskStepMoves
  <2>2. CASE SaveWrite(s)
    <3>1. /\ job[s].pc = "write" /\ db' = SavedDb(job[s].mode, app.status)
          /\ Moved(s, "install")
      BY <1>1, <1>2, <2>2, SaveWriteEffect
    <3>2. ~Switched
      BY <1>1, <2>1, <3>1, StatusLock
    <3> QED
      BY <1>1, <2>1, <2>2, <3>1, <3>2 DEF DbInv
  <2>3. CASE CommitClear(s)
    <3>1. app'.cleared
      BY <1>1, <1>2, <2>3, CommitClearEffect, Zenon
    <3> QED
      BY <1>1, <1>2, <2>3, <3>1, CommitClearEffect DEF Disarms
  <2>4. CASE ~SaveWrite(s) /\ ~CommitClear(s)
    <3>1. \/ Writes("Paused")
          \/ Writes("Running") /\ (ResumeWrite(s) \/ CommitWrite(s))
      BY <1>1, <1>2, <2>4, WriteSteps
    <3>2. job[s].pc # "install"
      BY <1>1, <1>2, <2>1, <2>4, WriteSteps
    <3>3. db.mode = app.mode
      BY <1>1, <2>1, <3>2, StatusLock DEF DbInv
    <3>4. app.mode \in Modes /\ db.status \in [Modes -> Statuses \cup {"none"}]
      BY <1>1 DEF TypeOK
    <3> QED
      BY <2>1, <3>1, <3>3, <3>4 DEF Writes
  <2> QED
    BY <2>2, <2>3, <2>4
<1> QED
  BY <1>2

\* Nothing of a life changes its status once the commit cleared the guard.
LEMMA ClearedStep ==
  ASSUME IInv, app.cleared, NEW s \in Slots, TaskStep(s)
  PROVE  /\ db' = db /\ seen' = seen /\ app'.status = app.status
         /\ app'.pending = app.pending /\ app'.cleared
         /\ job'["final"] = job["final"]
<1>1. TaskInv /\ TypeOK /\ ShapeInv
  BY DEF IInv, TaskInv
<1>2. /\ job["final"].op = "commit" /\ job["final"].pc = "done"
      /\ app.pending = 0
  BY DEF IInv, CommitInv, FinalAt
<1>3. job["engine"].op = "none" /\ job["stop"].op = "stopPause"
        /\ job["stop"].pc = "done"
  BY <1>1, <1>2, Finishing DEF StopDone
<1>4. TaskMoves(s)
  BY <1>1, TaskStepMoves
<1>5. job[s].pc \notin {"idle", "done"}
  BY <1>4 DEF TaskMoves
<1>6. s \in {"user", "nested", "monitor"}
  <2>1. job["engine"].pc = "idle"
    BY <1>1, <1>3, Shapes, SlotNames DEF ShapeInv
  <2> QED
    BY <1>2, <1>3, <1>5, <2>1, SlotNames DEF Slots
<1>7. job[s].op \in {"pause", "check"}
  BY <1>1, <1>5, <1>6, Shapes, SlotNames DEF ShapeInv
<1>8. job[s].op = "pause" => job[s].pc = "admit"
  BY <1>1, <1>2, <1>5, Counted, Shapes DEF ShapeInv
<1>9. /\ ~PauseLock(s) /\ ~PauseClose(s) /\ ~SilentLock(s) /\ ~StopLock(s)
      /\ ~ResumeInstall(s) /\ ~SaveInstall(s) /\ ~SaveWrite(s)
      /\ ~CommitClear(s) /\ ~HoldsStatus(job[s])
  BY <1>1, <1>7, <1>8, PauseLockEffect, PauseCloseEffect, SilentLockEffect,
     StopLockEffect, ResumeInstallEffect, SaveInstallEffect, SaveWriteEffect,
     CommitClearEffect DEF HoldsStatus
<1>10. PauseAdmit(s) => UNCHANGED <<app, seen>>
  BY <1>1, PauseAdmitEffect
<1>11. job'["final"] = job["final"]
  BY <1>4, <1>6, SlotNames
  DEF TaskMoves, Goes, OnlyJob, OnlyJobs, Placed
<1> QED
  BY <1>1, <1>9, <1>10, <1>11, TaskFrame

\* A paused strategy runs again only by the installation of a resume.
LEMMA PausedStays ==
  ASSUME TaskInv, app.status = "Paused", NEW s \in Slots, TaskStep(s),
         ~ResumeInstall(s)
  PROVE  app'.status = "Paused"
<1>1. TypeOK /\ ShapeInv
  BY DEF TaskInv
<1>2. CASE PauseLock(s) \/ SilentLock(s) \/ StopLock(s) \/ SaveInstall(s)
  BY <1>1, <1>2, PauseLockEffect, SilentLockEffect, StopLockEffect,
     SaveInstallEffect
<1> QED
  BY <1>1, <1>2, TaskFrame

\* Once the shutdown pause succeeded nothing runs or resumes in this life.
LEMMA StoppedStep ==
  ASSUME IInv, Next
  PROVE  StoppedInv'
<1>1. TaskInv /\ TypeOK /\ ShapeInv /\ StoppedInv /\ DbInv /\ db \in Dbs
  BY DEF IInv, TaskInv, TypeOK, Dbs
<1> DEFINE Stopping(j) == j.op = "stopPause" /\ j.pc = "write"
           Resumes2(j) == j.op = "resume" /\ j.pc \in {"write", "install"}
<1>2. ASSUME NEW s \in Slots, TaskStep(s) PROVE StoppedInv'
  <2>1. TaskMoves(s)
    BY <1>1, <1>2, TaskStepMoves
  <2>2. \A t \in Slots : Stopping(job[t])' =>
          Stopping(job[t]) \/ StopLock(s)
    BY <2>1, SlotNames
    DEF TaskMoves, Goes, Turns, OnlyJob, OnlyJobs, Steps, Placed, NoJob,
        SafetyPause, NewJob
  <2>3. ASSUME NEW t \in Slots, Stopping(job[t])' PROVE app'.status = "Paused"
    <3>1. CASE StopLock(s)
      BY <1>1, <3>1, StopLockEffect
    <3>2. CASE Stopping(job[t])
      <4>1. app.status = "Paused" /\ HoldsStatus(job[t])
        BY <1>1, <3>2 DEF StoppedInv, HoldsStatus
      <4>2. ~ResumeInstall(s)
        <5>1. ResumeInstall(s) => HoldsStatus(job[s]) /\ job[s].op = "resume"
          BY <1>1, ResumeInstallEffect DEF HoldsStatus
        <5> QED
          BY <1>1, <3>2, <4>1, <5>1, StatusLock
      <4> QED
        BY <1>1, <1>2, <4>1, <4>2, PausedStays
    <3> QED
      BY <2>2, <2>3, <3>1, <3>2
  <2>4. ASSUME StopDone'
        PROVE  /\ app'.status = "Paused"
               /\ ~Resumes2(job["engine"])'
               /\ db'.status[db'.mode] = "Paused" \/ FinalAt({"clear", "done"})'
    <3>1. CASE StopDone
      <4>1. /\ app.status = "Paused" /\ ~Resumes2(job["engine"])
            /\ db.status[db.mode] = "Paused" \/ FinalAt({"clear", "done"})
        BY <1>1, <3>1 DEF StoppedInv
      <4>2. app.stopping
        BY <1>1, <3>1 DEF TaskInv, LifeInv, StopDone
      <4>3. ~ResumeInstall(s) /\ ~ResumeWrite(s)
        BY <1>1, <4>1, SlotTasks, ResumeInstallEffect, ResumeWriteEffect
      <4>4. app'.status = "Paused"
        BY <1>1, <1>2, <4>1, <4>3, PausedStays
      <4>5. ~Resumes2(job["engine"])'
        <5>1. ~ResumeLock(s) \/ job'[s].pc # "write"
          BY <1>1, <4>2, ResumeLockEffect DEF MayResume, Moved, Steps
        <5> QED
          BY <2>1, <4>1, <5>1, SlotNames
          DEF TaskMoves, Goes, Turns, OnlyJob, OnlyJobs, Steps, Placed, NoJob,
              NewJob
      <4>6. db'.status[db'.mode] = "Paused" \/ FinalAt({"clear", "done"})'
        <5>1. FinalAt({"clear", "done"}) => FinalAt({"clear", "done"})'
          BY <1>1, <2>1, SlotNames
          DEF TaskMoves, Goes, Turns, OnlyJob, OnlyJobs, Steps, Placed, FinalAt
        <5>2. CASE CommitWrite(s) /\ db' # db
          <6>1. s = "final"
            BY <1>1, <5>2, CommitWriteEffect, SlotTasks
          <6> QED
            BY <1>1, <5>2, <6>1, CommitWriteEffect DEF Moved, Steps, FinalAt
        <5>3. CASE SaveWrite(s) /\ db' = SavedDb(job[s].mode, app.status)
          <6>1. job[s].mode \in Modes
            BY <1>1, <5>3, SaveWriteEffect, SlotTasks
            DEF TaskInv, JobInv, EngineTask
          <6> QED
            BY <1>1, <4>1, <5>3, <6>1, SavedFields
        <5>4. CASE db' = db
          BY <4>1, <5>1, <5>4
        <5>5. CASE \/ /\ db'.mode = db.mode
                      /\ db'.status[db.mode] = "Paused" \/ db'.status = db.status
          BY <4>1, <5>1, <5>5
        <5> QED
          BY <1>2, <4>3, <5>2, <5>3, <5>4, <5>5, Written
      <4> QED
        BY <4>4, <4>5, <4>6
    <3>2. CASE ~StopDone
      <4>1. /\ s = "stop" /\ StopWrite(s) /\ job'[s].ok
        BY <2>1, <2>4, <3>2, SlotNames
        DEF TaskMoves, Goes, Turns, OnlyJob, OnlyJobs, Steps, Placed, NoJob,
            NewJob, StopDone
      <4>2. /\ job[s].op = "stopPause" /\ job[s].pc = "write" /\ up
            /\ Moved(s, "done")
        BY <1>1, <4>1, StopWriteEffect
      <4>3. app' = app /\ Writes("Paused")
        BY <1>1, <4>1, StopWriteEffect, Zenon
      <4>4. HoldsStatus(job[s]) /\ app.status = "Paused"
        BY <1>1, <4>2 DEF HoldsStatus, StoppedInv
      <4>5. ~Resumes2(job["engine"])
        BY <1>1, <4>1, <4>4, StatusLock, SlotNames DEF HoldsStatus
      <4>6. db.mode = app.mode /\ app.mode \in Modes
        BY <1>1, <4>1, <4>2, <4>4, StatusLock DEF DbInv, TypeOK
      <4>7. db'.status[db'.mode] = "Paused"
        BY <1>1, <4>3, <4>6 DEF Writes, Dbs
      <4>8. job'["engine"] = job["engine"]
        BY <4>1, <4>2, SlotNames DEF Moved, OnlyJob
      <4> QED
        BY <4>3, <4>4, <4>5, <4>7, <4>8
    <3> QED
      BY <3>1, <3>2
  <2> QED
    BY <2>3, <2>4 DEF StoppedInv
<1>3. CASE Calm
  <2>1. /\ app'.status = app.status /\ db' = db
    BY <1>3 DEF Calm
  <2>2. \A t \in Slots : job'[t] = job[t] \/ Fresh(job'[t])
    BY <1>3 DEF Calm, Starts, OnlyJob
  <2>3. \A t \in Slots : Stopping(job[t])' => Stopping(job[t])
    BY <2>2 DEF Fresh
  <2>4. Resumes2(job["engine"])' => Resumes2(job["engine"])
    BY <2>2, SlotNames DEF Fresh
  <2>5. StopDone' => StopDone
    BY <2>2, SlotNames DEF Fresh, StopDone
  <2>6. FinalAt({"clear", "done"}) => FinalAt({"clear", "done"})'
    BY <1>3 DEF Calm, FinalAt
  <2> QED
    BY <1>1, <2>1, <2>3, <2>4, <2>5, <2>6 DEF StoppedInv
<1>4. CASE GoDown \/ Boot
  <2>1. \A t \in Slots : job'[t].op = "none"
    BY <1>1, <1>4, SMT DEF GoDown, Boot, TaskInv, DownInv, NoJob, NewJob
  <2> QED
    BY <2>1, SlotNames DEF StoppedInv, StopDone
<1> QED
  BY <1>1, <1>2, <1>3, <1>4, StepKinds

\* The steps that bring the commit to its write and to its last step.
LEMMA CommitReaches ==
  ASSUME TaskInv, NEW s \in Slots, TaskStep(s)
  PROVE  /\ FinalAt({"write"})' =>
              \/ FinalAt({"write"}) /\ s # "final"
              \/ s = "final" /\ CommitLock(s)
         /\ FinalAt({"clear"})' =>
              \/ FinalAt({"clear"}) /\ s # "final"
              \/ s = "final" /\ (CommitLock(s) \/ CommitWrite(s))
<1>1. TypeOK /\ ShapeInv /\ TaskMoves(s)
  BY TaskStepMoves DEF TaskInv
<1>2. CommitLock(s) => job[s].pc = "lock"
  BY <1>1, CommitLockEffect
<1>3. CommitWrite(s) => job[s].pc = "write"
  BY <1>1, CommitWriteEffect
<1>4. CASE s = "final"
  BY <1>1, <1>2, <1>3, <1>4, SlotNames
  DEF TaskMoves, Goes, Turns, OnlyJob, OnlyJobs, Steps, Placed, NoJob, NewJob,
      FinalAt
<1>5. CASE s # "final"
  BY <1>1, <1>5, SlotNames
  DEF TaskMoves, Goes, OnlyJob, OnlyJobs, Placed, FinalAt
<1> QED
  BY <1>4, <1>5

\* While the commit holds the pause admission and the status no pause is
\* counted, and no other task writes, grants or orders to stop.
LEMMA CommitAlone ==
  ASSUME IInv, FinalAt({"write", "clear"}),
         NEW s \in Slots, TaskStep(s), s # "final"
  PROVE  app'.pending = app.pending /\ seen' = seen /\ db' = db
<1>1. TaskInv /\ TypeOK /\ ShapeInv
  BY DEF IInv, TaskInv
<1>2. app.pending = 0
  BY DEF IInv, CommitInv
<1>3. /\ "final" \in Slots /\ HoldsStatus(job["final"])
      /\ HoldsAdmission(job["final"])
  BY SlotNames DEF FinalAt, HoldsStatus, HoldsAdmission
<1>4. ~HoldsStatus(job[s])
  BY <1>1, <1>3, StatusLock
<1>5. ~PauseAdmit(s)
  BY <1>1, <1>3, OtherLocks, PauseAdmitEffect
<1>6. ~PauseClose(s)
  <2>1. PauseClose(s) => job[s].op = "pause" /\ job[s].pc = "close"
    BY <1>1, PauseCloseEffect
  <2> QED
    BY <1>1, <1>2, <2>1, Counted
<1>7. ~SaveWrite(s) /\ ~ResumeInstall(s)
  BY <1>1, <1>4, SaveWriteEffect, ResumeInstallEffect DEF HoldsStatus
<1> QED
  BY <1>1, <1>4, <1>5, <1>6, <1>7, TaskFrame

\* What the commit writes is the status of the mode the database is in.
LEMMA CommitWrites ==
  ASSUME IInv, FinalAt({"write"}), CommitWrite("final"), FinalAt({"clear"})'
  PROVE  db'.status[db'.mode] \in Statuses /\ seen' = seen /\ app' = app
<1>1. TaskInv /\ TypeOK /\ DbInv /\ "final" \in Slots
  BY SlotNames DEF IInv, TaskInv
<1>2. ~Switched
  BY <1>1, StatusLock, SlotNames DEF FinalAt, HoldsStatus
<1>3. db.mode = app.mode /\ db \in Dbs
  BY <1>1, <1>2, CommitWriteEffect DEF DbInv, TypeOK, Dbs
<1>4. Writes("Running") \/ Writes("Paused")
  BY <1>1, CommitWriteEffect DEF FinalAt, Moved, Steps
<1> QED
  BY <1>1, <1>3, <1>4, CommitWriteEffect DEF Writes, Dbs, Statuses

\* The commit leaves in the database what may be restored.
LEMMA CommitStep ==
  ASSUME IInv, Next
  PROVE  CommitInv'
<1>1. TaskInv /\ TypeOK /\ ShapeInv /\ CommitInv
  BY DEF IInv, TaskInv
<1>2. ASSUME NEW s \in Slots, TaskStep(s) PROVE CommitInv'
  <2>1. FinalAt({"write", "clear"})' <=> FinalAt({"write"})' \/ FinalAt({"clear"})'
    BY DEF FinalAt
  <2>2. CASE s # "final" /\ FinalAt({"write", "clear"})
    <3>1. app'.pending = 0 /\ seen' = seen /\ db' = db
      BY <1>1, <1>2, <2>2, CommitAlone DEF CommitInv
    <3>2. /\ FinalAt({"write"})' => FinalAt({"write"})
          /\ FinalAt({"clear"})' => FinalAt({"clear"})
      BY <1>1, <1>2, <2>2, CommitReaches
    <3>3. ~app'.cleared
      <4>1. ~app.cleared
        BY <1>1, <2>2 DEF CommitInv, FinalAt
      <4>2. ~CommitClear(s)
        BY <1>1, <2>2, CommitClearEffect, SlotTasks
      <4> QED
        BY <1>1, <1>2, <4>1, <4>2, TaskFrame
    <3> QED
      BY <1>1, <3>1, <3>2, <3>3 DEF CommitInv, Granted
  <2>3. CASE s = "final" /\ CommitLock(s)
    <3>1. /\ job["final"].op = "commit" /\ job["final"].pc = "lock"
          /\ seen' = seen /\ db' = db /\ held["status"] = "free"
      BY <1>1, <2>3, CommitLockEffect
    <3>2. ~app.cleared /\ app'.cleared = app.cleared
      BY <1>1, <2>3, <3>1, CommitLockEffect DEF CommitInv, FinalAt
    <3>3. FinalAt({"write", "clear"})' => app.pending = 0 /\ app'.pending = 0
      BY <1>1, <2>3, CommitLockEffect DEF FinalAt, Moved, Steps
    <3>4. FinalAt({"write"})' => Granted
      <4>1. FinalAt({"write"})' => app.eligible = {app.safetyEpoch}
        BY <1>1, <2>3, CommitLockEffect DEF FinalAt, Moved, Steps
      <4>2. ~Switched
        BY <1>1, <3>1, StatusLock, SlotNames
      <4> QED
        BY <4>1, <4>2 DEF IInv, GrantInv, EligibleInv
    <3>5. db.status[db.mode] = "Paused"
      BY <1>1, <3>1, Finishing DEF IInv, StoppedInv, FinalAt
    <3> QED
      BY <3>1, <3>2, <3>3, <3>4, <3>5, <2>1 DEF CommitInv, Granted
  <2>4. CASE s = "final" /\ CommitWrite(s)
    <3>1. FinalAt({"write"}) /\ Granted /\ app.pending = 0 /\ ~app.cleared
      BY <1>1, <2>4, CommitWriteEffect DEF FinalAt, CommitInv
    <3>2. app' = app /\ seen' = seen
      BY <1>1, <2>4, CommitWriteEffect
    <3>3. ~FinalAt({"write"})'
      BY <1>1, <2>4, CommitWriteEffect DEF FinalAt, Moved, Steps
    <3>4. FinalAt({"clear"})' => db'.status[db'.mode] \in Statuses
      BY <2>4, <3>1, CommitWrites
    <3> QED
      BY <3>1, <3>2, <3>3, <3>4 DEF CommitInv, Granted, Statuses
  <2>5. CASE s = "final" /\ CommitClear(s)
    <3>1. FinalAt({"clear"}) /\ app.pending = 0 /\ app'.pending = 0
      BY <1>1, <2>5, CommitClearEffect DEF FinalAt, CommitInv
    <3>2. FinalAt({"done"})'
      BY <1>1, <2>5, CommitClearEffect DEF FinalAt, Moved, Steps
    <3> QED
      BY <3>1, <3>2 DEF CommitInv, FinalAt
  <2>6. CASE /\ ~FinalAt({"write", "clear"}) \/ s = "final"
             /\ ~(s = "final" /\ (CommitLock(s) \/ CommitWrite(s) \/ CommitClear(s)))
    <3>1. ~FinalAt({"write"})' /\ ~FinalAt({"clear"})'
      BY <1>1, <1>2, <2>6, CommitReaches DEF FinalAt
    <3>2. app'.cleared => app.cleared
      <4>1. CommitClear(s) => s = "final"
        BY <1>1, CommitClearEffect, SlotTasks
      <4> QED
        BY <1>1, <1>2, <2>6, <4>1, TaskFrame
    <3>3. app.cleared => FinalAt({"done"})' /\ app'.pending = 0
      BY <1>1, <1>2, ClearedStep DEF CommitInv, FinalAt
    <3> QED
      BY <2>1, <3>1, <3>2, <3>3 DEF CommitInv
  <2> QED
    BY <2>2, <2>3, <2>4, <2>5, <2>6
<1>3. CASE Calm
  <2>1. /\ app'.pending = app.pending /\ app'.cleared = app.cleared /\ db' = db
        /\ Granted => Granted'
    BY <1>3, GrantLasts DEF Calm
  <2>2. job["final"].op = "commit" => job'["final"] = job["final"]
    BY <1>3 DEF Calm
  <2>3. job["final"].op # "commit" => ~FinalAt({"write", "clear"})'
    BY <1>3, SlotNames DEF Calm, Starts, OnlyJob, Fresh, FinalAt
  <2>4. /\ FinalAt({"write", "clear"})' => FinalAt({"write", "clear"})
        /\ FinalAt({"write"})' => FinalAt({"write"})
        /\ FinalAt({"clear"})' => FinalAt({"clear"})
        /\ FinalAt({"done"}) => FinalAt({"done"})'
    BY <2>2, <2>3 DEF FinalAt
  <2> QED
    BY <1>1, <2>1, <2>4 DEF CommitInv
<1>4. CASE GoDown \/ Boot
  <2>1. job'["final"].op = "none" /\ ~app'.cleared
    BY <1>1, <1>4, SlotNames, SMT
    DEF GoDown, Boot, TaskInv, DownInv, NoJob, NewJob, NewApp
  <2> QED
    BY <2>1 DEF CommitInv, FinalAt
<1> QED
  BY <1>1, <1>2, <1>3, <1>4, StepKinds

\* A task that installs no configuration leaves a change of mode as it is.
LEMMA SwitchKept ==
  ASSUME TaskInv, NEW s \in Slots, TaskStep(s), Switched, Switched'
  PROVE  job'["engine"].mode = job["engine"].mode
<1>1. TaskMoves(s)
  BY TaskStepMoves DEF TaskInv
<1>2. job["engine"].pc = "install" /\ job["engine"].op = "save"
  BY DEF Switched
<1> QED
  BY <1>1, <1>2, SlotNames
  DEF TaskMoves, Goes, OnlyJob, OnlyJobs, Steps, Placed

\* Memory and database agree on the mode whatever a task does.
LEMMA ModeStep ==
  ASSUME IInv, NEW s \in Slots, TaskStep(s)
  PROVE  db'.mode = IF Switched' THEN job'["engine"].mode ELSE app'.mode
<1>1. TaskInv /\ TypeOK /\ ShapeInv /\ up
  BY TaskStepMoves DEF IInv, TaskInv
<1>2. db.mode = IF Switched THEN job["engine"].mode ELSE app.mode
  BY <1>1 DEF IInv, DbInv
<1>3. db \in Dbs /\ "engine" \in Slots
  BY <1>1, SlotNames DEF TypeOK, Dbs
<1>4. CASE /\ SaveWrite(s) /\ Moved(s, "install")
           /\ db' = SavedDb(job[s].mode, app.status)
  <2>1. s = "engine" /\ job[s].op = "save" /\ app' = app
    BY <1>1, <1>4, SaveWriteEffect, SlotTasks
  <2>2. job[s].mode \in Modes
    BY <1>1, <2>1 DEF TaskInv, JobInv, EngineTask
  <2>3. db'.mode = job[s].mode
    BY <1>3, <1>4, <2>2, SavedFields
  <2>4. /\ job'["engine"].op = "save" /\ job'["engine"].pc = "install"
        /\ job'["engine"].mode = job["engine"].mode
    BY <1>4, <2>1 DEF Moved, Steps
  <2>5. Switched' <=> job["engine"].mode # app.mode
    BY <2>1, <2>4 DEF Switched
  <2> QED
    BY <2>1, <2>3, <2>4, <2>5
<1>5. CASE SaveInstall(s)
  <2>1. /\ s = "engine" /\ job[s].op = "save" /\ job[s].pc = "install"
        /\ db' = db /\ Moved(s, "done")
    BY <1>1, <1>5, SaveInstallEffect, SlotTasks
  <2>4. app'.mode = job[s].mode
    BY <1>1, <1>5, SaveInstallEffect
  <2>2. ~Switched'
    BY <2>1 DEF Moved, Steps, Switched
  <2>3. db.mode = job["engine"].mode
    BY <1>2, <2>1 DEF Switched
  <2> QED
    BY <2>1, <2>2, <2>3, <2>4
<1>6. CASE ~SaveInstall(s) /\ ~(SaveWrite(s) /\ Moved(s, "install"))
  <2>1. app'.mode = app.mode
    BY <1>1, <1>6, TaskFrame
  <2>2. db'.mode = db.mode
    BY <1>6, Written
  <2>3. Switched' <=> Switched
    <3>1. Switched => Switched'
      BY <1>1, <1>6, TaskQuiet
    <3>2. Switched' => Switched \/ SaveWrite(s)
      BY <1>1, TaskQuiet
    <3>3. SaveWrite(s) => s = "engine" /\ Moved(s, "done")
      BY <1>1, <1>6, SaveWriteEffect, SlotTasks
    <3>4. s = "engine" /\ Moved(s, "done") => ~Switched'
      BY DEF Moved, Steps, Switched
    <3> QED
      BY <3>1, <3>2, <3>3, <3>4
  <2> QED
    BY <1>1, <1>2, <2>1, <2>2, <2>3, SwitchKept
<1>7. CASE SaveWrite(s) /\ Moved(s, "install")
  <2>1. job[s].pc = "write" /\ ~Moved(s, "done")
    BY <1>1, <1>7, SaveWriteEffect DEF Moved, Steps
  <2>2. db' = SavedDb(job[s].mode, app.status)
    BY <1>1, <1>7, <2>1, SaveWriteEffect
  <2> QED
    BY <1>4, <1>7, <2>2
<1> QED
  BY <1>5, <1>6, <1>7

\* Until the commit cleared the guard the mode in use stays armed.
LEMMA ArmedStep ==
  ASSUME IInv, NEW s \in Slots, TaskStep(s), ~app'.cleared
  PROVE  db'.dirty[db'.mode]
<1>1. TaskInv /\ TypeOK /\ ShapeInv /\ up /\ db \in Dbs
  BY TaskStepMoves DEF IInv, TaskInv, TypeOK, Dbs
<1>2. ~app.cleared
  BY ClearedStep
<1>3. db.dirty[db.mode]
  BY <1>1, <1>2 DEF IInv, DbInv
<1>4. CASE SaveWrite(s) /\ db' = SavedDb(job[s].mode, app.status)
  <2>1. job[s].mode \in Modes
    BY <1>1, <1>4, SaveWriteEffect, SlotTasks DEF TaskInv, JobInv, EngineTask
  <2> QED
    BY <1>1, <1>4, <2>1, SavedFields
<1> QED
  BY <1>3, <1>4, Written

\* A status that a start would take as it is was granted.
LEMMA RestartStep ==
  ASSUME IInv, NEW s \in Slots, TaskStep(s)
  PROVE  RestartIsGranted'
<1>1. TaskInv /\ TypeOK /\ RestartIsGranted
  BY DEF IInv, TaskInv, DbInv
<1>2. CASE ~app'.cleared
  BY <1>2, ArmedStep DEF RestartIsGranted
<1>3. CASE app.cleared
  BY <1>1, <1>3, ClearedStep DEF RestartIsGranted, SavedStatus
<1>4. CASE app'.cleared /\ ~app.cleared
  <2>1. CommitClear(s)
    BY <1>1, <1>4, TaskFrame DEF TaskInv
  <2>2. /\ seen' = seen /\ db'.mode = db.mode /\ db'.status = db.status
    BY <1>1, <1>4, <2>1, CommitClearEffect DEF Disarms
  <2>3. FinalAt({"clear"})
    BY <1>1, <2>1, CommitClearEffect, SlotTasks DEF FinalAt, TaskInv
  <2>4. db.status[db.mode] # "none" /\ (db.status[db.mode] = "Running" => Granted)
    BY <2>3 DEF IInv, CommitInv
  <2> QED
    BY <2>2, <2>4 DEF RestartIsGranted, SavedStatus, Granted
<1> QED
  BY <1>2, <1>3, <1>4

\* A mode that is left is left paused.
LEMMA AbandonStep ==
  ASSUME IInv, NEW s \in Slots, TaskStep(s)
  PROVE  AbandonedModePaused'
<1>1. TaskInv /\ AbandonedModePaused /\ db \in Dbs
  BY DEF IInv, TaskInv, DbInv, TypeOK, Dbs
<1>2. CASE /\ SaveWrite(s) /\ db.mode = app.mode
           /\ db' = SavedDb(job[s].mode, app.status)
  <2>1. job[s].mode \in Modes
    BY <1>1, <1>2, SaveWriteEffect, SlotTasks
    DEF TaskInv, JobInv, EngineTask
  <2> QED
    BY <1>1, <1>2, <2>1, SavedFields DEF AbandonedModePaused
<1>3. CASE /\ db'.mode = db.mode
           /\ \A m \in Modes \ {db.mode} : db'.status[m] = db.status[m]
  BY <1>1, <1>3 DEF AbandonedModePaused
<1> QED
  BY <1>2, <1>3, Written

\* Every step keeps memory and database in order.
LEMMA DbStep ==
  ASSUME IInv, Next
  PROVE  DbInv'
<1>1. TaskInv /\ TypeOK /\ DbInv /\ db \in Dbs
  BY DEF IInv, TaskInv, TypeOK, Dbs
<1>2. ASSUME NEW s \in Slots, TaskStep(s) PROVE DbInv'
  BY <1>2, ModeStep, ArmedStep, RestartStep, AbandonStep DEF DbInv
<1>3. CASE Calm
  <2>1. /\ up /\ db' = db /\ app'.mode = app.mode /\ app'.cleared = app.cleared
        /\ Granted => Granted'
    BY <1>3, GrantLasts DEF Calm
  <2>2. Switched' <=> Switched
    BY <1>1, <1>3, CalmQuiet DEF Quiet
  <2>3. Switched => job'["engine"] = job["engine"]
    BY <1>3, SlotNames DEF Calm, Starts, OnlyJob, Switched
  <2>4. RestartIsGranted'
    BY <1>1, <2>1 DEF DbInv, RestartIsGranted, SavedStatus, Granted
  <2> QED
    BY <1>1, <2>1, <2>2, <2>3, <2>4 DEF DbInv, AbandonedModePaused
<1>4. CASE GoDown
  BY <1>1, <1>4
  DEF GoDown, DbInv, RestartIsGranted, SavedStatus, AbandonedModePaused
<1>5. CASE Boot
  <2>1. /\ db'.mode = db.mode /\ db'.status = db.status
        /\ db'.dirty[db.mode] = TRUE
    BY <1>1, <1>5 DEF Boot, Armed, Dbs
  <2>2. app'.mode = db.mode
    BY <1>5 DEF Boot, NewApp
  <2>3. ~Switched'
    BY <1>1, <1>5, SlotNames
    DEF Boot, TaskInv, DownInv, NoJob, NewJob, Switched
  <2> QED
    BY <1>1, <2>1, <2>2, <2>3
    DEF DbInv, RestartIsGranted, AbandonedModePaused
<1> QED
  BY <1>1, <1>2, <1>3, <1>4, <1>5, StepKinds

-----------------------------------------------------------------------------
(* The theorems.                                                            *)

\* The process is down at first, with no state and an unarmed database.
LEMMA InitHolds ==
  ASSUME Init
  PROVE  IInv
<1>1. TypeOK
  <2>1. app \in Apps
    BY SMT DEF Init, NewApp, Apps, Statuses, Modes
  <2>2. job \in [Slots -> Jobs]
    BY TaskTypes, Zenon DEF Init
  <2>3. held \in Holders
    BY Zenon DEF Init, Holders
  <2>4. risk \in Risks
    BY SMT DEF Init, NoRisk, Risks
  <2>5. engine \in Engines
    BY SMT DEF Init, NewEngine, Engines, EnginePcs, Reasons, Modes
  <2>6. queue \in Seq(Messages) /\ asked \subseteq Messages
    BY SMT DEF Init
  <2>7. db \in Dbs
    BY SMT DEF Init, Dbs, Modes
  <2>8. seen \in Seens /\ budget \in Budgets
    BY SMT DEF Init, Seens, Budgets
  <2> QED
    BY <2>1, <2>2, <2>3, <2>4, <2>5, <2>6, <2>7, <2>8
    DEF Init, TypeOK, Apps, Holders, Risks, Dbs, Seens, Budgets
<1>2. \A s \in Slots : job[s].op = "none" /\ job[s].pc = "idle"
  BY SMT DEF Init, NoJob, NewJob
<1>3. ~up /\ ~app.cleared /\ app.status = "Paused" /\ app.pending = 0
  BY SMT DEF Init, NewApp
<1>4. life = "none" /\ queue = <<>> /\ asked = {} /\ engine.pc = "boot"
  BY SMT DEF Init, NewEngine
<1>5. ShapeInv
  BY <1>2, Shapes, SlotNames, SMT DEF ShapeInv, Slots
<1>6. JobInv
  BY <1>2, <1>4, SlotNames, SMT
  DEF JobInv, EngineTask, NestedTask, Commands, EngineOps
<1>7. DownInv
  BY SMT DEF Init, DownInv
<1>8. LockInv
  <2>1. \A s \in Slots, l \in Locks : held[l] # s
    BY SMT DEF Init, Slots
  <2>2. \A s \in Slots, l \in Locks : ~Holds(l, job[s])
    BY <1>2, HoldsBy, SMT DEF Locks
  <2> QED
    BY <2>1, <2>2 DEF LockInv
<1>9. LifeInv
  BY <1>2, <1>4, SlotNames DEF LifeInv
<1>10. PendInv
  BY <1>2, <1>3, SlotNames, SMT DEF PendInv, Pending
<1>11. GrantInv
  BY <1>2, <1>3, <1>4, SlotNames, SMT
  DEF Init, NewApp, GrantInv, StatusInv, RequestInv, ResumeInv, CycleInv,
      EligibleInv
<1>12. StoppedInv /\ CommitInv
  BY <1>2, <1>3, SlotNames DEF StoppedInv, StopDone, CommitInv, FinalAt
<1>13. DbInv
  BY SMT DEF Init, DbInv, RestartIsGranted, SavedStatus, AbandonedModePaused,
             Modes
<1> QED
  BY <1>1, <1>5, <1>6, <1>7, <1>8, <1>9, <1>10, <1>11, <1>12, <1>13
  DEF IInv, TaskInv

\* No step, and no stutter, breaks the invariant.
LEMMA IInvStep ==
  ASSUME IInv, [Next]_vars
  PROVE  IInv'
<1>1. CASE Next
  BY <1>1, TaskInvStep, GrantInvStep, StoppedStep, CommitStep, DbStep DEF IInv
<1>2. CASE UNCHANGED vars
  <2>1. TaskInv'
    BY <1>2 DEF vars, IInv, TaskInv, TypeOK, ShapeInv, JobInv, EngineTask,
                NestedTask, Commands, DownInv, LockInv, LifeInv, StopDone,
                PendInv
  <2>2. GrantInv'
    BY <1>2 DEF vars, IInv, GrantInv, StatusInv, RequestInv, ResumeInv,
                CycleInv, EligibleInv, Granted, Switched, PauseWaits, Valid,
                Deserved
  <2>3. StoppedInv' /\ CommitInv' /\ DbInv'
    BY <1>2 DEF vars, IInv, StoppedInv, CommitInv, DbInv, Granted, Switched,
                StopDone, FinalAt, RestartIsGranted, SavedStatus,
                AbandonedModePaused
  <2> QED
    BY <2>1, <2>2, <2>3 DEF IInv
<1> QED
  BY <1>1, <1>2

\* The inductive invariant holds in every reachable state.
THEOREM Invariance == Spec => []IInv
<1>1. Init => IInv
  BY InitHolds
<1>2. IInv /\ [Next]_vars => IInv'
  BY IInvStep
<1> QED
  BY <1>1, <1>2, PTL DEF Spec

\* Every variable keeps its type, whatever the inputs, failures and restarts.
THEOREM TypeCorrect == Spec => []TypeOK
<1>1. IInv => TypeOK
  BY DEF IInv, TaskInv
<1> QED
  BY <1>1, Invariance, PTL

\* A strategy that runs while no status change is under way was granted to run
\* after the last stop order (set_trading_status, persist_safety_pause).
THEOREM GrantedRuns == Spec => []OnlyGrantedRuns
<1>1. IInv => OnlyGrantedRuns
  <2> SUFFICES ASSUME IInv, Settled, app.status = "Running" PROVE Granted
    BY DEF OnlyGrantedRuns, Granted
  <2>1. TaskInv /\ "engine" \in Slots
    BY SlotNames DEF IInv
  <2>2. ~PauseWaits
    BY <2>1, WaitsCounted DEF Settled
  <2>3. ~Switched
    BY <2>1, StatusLock DEF Settled, Free
  <2> QED
    BY <2>2, <2>3 DEF IInv, GrantInv, StatusInv
<1> QED
  BY <1>1, Invariance, PTL

\* What a start takes for a clean Running status no later stop order revoked,
\* wherever the last life ended.
THEOREM RestartGranted == Spec => []RestartIsGranted
<1>1. IInv => RestartIsGranted
  BY DEF IInv, DbInv
<1> QED
  BY <1>1, Invariance, PTL

\* A mode that a configuration change leaves is paused in the database.
THEOREM Abandoned == Spec => []AbandonedModePaused
<1>1. IInv => AbandonedModePaused
  BY DEF IInv, DbInv
<1> QED
  BY <1>1, Invariance, PTL

\* While a strategy may trade its execution guard is set, so that a crash
\* restarts it paused.
THEOREM Guarded == Spec => []ArmedWhileRunning
<1>1. IInv => ArmedWhileRunning
  <2> SUFFICES ASSUME IInv, up, Free("status"), app.status = "Running"
               PROVE  db.dirty[app.mode]
    BY DEF ArmedWhileRunning
  <2>1. TaskInv /\ DbInv /\ "engine" \in Slots
    BY SlotNames DEF IInv
  <2>2. db.mode = app.mode
    BY <2>1, StatusLock DEF DbInv, Free
  <2>3. ~app.cleared
    <3>1. ~StopDone
      BY DEF IInv, StoppedInv
    <3> QED
      BY <2>1, <3>1, Finishing DEF IInv, CommitInv, FinalAt
  <2> QED
    BY <2>1, <2>2, <2>3 DEF DbInv
<1> QED
  BY <1>1, Invariance, PTL

\* After the commit cleared the guard nothing of this life changes the status.
THEOREM ClearedFinal == Spec => ClearedIsFinal
<1>1. IInv /\ Next => StaysCleared
  <2> SUFFICES ASSUME IInv, Next, up, up', app.cleared
               PROVE  db' = db /\ app'.status = app.status
    BY DEF StaysCleared
  <2>1. TaskInv
    BY DEF IInv
  <2>2. CASE Calm
    BY <2>2 DEF Calm
  <2>3. CASE GoDown \/ Boot
    BY <2>3 DEF GoDown, Boot
  <2> QED
    BY <2>1, <2>2, <2>3, ClearedStep, StepKinds
<1>2. IInv /\ [Next]_vars => [StaysCleared]_vars
  BY <1>1
<1> QED
  BY <1>2, Invariance, PTL DEF Spec, ClearedIsFinal

\* A strategy starts to run only while the answer of the global check stands.
THEOREM SafeResume == Spec => NoResumeUnderRisk
<1>1. IInv /\ Next => StartsSafely
  <2> SUFFICES ASSUME IInv, Next, up, up', app.status = "Paused",
                      app'.status = "Running"
               PROVE  ~risk.unsafe /\ ~risk.cancelPending
    BY DEF StartsSafely
  <2>1. TaskInv /\ TypeOK /\ ShapeInv
    BY DEF IInv, TaskInv
  <2>2. CASE Calm
    BY <2>2 DEF Calm
  <2>3. CASE GoDown \/ Boot
    BY <2>3 DEF GoDown, Boot
  <2>4. ASSUME NEW s \in Slots, TaskStep(s)
        PROVE  ~risk.unsafe /\ ~risk.cancelPending
    <3>1. ResumeInstall(s)
      BY <2>1, <2>4, PausedStays DEF TaskInv
    <3>2. s = "engine" /\ job[s].op = "resume" /\ job[s].pc = "install"
      BY <2>1, <3>1, ResumeInstallEffect, SlotTasks
    <3> QED
      BY <3>2 DEF IInv, GrantInv, ResumeInv
  <2> QED
    BY <2>1, <2>2, <2>3, <2>4, StepKinds
<1>2. IInv /\ [Next]_vars => [StartsSafely]_vars
  BY <1>1
<1> QED
  BY <1>2, Invariance, PTL DEF Spec, NoResumeUnderRisk
=============================================================================
