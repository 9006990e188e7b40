--------------------------- MODULE GlobalRiskGate ---------------------------
(***************************************************************************)
(* The risk gate that all strategies of the process share                   *)
(* (GlobalPositionLimit in server/state.rs) and the engines that pass it.   *)
(*                                                                          *)
(* An order may be sent only while no strategy owes the gate a fill.  An    *)
(* engine that learns of a fill publishes it, waits until every request     *)
(* already sent has returned (the writer side of submission_barrier), syncs *)
(* its position, has the total checked, and only then withdraws it.  If the *)
(* sync fails, or a request is dropped with its outcome unknown, the        *)
(* failure generation moves on, and only a check that saw every strategy    *)
(* ready after that lets the gate open again.                               *)
(*                                                                          *)
(* A check reads the strategies one after the other: nothing it reads is    *)
(* stable while it reads the rest.  When the total is over the limit it     *)
(* pauses every strategy and asks each engine to cancel its orders.         *)
(*                                                                          *)
(* Prices, ages and margins are abstracted to a position of whole units and *)
(* a ready flag; the members are fixed (membership_ready is TRUE).          *)
(***************************************************************************)
EXTENDS Integers, FiniteSets, FiniteSetsExt

CONSTANTS
    Members,    \* the strategies
    Limit,      \* global_max_position_notional, in units
    Starts,     \* the values of the protection switch a start may load
    MaxUnits,   \* bound: units held on the exchange, over all strategies
    MaxFaults,  \* bound: failed syncs, failed cancels, dropped requests
    MaxToggles  \* bound: changes of the protection switch

ASSUME GateAssumption ==
    /\ IsFiniteSet(Members)
    /\ {"timer", "config", "none"} \cap Members = {}
    /\ Limit \in Nat \ {0}
    /\ Starts \subseteq BOOLEAN
    /\ MaxUnits \in Nat /\ MaxFaults \in Nat /\ MaxToggles \in Nat

VARIABLES
    gate,     \* the atomics of GlobalPositionLimit, and its barrier
    check,    \* the check that holds GlobalPositionLimit.lock
    pc,       \* where each engine is
    flag,     \* for each flag of an AppState, the strategies that have it set
    pos,      \* the position each strategy last synced
    real,     \* the position on the exchange
    orders,   \* strategies with an open order on the exchange
    owes,     \* history: strategies with a fill nobody has accounted for
    used      \* faults and toggles used

vars == <<gate, check, pc, flag, pos, real, orders, owes, used>>

EnginePcs == {"boot", "idle", "posting", "acquire", "sync", "syncCheck",
              "resolve", "failCheck", "fail", "withdraw", "readyCheck",
              "cancelling", "cancelled", "dead"}

Gates == [enabled : BOOLEAN, blocked : BOOLEAN, triggered : BOOLEAN,
          failed : Nat, recovered : Nat, published : SUBSET Members,
          readers : SUBSET Members, writer : Members \cup {"none"}]
Checks == [pc : {"free", "read", "act"}, who : Members \cup {"timer", "config"},
           resume : SUBSET Members, gen : Nat, left : SUBSET Members,
           incomplete : BOOLEAN, unsafe : BOOLEAN, first : BOOLEAN,
           total : Nat]
Flags == [initialized : SUBSET Members, ready : SUBSET Members,
          running : SUBSET Members, pending : SUBSET Members,
          queued : SUBSET Members, asked : SUBSET Members,
          placing : SUBSET Members]

NoCheck == [pc |-> "free", who |-> "timer", resume |-> {}, gen |-> 0,
            left |-> {}, incomplete |-> FALSE, unsafe |-> FALSE,
            first |-> FALSE, total |-> 0]

Fault == /\ used.faults < MaxFaults
         /\ used' = [used EXCEPT !.faults = @ + 1]
Sum(f) == MapThenSumSet(LAMBDA m : f[m], Members)
Goto(m, l) == pc' = [pc EXCEPT ![m] = l]

-----------------------------------------------------------------------------
(* GlobalPositionLimit.check_locked                                         *)

\* The engine waits for the check at these places, and goes on from there.
AwaitsCheck == {"syncCheck", "failCheck", "readyCheck"}
AfterCheck(l) == CASE l = "syncCheck" -> "resolve"
                   [] l = "failCheck" -> "fail"
                   [] OTHER -> "idle"

\* The generation is read before the first strategy is.  Without a limit the
\* check only opens the gate.
CheckBegins(who, resume, enabled) ==
    /\ check.pc = "free"
    /\ check' = [NoCheck EXCEPT !.who = who, !.resume = resume,
                                !.gen = gate.failed, !.left = Members,
                                !.pc = IF enabled THEN "read" ELSE "act"]
    /\ gate' = [gate EXCEPT !.enabled = enabled,
                            !.blocked = @ /\ enabled,
                            !.triggered = @ /\ enabled]
    /\ UNCHANGED <<pc, flag, pos, real, orders, owes>>

TimerCheck == CheckBegins("timer", {}, gate.enabled) /\ UNCHANGED used
EngineCheck(m) == /\ pc[m] \in AwaitsCheck
                  /\ CheckBegins(m, {}, gate.enabled)
                  /\ UNCHANGED used
ResumeCheck(m) == /\ m \in flag.initialized /\ m \notin flag.running
                  /\ CheckBegins("timer", {m}, gate.enabled)
                  /\ UNCHANGED used

CheckRead(m) ==
    /\ check.pc = "read" /\ m \in check.left
    /\ check' = [check EXCEPT
                   !.left = @ \ {m},
                   !.incomplete = @ \/ m \notin flag.initialized
                                    \/ m \notin flag.ready,
                   !.unsafe = @ \/ (m \in flag.initialized /\ m \notin flag.ready),
                   !.total = @ + pos[m]]
    /\ UNCHANGED <<gate, pc, flag, pos, real, orders, owes, used>>

\* faulty: takes the generation after the strategies were read
LateGeneration == gate.failed
Generation == check.gen

\* faulty: asks for a cancellation only where trading was still on
OnlyRunning(S) == S \cap flag.running
ToCancel(S) == S

Reached == check.total >= Limit

CheckStore ==
    /\ check.pc = "read" /\ check.left = {}
    /\ LET unsafe == check.unsafe \/ Reached
           first == unsafe /\ ~gate.triggered
       IN  /\ gate' = [gate EXCEPT
                         !.blocked = check.incomplete \/ Reached,
                         !.recovered = IF check.incomplete THEN @ ELSE Generation,
                         !.triggered = unsafe]
           /\ flag' = IF first
                       THEN [flag EXCEPT !.pending = @ \cup ToCancel(Members)]
                       ELSE flag
           /\ check' = [NoCheck EXCEPT !.pc = "act", !.left = Members,
                                       !.who = check.who,
                                       !.resume = check.resume,
                                       !.unsafe = unsafe, !.first = first]
    /\ UNCHANGED <<pc, pos, real, orders, owes, used>>

\* Pause the strategy and queue its cancellation, unless one is queued; asked
\* is the message on its way to the engine.
CheckAct(m) ==
    /\ check.pc = "act" /\ m \in check.left
    /\ check' = [check EXCEPT !.left = @ \ {m}]
    /\ LET stop == IF check.unsafe /\ (check.first \/ m \in flag.running)
                   THEN {m} ELSE {}
           pending == flag.pending \cup ToCancel(stop)
           queued == {m} \cap pending
       IN  flag' = [flag EXCEPT !.running = @ \ stop,
                                !.pending = pending,
                                !.asked = @ \cup (queued \ flag.queued),
                                !.queued = @ \cup queued]
    /\ UNCHANGED <<gate, pc, pos, real, orders, owes, used>>

\* The answer to a resume, which is what was stored in blocked, is used before
\* the lock is released.
CheckEnd ==
    /\ check.pc = "act" /\ check.left = {}
    /\ flag' = IF gate.blocked THEN flag
               ELSE [flag EXCEPT !.running =
                       @ \cup (check.resume \ flag.pending)]
    /\ pc' = IF check.who \in Members
             THEN [pc EXCEPT ![check.who] = AfterCheck(@)] ELSE pc
    /\ check' = NoCheck
    /\ UNCHANGED <<gate, pos, real, orders, owes, used>>

-----------------------------------------------------------------------------
(* try_exchange_submission, submit_exchange_order                           *)

\* faulty: trusts the last check while a fill is still published
IgnoresPublished ==
    gate.enabled /\ (gate.blocked \/ gate.failed # gate.recovered)
BlocksSubmission ==
    /\ gate.enabled
    /\ \/ gate.blocked
       \/ gate.published # {}
       \/ gate.failed # gate.recovered

\* A waiting writer already takes the permits a reader would need.
BarrierReadable ==
    gate.writer = "none" /\ \A m \in Members : pc[m] # "acquire"

Submit(m) ==
    /\ pc[m] = "idle" /\ m \in flag.running
    /\ m \notin flag.pending
    /\ check.who # "config"
    /\ gate.enabled => BarrierReadable
    /\ ~BlocksSubmission
    /\ flag' = [flag EXCEPT !.placing = @ \cup {m}]
    /\ gate' = IF gate.enabled
               THEN [gate EXCEPT !.readers = @ \cup {m}] ELSE gate
    /\ Goto(m, "posting")
    /\ UNCHANGED <<check, pos, real, orders, owes, used>>

\* The order rests; the guard is completed.
PostResting(m) ==
    /\ pc[m] = "posting"
    /\ orders' = orders \cup {m}
    /\ gate' = [gate EXCEPT !.readers = @ \ {m}]
    /\ flag' = [flag EXCEPT !.placing = @ \ {m}]
    /\ Goto(m, "idle")
    /\ UNCHANGED <<check, pos, real, owes, used>>

\* One unit is opened or closed on the exchange.
Fill(m) ==
    /\ real' \in {[real EXCEPT ![m] = n] : n \in {real[m] + 1, real[m] - 1} \cap Nat}
    /\ Sum(real') <= MaxUnits

\* The response shows a fill, or its outcome is unknown: it is published
\* before the guard is completed.
PostUncertain(m) ==
    /\ pc[m] = "posting"
    /\ UNCHANGED real \/ Fill(m)
    /\ owes' = owes \cup {m}
    /\ gate' = [gate EXCEPT !.published = @ \cup {m}, !.readers = @ \ {m}]
    /\ Goto(m, "acquire")
    /\ UNCHANGED <<check, flag, pos, orders, used>>

\* The engine task is aborted inside the request: ExchangeSubmissionGuard is
\* dropped without having been completed.
PostAborted(m) ==
    /\ pc[m] = "posting"
    /\ Fault
    /\ UNCHANGED real \/ Fill(m)
    /\ owes' = owes \cup {m}
    /\ orders' \in {orders, orders \cup {m}}
    /\ flag' = [flag EXCEPT !.ready = @ \ {m}, !.placing = @ \ {m}]
    /\ gate' = [gate EXCEPT !.failed = @ + 1, !.readers = @ \ {m}]
    /\ Goto(m, "dead")
    /\ UNCHANGED <<check, pos>>

-----------------------------------------------------------------------------
(* PendingFillReconciliation: acquire, resolve, drop                        *)

\* faulty: does not wait for the requests that are already on their way
AcquiresAtOnce(m) == gate.writer = "none"
WriterMayEnter(m) == gate.writer = "none" /\ gate.readers = {}

Acquire(m) ==
    /\ pc[m] = "acquire"
    /\ gate.enabled => WriterMayEnter(m)
    /\ gate' = IF gate.enabled THEN [gate EXCEPT !.writer = m] ELSE gate
    /\ Goto(m, "sync")
    /\ UNCHANGED <<check, flag, pos, real, orders, owes, used>>

SyncOk(m) ==
    /\ pc[m] = "sync"
    /\ pos' = [pos EXCEPT ![m] = real[m]]
    /\ Goto(m, "syncCheck")
    /\ UNCHANGED <<gate, check, flag, real, orders, owes, used>>

SyncFails(m) ==
    /\ pc[m] = "sync"
    /\ Fault
    /\ flag' = [flag EXCEPT !.ready = @ \ {m}]
    /\ Goto(m, "failCheck")
    /\ UNCHANGED <<gate, check, pos, real, orders, owes>>

\* faulty: the barrier stays locked when the fill is withdrawn
KeepsBarrier(m) == [gate EXCEPT !.published = @ \ {m}]
Leave(m) == [gate EXCEPT !.published = @ \ {m},
                         !.writer = IF @ = m THEN "none" ELSE @]

Resolve(m) ==
    /\ pc[m] = "resolve"
    /\ gate' = Leave(m)
    /\ owes' = owes \ {m}
    /\ flag' = [flag EXCEPT !.placing = @ \ {m}]
    /\ Goto(m, "idle")
    /\ UNCHANGED <<check, pos, real, orders, used>>

\* The position is known and the total checked, but the durable commit of the
\* fill fails: the guard is dropped unresolved.
CommitFails(m) ==
    /\ pc[m] = "resolve"
    /\ Fault
    /\ Goto(m, "fail")
    /\ UNCHANGED <<gate, check, flag, pos, real, orders, owes>>

\* Dropped unresolved: the generation moves before the fill is withdrawn.
Fail(m) ==
    /\ pc[m] = "fail"
    /\ flag' = [flag EXCEPT !.ready = @ \ {m}]
    /\ gate' = [gate EXCEPT !.failed = @ + 1]
    /\ Goto(m, "withdraw")
    /\ UNCHANGED <<check, pos, real, orders, owes, used>>

Withdraw(m) ==
    /\ pc[m] = "withdraw"
    /\ gate' = Leave(m)
    /\ flag' = [flag EXCEPT !.placing = @ \ {m}]
    /\ Goto(m, "idle")
    /\ UNCHANGED <<check, pos, real, orders, owes, used>>

-----------------------------------------------------------------------------
(* The engine between submissions: initialization, the periodic sync cycle  *)
(* and the cancellation the gate asked for.                                 *)

Boot(m) ==
    /\ pc[m] = "boot"
    /\ \E ready \in BOOLEAN :
         /\ IF ready THEN UNCHANGED used ELSE Fault
         /\ flag' = [flag EXCEPT !.initialized = @ \cup {m},
                                 !.ready = IF ready THEN @ \cup {m} ELSE @ \ {m}]
    /\ Goto(m, "readyCheck")
    /\ UNCHANGED <<gate, check, pos, real, orders, owes>>

\* A resting order is executed; nobody knows until the next snapshot.
ExchangeFill(m) ==
    /\ m \in orders
    /\ Fill(m)
    /\ orders' \in {orders, orders \ {m}}
    /\ UNCHANGED <<gate, check, pc, flag, pos, owes, used>>

\* sync_live_orders: the snapshot shows a fill, which is published ...
SnapshotFill(m) ==
    /\ pc[m] = "idle"
    /\ m \in owes \/ real[m] # pos[m]
    /\ owes' = owes \cup {m}
    /\ gate' = [gate EXCEPT !.published = @ \cup {m}]
    /\ Goto(m, "acquire")
    /\ UNCHANGED <<check, flag, pos, real, orders, used>>

\* ... or nothing to account for, and the account is synced as well ...
\* faulty: reports ready whatever the order snapshot showed
SyncsAnyway(m) == TRUE
SnapshotIsClean(m) == m \notin owes

SnapshotClean(m) ==
    /\ pc[m] = "idle"
    /\ SnapshotIsClean(m)
    /\ pos' = [pos EXCEPT ![m] = real[m]]
    /\ flag' = [flag EXCEPT !.ready = @ \cup {m}]
    /\ Goto(m, "readyCheck")
    /\ UNCHANGED <<gate, check, real, orders, owes, used>>

\* ... or one of the requests fails.
SnapshotFails(m) ==
    /\ pc[m] = "idle"
    /\ Fault
    /\ flag' = [flag EXCEPT !.ready = @ \ {m}]
    /\ Goto(m, "readyCheck")
    /\ UNCHANGED <<gate, check, pos, real, orders, owes>>

\* pause_trading for a reason of the strategy's own; its orders are cancelled
\* later, or not at all when that fails.
Pause(m) ==
    /\ m \in flag.running
    /\ flag' = [flag EXCEPT !.running = @ \ {m}]
    /\ UNCHANGED <<gate, check, pc, pos, real, orders, owes, used>>

CancelStart(m) ==
    /\ pc[m] = "idle" /\ m \in flag.asked
    /\ flag' = [flag EXCEPT !.asked = @ \ {m}]
    /\ Goto(m, "cancelling")
    /\ UNCHANGED <<gate, check, pos, real, orders, owes, used>>

\* GlobalRiskCancel: pending is cleared by a complete cancellation only, and
\* queued after it.
CancelEnds(m) ==
    /\ pc[m] = "cancelling"
    /\ \/ /\ orders' = orders \ {m}
          /\ flag' = [flag EXCEPT !.pending = @ \ {m}]
          /\ UNCHANGED used
       \/ Fault /\ UNCHANGED <<orders, flag>>
    /\ Goto(m, "cancelled")
    /\ UNCHANGED <<gate, check, pos, real, owes>>

\* faulty: a failed cancellation leaves the request marked as queued
KeepsQueued(m) == flag.queued \ ({m} \ flag.pending)
ClearsQueued(m) == flag.queued \ {m}

CancelDone(m) ==
    /\ pc[m] = "cancelled"
    /\ flag' = [flag EXCEPT !.queued = ClearsQueued(m)]
    /\ Goto(m, "idle")
    /\ UNCHANGED <<gate, check, pos, real, orders, owes, used>>

-----------------------------------------------------------------------------
(* apply_global_config: the writers of every order_submission_lock keep     *)
(* placements out until the new switch was committed and checked under the  *)
(* global lock.  A reconciliation of a snapshot does not hold that lock.    *)

\* faulty: installs the switch without draining the placements
NobodyWaited == TRUE
PlacementsDrained == \A m \in Members : m \notin flag.placing

CommitConfig ==
    /\ used.toggles < MaxToggles
    /\ used' = [used EXCEPT !.toggles = @ + 1]
    /\ PlacementsDrained
    /\ CheckBegins("config", {}, ~gate.enabled)

-----------------------------------------------------------------------------
Init ==
    /\ \E enabled \in Starts :
         gate = [enabled |-> enabled, blocked |-> FALSE, triggered |-> FALSE,
                 failed |-> 0, recovered |-> 0, published |-> {},
                 readers |-> {}, writer |-> "none"]
    /\ check = NoCheck
    /\ pc = [m \in Members |-> "boot"]
    /\ \E running \in SUBSET Members :
         flag = [initialized |-> {}, ready |-> {}, running |-> running,
                 pending |-> {}, queued |-> {}, asked |-> {}, placing |-> {}]
    /\ pos = [m \in Members |-> 0]
    /\ real = [m \in Members |-> 0]
    /\ orders = {}
    /\ owes = {}
    /\ used = [faults |-> 0, toggles |-> 0]

EngineStep(m) ==
    \/ Boot(m)
    \/ PostResting(m) \/ PostUncertain(m)
    \/ Acquire(m) \/ SyncOk(m) \/ Resolve(m) \/ Fail(m) \/ Withdraw(m)
    \/ CancelStart(m) \/ CancelEnds(m) \/ CancelDone(m)

CheckStep == (\E m \in Members : CheckRead(m) \/ CheckAct(m))
             \/ CheckStore \/ CheckEnd

Next ==
    \/ TimerCheck \/ CheckStep \/ CommitConfig
    \/ \E m \in Members :
         \/ EngineCheck(m) \/ ResumeCheck(m)
         \/ EngineStep(m)
         \/ Submit(m) \/ PostAborted(m) \/ SyncFails(m) \/ CommitFails(m)
         \/ ExchangeFill(m) \/ Pause(m)
         \/ SnapshotFill(m) \/ SnapshotClean(m) \/ SnapshotFails(m)

Spec == Init /\ [][Next]_vars

\* Tokio serves the waiters of a lock in turn, and the biased select! of the
\* engine takes a queued cancellation first; a request and a database call
\* always return, within the bound on faults successfully.
Fairness ==
    /\ WF_vars(CheckStep) /\ WF_vars(TimerCheck)
    /\ \A m \in Members : /\ WF_vars(EngineStep(m))
                           /\ SF_vars(EngineCheck(m))
                           /\ SF_vars(Acquire(m))
                           /\ SF_vars(CancelStart(m))

FairSpec == Spec /\ Fairness

-----------------------------------------------------------------------------
Reconciling == {"acquire", "sync", "syncCheck", "resolve", "failCheck", "fail",
                "withdraw"}

Typed ==
    /\ gate \in Gates
    /\ check \in Checks
    /\ pc \in [Members -> EnginePcs]
    /\ flag \in Flags
    /\ pos \in [Members -> Nat] /\ real \in [Members -> Nat]
    /\ orders \subseteq Members /\ owes \subseteq Members
    /\ used \in [faults : 0 .. MaxFaults, toggles : 0 .. MaxToggles]

Holders ==
    /\ gate.recovered <= gate.failed /\ check.gen <= gate.failed
    /\ \A m \in gate.readers : pc[m] = "posting"
    /\ gate.published = {m \in Members : pc[m] \in Reconciling}
    /\ gate.writer # "none" =>
           gate.writer \in gate.published /\ pc[gate.writer] # "acquire"
    /\ check.who \in Members => pc[check.who] \in AwaitsCheck

(* Types, and who may hold what: a permit of the barrier belongs to a         *)
(* request, the barrier and a published fill to a reconciliation, and a check *)
(* run for an engine has that engine waiting for it.                          *)
TypeOK == Typed /\ Holders

(* Whoever reconciles behind the barrier is alone: no request of any other  *)
(* strategy is between its checks and its answer, so the position it syncs  *)
(* and the total that is checked are not overtaken (submission_barrier).    *)
NoPostDuringReconciliation ==
    gate.enabled /\ gate.writer # "none" =>
        \A m \in Members : pc[m] # "posting"

(* As long as any strategy has a fill that is not accounted for, and however *)
(* often reconciling it failed, no strategy may submit: the failure          *)
(* generation closes the gate before the published fill is withdrawn, and no *)
(* check that began earlier, or saw the strategy unready, opens it.          *)
UnreconciledFillCloses ==
    gate.enabled /\ owes # {} => BlocksSubmission

(* A request is sent only when every fill is accounted for and the positions *)
(* are below the limit, although a check reads them one by one and the       *)
(* request is sent long after it (try_exchange_submission).  A position that *)
(* a periodic sync has just read counts from the check of that sync on: the  *)
(* code does not close the gate before it (sync_position).                   *)
Checked(m) == IF pc[m] = "readyCheck" THEN 0 ELSE pos[m]

SubmitsWithinLimit ==
    \A m \in Members :
       gate.enabled /\ pc[m] # "posting" /\ pc'[m] = "posting"
          => owes = {} /\ Sum([n \in Members |-> Checked(n)]) < Limit

NoSubmissionOverLimit == [][SubmitsWithinLimit]_vars

(* Once the gate has tripped and the check has ended, no strategy trades, and *)
(* one without a cancellation to do has no order and no request on its way    *)
(* (check_locked, GlobalRiskCancel).                                          *)
TrippedMeansStopped ==
    gate.triggered /\ check.pc = "free" =>
        \A m \in Members :
            /\ m \notin flag.running
            /\ m \in flag.pending \/ (m \notin orders /\ pc[m] # "posting")

(* The cancellation the gate asked for is done at last, however often it      *)
(* failed, unless the engine task was aborted (queue_global_cancel).          *)
CancelIsRetried ==
    \A m \in Members :
        m \in flag.pending ~> (m \notin flag.pending \/ pc[m] = "dead")
=============================================================================
