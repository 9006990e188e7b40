-------------------------- MODULE RuntimeMembership --------------------------
(***************************************************************************)
(* Which strategies run: start-up, adding and removing pairs, the global    *)
(* configuration, and the end of the process (runtime.rs, main.rs).         *)
(*                                                                          *)
(* A member is one life of a strategy: a PairTask with its AppState.  A     *)
(* removal that fails replaces the member by a new one for the same symbol. *)
(* Four tasks change the members:                                           *)
(*   main     start-up, the signal, and the shutdown of all members         *)
(*   cmd      the command loop TradingRuntime::run, one command at a time   *)
(*   glob     an update of the global configuration                         *)
(*   stop[m]  the shutdown of one member by whoever owns it                 *)
(* Each step is the code between two awaits.  What a member does with its   *)
(* orders is in OrderLifecycle; here it has none, open orders or a position.*)
(***************************************************************************)
EXTENDS Naturals, FiniteSets, SequencesExt

CONSTANTS
    Symbols,      \* trading pairs
    Initial,      \* the pairs saved when the process starts
    Kinds,        \* which of AllKinds may be asked for
    MaxMembers,   \* bound: members over the life of the process
    MaxRequests,  \* bound: commands, updates, edits and commits begun
    MaxFaults,    \* bound: failures of writes, requests and engines
    MaxEvents,    \* bound: requests and failures together
    Contended     \* whether a reader may meet the writer of published

ASSUME BoundsAssumption ==
    /\ Initial \subseteq Symbols /\ Initial # {}
    /\ Kinds \subseteq {"commit", "command", "global", "edit"}
    /\ {MaxMembers, MaxRequests, MaxFaults, MaxEvents} \subseteq Nat
    /\ Contended \in BOOLEAN

AllKinds == {"commit", "command", "global", "edit"}
Members == 1..MaxMembers
Commands == 1..MaxRequests
Versions == 0..MaxRequests
NoSymbol == "none"

Lives == {"absent", "init", "live", "ended"}
Books == {"none", "orders", "position"}
Owners == {"none", "early", "removal", "final"}
StopPcs == {"idle", "pause", "wait", "acked", "refused", "done"}

VARIABLES
    saved,      \* the database: configured pairs, version of the global part
    member,     \* each member
    book,       \* the exchange: what each symbol has there
    inbox,      \* the control channel of each engine
    pairs,      \* TradingRuntime.pairs, in order
    published,  \* RuntimeHandle.states
    gate,       \* GlobalPositionLimit: ready members, shutdown, version
    removing,   \* RuntimeHandle.active_removal
    lock,       \* holder of membership_lock
    tradeLock,  \* member whose commit holds trade_commit_lock, 0 when free
    reply,      \* what became of each command
    queue,      \* the mpsc channel of commands
    cmd,        \* the command loop
    glob,       \* the update of the global configuration
    edit,       \* the update of one pair's configuration
    writers,    \* members whose order_submission_lock the update holds
    stop,       \* the shutdown of each member
    main,       \* main.rs
    used        \* requests and failures so far; a rollback that failed

rest == <<saved, pairs, published, gate, removing, lock, tradeLock, reply,
          queue, cmd, glob, edit, writers, main>>
vars == <<rest, member, book, inbox, stop, used>>

NoMember == [sym |-> NoSymbol, life |-> "absent", joined |-> FALSE,
             joins |-> 0, retired |-> FALSE, failed |-> FALSE,
             down |-> FALSE, version |-> 0, running |-> FALSE,
             sending |-> FALSE]
IdleCmd == [pc |-> "idle", id |-> 0, op |-> "none", sym |-> NoSymbol, m |-> 0,
            queued |-> FALSE]
IdleGlob == [pc |-> "idle", old |-> 0, new |-> 0, left |-> <<>>,
             tried |-> <<>>, broken |-> FALSE]
IdleEdit == [pc |-> "idle", m |-> 0, version |-> 0]
IdleStop == [by |-> "none", pc |-> "idle"]

Set(m, field, value) == [member EXCEPT ![m] = [@ EXCEPT ![field] = value]]
InPairs == ToSet(pairs)
Active(m) == ~member[m].retired
Fresh == CHOOSE m \in Members :
             /\ member[m].life = "absent"
             /\ \A n \in 1..(m - 1) : member[n].life # "absent"
CanCreate == \E m \in Members : member[m].life = "absent"
Ended(m) == member[m].life = "ended"
ShuttingDown(m) == member[m].down \/ gate.stopped
MoreEvents == used.requests + used.faults < MaxEvents
Request(kind) ==
    /\ kind \in Kinds /\ used.requests < MaxRequests /\ MoreEvents
    /\ used' = [used EXCEPT !.requests = @ + 1]
Fault == /\ used.faults < MaxFaults /\ MoreEvents
         /\ used' = [used EXCEPT !.faults = @ + 1]

\* A new member: its guard is armed and its engine spawned.  An engine that
\* finds the stop signal set goes straight to its command loop.
NewMember(sym, version, running) ==
    [NoMember EXCEPT !.sym = sym, !.version = version, !.running = running,
                     !.life = "init"]

Init ==
    /\ saved = [pairs |-> Initial, version |-> 0]
    /\ member = [m \in Members |-> NoMember]
    /\ book = [s \in Symbols |-> "none"]
    /\ inbox = [m \in Members |-> <<>>]
    /\ pairs = <<>> /\ published = {}
    /\ gate = [ready |-> FALSE, stopped |-> FALSE, version |-> 0]
    /\ removing = NoSymbol /\ lock = "none" /\ tradeLock = 0
    /\ reply = [c \in Commands |-> "unsent"] /\ queue = <<>>
    /\ cmd = IdleCmd /\ glob = IdleGlob /\ edit = IdleEdit /\ writers = {}
    /\ stop = [m \in Members |-> IdleStop]
    /\ main = [pc |-> "start", signal |-> FALSE]
    /\ used = [faults |-> 0, requests |-> 0, mixed |-> FALSE]

-----------------------------------------------------------------------------
(* Engines and what reaches them.                                           *)

\* The engine has initialized, or was interrupted: then it closes its gate.
EngineUp(m) ==
    /\ member[m].life = "init"
    /\ member' = [member EXCEPT ![m].life = "live",
                                ![m].down = @ \/ gate.stopped]
    /\ UNCHANGED <<book, inbox, stop, used>> /\ UNCHANGED rest

\* The end of an engine that was not asked: its channel closes with what is in
\* it, and an order on its way arrives or does not.
Killed(m) ==
    /\ member' = [member EXCEPT ![m].life = "ended", ![m].sending = FALSE]
    /\ inbox' = [inbox EXCEPT ![m] = <<>>]
    /\ \E arrived \in BOOLEAN :
           book' = [book EXCEPT ![member[m].sym] =
                        IF member[m].sending /\ arrived THEN "orders" ELSE @]

EngineDies(m) ==
    /\ member[m].life \in {"init", "live"}
    /\ Fault /\ Killed(m)
    /\ UNCHANGED stop /\ UNCHANGED rest

\* One order leaves a running engine.  The submission lock is tried, never
\* waited for, so an engine cannot block an update that waits for its reply.
SubmitsAnyway(m) == TRUE
MaySubmit(m) == m \notin writers
Submit(m) ==
    /\ member[m].life = "live" /\ member[m].running /\ ~ShuttingDown(m)
    /\ MaySubmit(m) /\ gate.ready /\ book[member[m].sym] = "none"
    /\ ~member[m].sending
    /\ member' = Set(m, "sending", TRUE)
    /\ UNCHANGED <<book, inbox, stop, used>> /\ UNCHANGED rest

Posted(m) ==
    /\ member[m].sending
    /\ member' = Set(m, "sending", FALSE)
    /\ book' = [book EXCEPT ![member[m].sym] = "orders"]
    /\ UNCHANGED <<inbox, stop, used>> /\ UNCHANGED rest

\* The exchange fills the order, or the paused engine has it cancelled.
OrderEnds(m) ==
    /\ member[m].sym # NoSymbol /\ book[member[m].sym] = "orders"
    /\ \/ book' = [book EXCEPT ![member[m].sym] = "position"]
       \/ /\ member[m].life = "live" /\ ~member[m].running
          /\ book' = [book EXCEPT ![member[m].sym] = "none"]
    /\ UNCHANGED <<member, inbox, stop, used>> /\ UNCHANGED rest

\* The user closes a position, pauses a member, or asks it to resume.  A
\* request passes the control lock, which a removal holds until it retires
\* the member, and is refused afterwards.
UserActs(m) ==
    /\ main.pc = "run" /\ m \in published /\ Active(m)
    /\ \/ /\ book[member[m].sym] = "position"
          /\ book' = [book EXCEPT ![member[m].sym] = "none"]
          /\ UNCHANGED <<member, inbox>>
       \/ /\ member[m].running
          /\ member' = Set(m, "running", FALSE)
          /\ UNCHANGED <<book, inbox>>
       \/ /\ ~member[m].running /\ ~Ended(m) /\ inbox[m] = <<>>
          /\ cmd.pc # "claim"
          /\ inbox' = [inbox EXCEPT ![m] = Append(@, "resume")]
          /\ UNCHANGED <<member, book>>
    /\ UNCHANGED <<stop, used>> /\ UNCHANGED rest

\* A verified profit is committed: admitted under the shared lock unless the
\* member has retired, and then finished whatever becomes of the engine.
CommitBegins(m) ==
    /\ member[m].life = "live" /\ Active(m) /\ tradeLock = 0
    /\ tradeLock' = m /\ Request("commit")
    /\ UNCHANGED <<saved, member, book, inbox, pairs, published, gate, removing,
                   lock, reply, queue, cmd, glob, edit, writers, stop, main>>

CommitEnds ==
    /\ tradeLock # 0 /\ tradeLock' = 0
    /\ UNCHANGED <<saved, member, book, inbox, pairs, published, gate, removing,
                   lock, reply, queue, cmd, glob, edit, writers, stop, main,
                   used>>

Serving(m, letter) ==
    /\ member[m].life = "live" /\ ~member[m].sending
    /\ inbox[m] # <<>> /\ Head(inbox[m]) = letter

ServeResume(m) ==
    /\ Serving(m, "resume")
    /\ member' = Set(m, "running", ~ShuttingDown(m))
    /\ inbox' = [inbox EXCEPT ![m] = Tail(@)]
    /\ UNCHANGED <<book, stop, used>> /\ UNCHANGED rest

\* The engine cancels what it has, answers and leaves its loop either way.
ServeShutdown(m) ==
    /\ Serving(m, "shutdown")
    /\ inbox' = [inbox EXCEPT ![m] = <<>>]
    /\ member' = [member EXCEPT ![m].life = "ended", ![m].running = FALSE,
                                ![m].down = TRUE]
    /\ \E cancelled \in BOOLEAN :
        /\ \/ cancelled /\ UNCHANGED used
           \/ ~cancelled /\ Fault
        /\ stop' = [stop EXCEPT ![m].pc = IF @ # "wait" THEN @
                        ELSE IF cancelled THEN "acked" ELSE "refused"]
        /\ book' = [book EXCEPT ![member[m].sym] =
                        IF cancelled /\ @ = "orders" THEN "none" ELSE @]
    /\ UNCHANGED rest

-----------------------------------------------------------------------------
(* The shutdown of one member, by its owner (lifecycle.rs).                 *)

\* It closes the gate of the member first, whoever asks.
Began(by) == [by |-> by, pc |-> "pause"]

StopPause(m) ==
    /\ stop[m].pc = "pause"
    /\ IF Ended(m)
       THEN /\ stop' = [stop EXCEPT ![m].pc = "refused"]
            /\ UNCHANGED inbox
       ELSE /\ stop' = [stop EXCEPT ![m].pc = "wait"]
            /\ inbox' = [inbox EXCEPT ![m] = Append(@, "shutdown")]
    /\ member' = Set(m, "running", FALSE)
    /\ UNCHANGED <<book, used>> /\ UNCHANGED rest

\* The engine has gone without an answer, or its thirty seconds are over.
StopRefused(m) ==
    /\ stop[m].pc \in {"pause", "wait"}
    /\ \/ stop[m].pc = "wait" /\ Ended(m) /\ UNCHANGED used
       \/ Fault
    /\ stop' = [stop EXCEPT ![m].pc = "refused"]
    /\ UNCHANGED <<member, book, inbox>> /\ UNCHANGED rest

\* An early stop that failed aborts the engine and leaves the join to main.
EarlyAbort(m) ==
    /\ stop[m] = [by |-> "early", pc |-> "refused"] /\ ~Ended(m)
    /\ Killed(m)
    /\ UNCHANGED <<stop, used>> /\ UNCHANGED rest

\* The owner joins the engine: one that answered ends by itself, one that
\* refused is aborted first.
Joinable(m) == stop[m].pc = "refused" \/ (stop[m].pc = "acked" /\ Ended(m))
Joined(m) ==
    \E arrived \in BOOLEAN :
       /\ member' = [member EXCEPT ![m].life = "ended", ![m].sending = FALSE,
                                   ![m].running = FALSE, ![m].joins = @ + 1]
       /\ inbox' = [inbox EXCEPT ![m] = <<>>]
       /\ book' = [book EXCEPT ![member[m].sym] =
                       IF member[m].sending /\ arrived THEN "orders" ELSE @]

-----------------------------------------------------------------------------
(* Adding and removing pairs: the command loop, which runs one at a time.   *)

Ask(c, op, s) ==
    /\ main.pc \in {"run", "early", "drain", "shutdown"}
    /\ Request("command") /\ c = used'.requests
    /\ reply' = [reply EXCEPT ![c] = "waiting"]
    /\ queue' = Append(queue, [id |-> c, op |-> op, sym |-> s])
    /\ UNCHANGED <<saved, member, book, inbox, pairs, published, gate, removing,
                   lock, tradeLock, cmd, glob, edit, writers, stop, main>>

Take ==
    /\ main.pc = "run" /\ cmd.pc = "idle" /\ queue # <<>>
    /\ ~gate.stopped
    /\ \A m \in InPairs : Ended(m) => member[m].failed
    /\ cmd' = [IdleCmd EXCEPT !.pc = Head(queue).op, !.id = Head(queue).id,
                              !.sym = Head(queue).sym]
    /\ queue' = Tail(queue)
    /\ UNCHANGED <<saved, member, book, inbox, pairs, published, gate, removing,
                   lock, tradeLock, reply, glob, edit, writers, stop, main,
                   used>>

\* The command ends with its answer; its locks and its claim are dropped.
Finish(outcome) ==
    /\ reply' = [reply EXCEPT ![cmd.id] = outcome]
    /\ cmd' = IdleCmd /\ lock' = "none" /\ removing' = NoSymbol
Goto(pc) == cmd' = [cmd EXCEPT !.pc = pc] /\ UNCHANGED <<reply, removing>>

Background == <<tradeLock, queue, glob, edit, writers, main>>

\* The write lock of published is wanted while a reader has it: the loop takes
\* its place in the queue of the lock, and the lock is granted to it, or kept
\* for it, whether or not the loop is polled again.
PublishWaits ==
    /\ Contended /\ ~cmd.queued
    /\ cmd.pc \in {"addPublish", "removed", "replaced"}
    /\ cmd' = [cmd EXCEPT !.queued = TRUE]
    /\ UNCHANGED <<saved, member, book, inbox, pairs, published, gate, removing,
                   lock, reply, stop, used>>
    /\ UNCHANGED Background

\* main polls the loop in its select and when it drains the command, and not
\* while it begins the early stops.
Polled == main.pc # "early"
MemberOf(s) == CHOOSE m \in InPairs : member[m].sym = s
HasMember(s) == \E m \in InPairs : member[m].sym = s

\* The saved global configuration is taken under the membership lock; the
\* exchange is asked about the symbol.
AddAdmit ==
    /\ cmd.pc = "add" /\ lock = "none"
    /\ \/ /\ HasMember(cmd.sym) /\ Finish("failed") /\ UNCHANGED used
       \/ /\ ~HasMember(cmd.sym)
          /\ \/ Fault /\ Finish("failed")
             \/ lock' = "command" /\ Goto("addSave") /\ UNCHANGED used
    /\ UNCHANGED <<saved, member, book, inbox, pairs, published, gate, stop>>
    /\ UNCHANGED Background

\* The pair is saved, paused and with its guard armed, in one transaction.
AddSave ==
    /\ cmd.pc = "addSave"
    /\ \/ /\ \/ cmd.sym \in saved.pairs /\ UNCHANGED used
             \/ Fault
          /\ Finish("failed")
          /\ UNCHANGED <<saved, gate>>
       \/ /\ cmd.sym \notin saved.pairs
          /\ saved' = [saved EXCEPT !.pairs = @ \cup {cmd.sym}]
          /\ gate' = [gate EXCEPT !.ready = FALSE]
          /\ Goto("addPrepare") /\ UNCHANGED <<lock, used>>
    /\ UNCHANGED <<member, book, inbox, pairs, published, stop>>
    /\ UNCHANGED Background

AddPrepare ==
    /\ cmd.pc = "addPrepare" /\ CanCreate
    /\ \/ /\ Fault
          /\ gate' = [gate EXCEPT !.ready = TRUE]
          /\ Finish("failed") /\ UNCHANGED <<member, pairs>>
       \/ /\ member' = [member EXCEPT ![Fresh] =
                             NewMember(cmd.sym, saved.version, FALSE)]
          /\ pairs' = Append(pairs, Fresh)
          /\ Goto("addPublish") /\ UNCHANGED <<gate, lock, used>>
    /\ UNCHANGED <<saved, book, inbox, published, stop>>
    /\ UNCHANGED Background

AddPublish ==
    /\ cmd.pc = "addPublish"
    /\ published' = InPairs
    /\ gate' = [gate EXCEPT !.ready = TRUE]
    /\ Finish("done")
    /\ UNCHANGED <<saved, member, book, inbox, pairs, stop, used>>
    /\ UNCHANGED Background

RemoveAdmit ==
    /\ cmd.pc = "remove" /\ lock = "none"
    /\ IF /\ Len(pairs) > 1 /\ HasMember(cmd.sym)
          /\ ~member[MemberOf(cmd.sym)].failed
          /\ ~member[MemberOf(cmd.sym)].joined
       THEN /\ cmd' = [cmd EXCEPT !.pc = "check", !.m = MemberOf(cmd.sym)]
            /\ lock' = "command" /\ UNCHANGED <<reply, removing>>
       ELSE Finish("failed")
    /\ UNCHANGED <<saved, member, book, inbox, pairs, published, gate, stop,
                   used>>
    /\ UNCHANGED Background

\* Under the control lock: the member must be paused and without orders.
RemoveCheck ==
    /\ cmd.pc = "check"
    /\ IF member[cmd.m].running \/ book[cmd.sym] = "orders"
       THEN Finish("failed")
       ELSE Goto("claim") /\ UNCHANGED lock
    /\ UNCHANGED <<saved, member, book, inbox, pairs, published, gate, stop,
                   used>>
    /\ UNCHANGED Background

\* The claim and the shutdown exclude each other; then the member retires.
RemoveClaim ==
    /\ cmd.pc = "claim"
    /\ IF gate.stopped
       THEN Finish("failed") /\ UNCHANGED <<member, stop>>
       ELSE /\ removing' = cmd.sym
            /\ cmd' = [cmd EXCEPT !.pc = "stopping"]
            /\ member' = [member EXCEPT ![cmd.m].retired = TRUE,
                                        ![cmd.m].down = TRUE]
            /\ stop' = [stop EXCEPT ![cmd.m] = Began("removal")]
            /\ UNCHANGED <<reply, lock>>
    /\ UNCHANGED <<saved, book, inbox, pairs, published, gate, used>>
    /\ UNCHANGED Background

RemoveStopped ==
    /\ cmd.pc = "stopping" /\ Joinable(cmd.m) /\ Joined(cmd.m)
    /\ cmd' = [cmd EXCEPT !.pc = "drain", !.op = stop[cmd.m].pc]
    /\ stop' = [stop EXCEPT ![cmd.m].pc = "done"]
    /\ UNCHANGED <<saved, pairs, published, gate, removing, lock, reply, used>>
    /\ UNCHANGED Background

\* Commits the retired member was admitted for are waited for.
DrainsNothing == TRUE
Drained == tradeLock = 0
RemoveDrain ==
    /\ cmd.pc = "drain" /\ Drained
    /\ Goto(IF cmd.op = "acked" THEN "position" ELSE "restore")
    /\ UNCHANGED <<saved, member, book, inbox, pairs, published, gate, lock,
                   stop, used>>
    /\ UNCHANGED Background

TrustsPause == TRUE
IsFlat == book[cmd.sym] # "position"
RemovePosition ==
    /\ cmd.pc = "position"
    /\ \/ /\ Goto(IF IsFlat THEN "save" ELSE "restore")
          /\ UNCHANGED used
       \/ Fault /\ Goto("restore")
    /\ UNCHANGED <<saved, member, book, inbox, pairs, published, gate, lock,
                   stop>>
    /\ UNCHANGED Background

RemoveSave ==
    /\ cmd.pc = "save"
    /\ \/ /\ \/ cmd.sym \notin saved.pairs \/ Cardinality(saved.pairs) = 1
          /\ Goto("restore") /\ UNCHANGED <<saved, pairs, used>>
       \/ /\ Fault /\ Goto("restore") /\ UNCHANGED <<saved, pairs>>
       \/ /\ cmd.sym \in saved.pairs /\ Cardinality(saved.pairs) > 1
          /\ saved' = [saved EXCEPT !.pairs = @ \ {cmd.sym}]
          /\ pairs' = SelectSeq(pairs, LAMBDA m : m # cmd.m)
          /\ Goto("removed") /\ UNCHANGED used
    /\ UNCHANGED <<member, book, inbox, published, gate, lock, stop>>
    /\ UNCHANGED Background

RemoveUnpublish ==
    /\ cmd.pc = "removed"
    /\ published' = InPairs /\ Finish("done")
    /\ UNCHANGED <<saved, member, book, inbox, pairs, gate, stop, used>>
    /\ UNCHANGED Background

\* A removal that failed puts a paused replacement in the member's place, or,
\* when that fails too, keeps the retired one for the risk limit only.
RemoveRestore ==
    /\ cmd.pc = "restore" /\ CanCreate
    /\ \/ /\ member' = [member EXCEPT ![Fresh] =
                  NewMember(cmd.sym, member[cmd.m].version, FALSE)]
          /\ pairs' = [i \in DOMAIN pairs |->
                          IF pairs[i] = cmd.m THEN Fresh ELSE pairs[i]]
          /\ Goto("replaced") /\ UNCHANGED <<lock, used>>
       \/ /\ Fault
          /\ member' = Set(cmd.m, "failed", TRUE)
          /\ Finish("failed") /\ UNCHANGED pairs
    /\ UNCHANGED <<saved, book, inbox, published, gate, stop>>
    /\ UNCHANGED Background

RemoveReplaced ==
    /\ cmd.pc = "replaced"
    /\ published' = InPairs /\ Finish("failed")
    /\ UNCHANGED <<saved, member, book, inbox, pairs, gate, stop, used>>
    /\ UNCHANGED Background

-----------------------------------------------------------------------------
(* The global configuration, sent to one engine after the other.            *)

Untouched == <<saved, pairs, published, gate, removing, tradeLock, reply,
               queue, cmd, main>>
Reached == SelectSeq(pairs, LAMBDA m : Active(m))

GlobAsk ==
    /\ main.pc = "run" /\ glob.pc = "idle" /\ Request("global")
    /\ glob' = [IdleGlob EXCEPT !.pc = "lock", !.new = used'.requests]
    /\ UNCHANGED <<member, book, inbox, stop, lock, edit, writers>>
    /\ UNCHANGED Untouched

\* The update is validated against what is saved and for every active member.
GlobLock ==
    /\ glob.pc = "lock" /\ lock = "none"
    /\ lock' = "global"
    /\ glob' = [glob EXCEPT !.pc = "drain", !.old = saved.version,
                            !.left = Reached]
    /\ UNCHANGED <<member, book, inbox, stop, edit, writers, used>>
    /\ UNCHANGED Untouched

\* Submissions in flight are waited for, and none begins until the end.
GlobDrain ==
    /\ glob.pc = "drain"
    /\ LET waiting == SelectSeq(glob.left, LAMBDA m : m \notin writers)
       IN IF waiting = <<>>
          THEN glob' = [glob EXCEPT !.pc = "send"] /\ UNCHANGED writers
          ELSE /\ ~member[Head(waiting)].sending
               /\ writers' = writers \cup {Head(waiting)} /\ UNCHANGED glob
    /\ UNCHANGED <<member, book, inbox, stop, lock, edit, used>>
    /\ UNCHANGED Untouched

RollBack(tried) == [glob EXCEPT !.pc = "rollback", !.left = Reverse(tried)]

\* One engine at a time gets the message and is waited for.
GlobSend ==
    /\ glob.pc = "send" /\ glob.left # <<>>
    /\ LET m == Head(glob.left)
           tried == Append(glob.tried, m)
       IN IF Ended(m)
          THEN glob' = [RollBack(tried) EXCEPT !.tried = tried]
               /\ UNCHANGED inbox
          ELSE /\ glob' = [glob EXCEPT !.pc = "sent", !.tried = tried]
               /\ inbox' = [inbox EXCEPT ![m] = Append(@, "config")]
    /\ UNCHANGED <<member, book, stop, lock, edit, writers, used>>
    /\ UNCHANGED Untouched

Answered(m, ok) ==
    CASE glob.pc = "sent" /\ ok -> [glob EXCEPT !.pc = "send",
                                                !.left = Tail(@)]
      [] glob.pc = "sent" /\ ~ok -> RollBack(glob.tried)
      [] glob.pc = "undo" -> [glob EXCEPT !.pc = "rollback", !.left = Tail(@),
                                          !.broken = @ \/ ~ok]

\* The engine installs the configuration, refuses it, or installs it, fails to
\* reconcile and pauses.  One that is shutting down refuses everything.
ServeConfig(m) ==
    /\ Serving(m, "config") /\ glob.pc \in {"sent", "undo"}
    /\ Head(glob.left) = m
    /\ inbox' = [inbox EXCEPT ![m] = Tail(@)]
    /\ LET version == IF glob.pc = "sent" THEN glob.new ELSE glob.old
       IN \/ /\ ~ShuttingDown(m)
             /\ member' = Set(m, "version", version)
             /\ glob' = Answered(m, TRUE) /\ UNCHANGED used
          \/ /\ ShuttingDown(m)
             /\ glob' = Answered(m, FALSE) /\ UNCHANGED <<member, used>>
          \/ /\ ~ShuttingDown(m) /\ Fault
             /\ member' \in {member, [member EXCEPT ![m].version = version,
                                                    ![m].running = FALSE]}
             /\ glob' = Answered(m, FALSE)
    /\ UNCHANGED <<book, stop, lock, edit, writers>>
    /\ UNCHANGED Untouched

\* The engine ended with the message in its channel: its answer is dropped.
GlobLost ==
    /\ glob.pc \in {"sent", "undo"} /\ Ended(Head(glob.left))
    /\ glob' = Answered(Head(glob.left), FALSE)
    /\ UNCHANGED <<member, book, inbox, stop, lock, edit, writers, used>>
    /\ UNCHANGED Untouched

GlobSave ==
    /\ glob.pc = "send" /\ glob.left = <<>>
    /\ \/ /\ saved' = [saved EXCEPT !.version = glob.new]
          /\ glob' = [glob EXCEPT !.pc = "commit"] /\ UNCHANGED used
       \/ /\ Fault /\ glob' = RollBack(glob.tried) /\ UNCHANGED saved
    /\ UNCHANGED <<member, book, inbox, stop, lock, edit, writers, pairs,
                   published, gate, removing, tradeLock, reply, queue, cmd,
                   main>>

\* Members that still have the old configuration are passed over; one whose
\* engine is gone cannot be restored.
GlobUndo ==
    /\ glob.pc = "rollback" /\ glob.left # <<>>
    /\ LET m == Head(glob.left)
       IN \/ /\ member[m].version = glob.old
             /\ glob' = [glob EXCEPT !.left = Tail(@)] /\ UNCHANGED inbox
          \/ /\ member[m].version # glob.old /\ Ended(m)
             /\ glob' = [glob EXCEPT !.left = Tail(@), !.broken = TRUE]
             /\ UNCHANGED inbox
          \/ /\ member[m].version # glob.old /\ ~Ended(m)
             /\ glob' = [glob EXCEPT !.pc = "undo"]
             /\ inbox' = [inbox EXCEPT ![m] = Append(@, "config")]
    /\ UNCHANGED <<member, book, stop, lock, edit, writers, used>>
    /\ UNCHANGED Untouched

\* The end of an update: the gate follows a success; after a rollback that
\* failed every strategy is paused.
GlobEnd ==
    /\ \/ glob.pc = "commit" \/ (glob.pc = "rollback" /\ glob.left = <<>>)
    /\ gate' = [gate EXCEPT !.version = IF glob.pc = "commit" THEN glob.new
                                           ELSE @]
    /\ member' = [m \in Members |->
                    IF glob.broken /\ m \in ToSet(Reached)
                    THEN [member[m] EXCEPT !.running = FALSE] ELSE member[m]]
    /\ used' = [used EXCEPT !.mixed = @ \/ glob.broken]
    /\ glob' = IdleGlob /\ writers' = {} /\ lock' = "none"
    /\ UNCHANGED <<book, inbox, stop, edit, saved, pairs, published, removing,
                   tradeLock, reply, queue, cmd, main>>

-----------------------------------------------------------------------------
(* The configuration of one pair: read, changed and sent as a whole, with   *)
(* the global part it was read with.                                        *)

EditAsk(m) ==
    /\ main.pc = "run" /\ edit.pc = "idle" /\ m \in published
    /\ Request("edit")
    /\ edit' = [IdleEdit EXCEPT !.pc = "lock", !.m = m]
    /\ UNCHANGED <<member, book, inbox, stop, lock, glob, writers>>
    /\ UNCHANGED Untouched

MayEdit == lock = "none"

EditRead ==
    /\ edit.pc = "lock" /\ MayEdit
    /\ IF edit.m \in published /\ Active(edit.m) /\ ~Ended(edit.m)
       THEN /\ edit' = [edit EXCEPT !.pc = "sent",
                                    !.version = member[edit.m].version]
            /\ inbox' = [inbox EXCEPT ![edit.m] = Append(@, "edit")]
            /\ lock' = "edit"
       ELSE edit' = IdleEdit /\ UNCHANGED <<inbox, lock>>
    /\ UNCHANGED <<member, book, stop, glob, writers, used>>
    /\ UNCHANGED Untouched

EditDone == edit' = IdleEdit
            /\ lock' = IF lock = "edit" THEN "none" ELSE lock

ServeEdit(m) ==
    /\ Serving(m, "edit") /\ EditDone
    /\ inbox' = [inbox EXCEPT ![m] = Tail(@)]
    /\ member' = IF ShuttingDown(m) THEN member
                 ELSE Set(m, "version", edit.version)
    /\ UNCHANGED <<book, stop, glob, writers, used>>
    /\ UNCHANGED Untouched

EditLost ==
    /\ edit.pc = "sent" /\ Ended(edit.m) /\ EditDone
    /\ UNCHANGED <<member, book, inbox, stop, glob, writers, used>>
    /\ UNCHANGED Untouched

-----------------------------------------------------------------------------
(* The process: start-up, the signal, and the end of every member.          *)

Still == <<saved, removing, lock, tradeLock, cmd, glob, edit, writers, book>>
Started == {member[m].sym : m \in InPairs}

\* One member after the other; its engine may initialize once it is known to
\* the runtime, unless the signal came first.
StartPair(s) ==
    /\ main.pc = "start" /\ s \in saved.pairs \ Started /\ CanCreate
    /\ \E running \in BOOLEAN :
          member' = [member EXCEPT ![Fresh] =
              [NewMember(s, saved.version, running) EXCEPT
                  !.life = IF main.signal THEN "live" ELSE "init",
                  !.down = main.signal]]
    /\ pairs' = Append(pairs, Fresh)
    /\ UNCHANGED <<inbox, published, gate, reply, queue, stop, main, used>>
    /\ UNCHANGED Still

StartDone ==
    /\ main.pc = "start" /\ saved.pairs = Started /\ ~main.signal
    /\ main' = [main EXCEPT !.pc = "run"]
    /\ published' = InPairs /\ gate' = [gate EXCEPT !.ready = TRUE]
    /\ UNCHANGED <<member, inbox, pairs, reply, queue, stop, used>>
    /\ UNCHANGED Still

StartFails ==
    /\ main.pc = "start"
    /\ \/ main.signal /\ UNCHANGED used
       \/ Fault
    /\ main' = [main EXCEPT !.pc = "shutdown"]
    /\ UNCHANGED <<member, inbox, pairs, published, gate, reply, queue, stop>>
    /\ UNCHANGED Still

Signal ==
    /\ main.pc \in {"start", "run"} /\ ~main.signal
    /\ main' = [main EXCEPT !.signal = TRUE]
    /\ UNCHANGED <<member, inbox, pairs, published, gate, reply, queue, stop,
                   used>>
    /\ UNCHANGED Still

\* The signal closes the gate of all members; a command may be under way.
RunStops ==
    /\ main.pc = "run" /\ main.signal
    /\ gate' = [gate EXCEPT !.stopped = TRUE]
    /\ main' = [main EXCEPT !.pc = "early"]
    /\ UNCHANGED <<member, inbox, pairs, published, reply, queue, stop, used>>
    /\ UNCHANGED Still

\* An engine has ended by itself: seen as finished, or joined.
RunExits(m) ==
    /\ main.pc = "run" /\ cmd.pc = "idle"
    /\ m \in InPairs /\ Ended(m) /\ ~member[m].failed
    /\ member' \in {member, [member EXCEPT ![m].joined = TRUE,
                                           ![m].joins = @ + 1]}
    /\ gate' = [gate EXCEPT !.stopped = TRUE]
    /\ main' = [main EXCEPT !.pc = "early"]
    /\ UNCHANGED <<inbox, pairs, published, reply, queue, stop, used>>
    /\ UNCHANGED Still

\* The engines nobody else is stopping; the claimed one is left to its removal.
Unowned == {m \in published : Active(m) /\ member[m].sym # removing}

\* Reading published waits for a writer that has the lock or is queued for it.
MayRead == ~cmd.queued

Early ==
    /\ main.pc = "early" /\ MayRead
    /\ stop' = [m \in Members |-> IF m \in Unowned /\ stop[m] = IdleStop
                                  THEN Began("early") ELSE stop[m]]
    /\ member' = [m \in Members |->
                    [member[m] EXCEPT !.down = @ \/ m \in Unowned]]
    /\ main' = [main EXCEPT !.pc = "drain"]
    /\ UNCHANGED <<inbox, pairs, published, gate, reply, queue, used>>
    /\ UNCHANGED Still

\* The command under way ends first, then everybody is stopped.
RunDrained ==
    /\ main.pc = "drain" /\ cmd.pc = "idle"
    /\ main' = [main EXCEPT !.pc = "shutdown"]
    /\ UNCHANGED <<member, inbox, pairs, published, gate, reply, queue, stop,
                   used>>
    /\ UNCHANGED Still

\* The channel is closed and what is in it is refused.
LeftWaiting(c) == reply[c]
Refused(c) == IF reply[c] = "waiting" THEN "rejected" ELSE reply[c]
Shutdown ==
    /\ main.pc = "shutdown"
    /\ main' = [main EXCEPT !.pc = "join"]
    /\ gate' = [gate EXCEPT !.stopped = TRUE]
    /\ member' = [m \in Members |->
                    [member[m] EXCEPT !.down = @ \/ m \in InPairs]]
    /\ reply' = [c \in Commands |-> Refused(c)]
    /\ queue' = <<>>
    /\ UNCHANGED <<inbox, pairs, published, stop, used>>
    /\ UNCHANGED Still

\* A handle that was joined, or belongs to an engine that has ended and that
\* nobody began to stop, is not polled again.
JoinsAgain(m) == FALSE
IsJoined(m) == member[m].joined
Over(m) == IsJoined(m) \/ Ended(m)

FinalBegins(m) ==
    /\ main.pc = "join" /\ m \in InPairs /\ stop[m] = IdleStop
    /\ stop' = [stop EXCEPT ![m] = IF Over(m)
                                   THEN [by |-> "final", pc |-> "done"]
                                   ELSE Began("final")]
    /\ UNCHANGED <<member, book, inbox, used>> /\ UNCHANGED rest

FinalEnds(m) ==
    /\ main.pc = "join" /\ m \in InPairs
    /\ stop[m].by \in {"early", "final"} /\ Joinable(m)
    /\ stop' = [stop EXCEPT ![m].pc = "done"]
    /\ IF IsJoined(m) THEN UNCHANGED <<member, book, inbox>>
       ELSE Joined(m)
    /\ UNCHANGED used /\ UNCHANGED rest

Exit ==
    /\ main.pc = "join" /\ \A m \in InPairs : stop[m].pc = "done"
    /\ main' = [main EXCEPT !.pc = "exited"]
    /\ UNCHANGED <<member, inbox, pairs, published, gate, reply, queue, stop,
                   used>>
    /\ UNCHANGED Still

-----------------------------------------------------------------------------
EngineStep(m) == EngineUp(m) \/ Posted(m) \/ ServeResume(m)
                 \/ ServeShutdown(m) \/ ServeConfig(m) \/ ServeEdit(m)
StopStep(m) == StopPause(m) \/ StopRefused(m) \/ EarlyAbort(m)
CmdStep ==
    /\ Polled
    /\ \/ Take \/ AddAdmit \/ AddSave \/ AddPrepare \/ AddPublish
       \/ RemoveAdmit \/ RemoveCheck \/ RemoveClaim \/ RemoveStopped
       \/ RemoveDrain \/ RemovePosition \/ RemoveSave \/ RemoveUnpublish
       \/ RemoveRestore \/ RemoveReplaced \/ PublishWaits
GlobStep == GlobLock \/ GlobDrain \/ GlobSend \/ GlobLost \/ GlobSave
            \/ GlobUndo \/ GlobEnd
EditStep == EditRead \/ EditLost
MainStep == (\E s \in Symbols : StartPair(s)) \/ StartDone \/ StartFails
            \/ RunStops \/ (\E m \in Members : RunExits(m)) \/ Early
            \/ RunDrained \/ Shutdown \/ Exit
FinalStep(m) == FinalBegins(m) \/ FinalEnds(m)

Next ==
    \/ \E m \in Members :
          \/ EngineStep(m) \/ StopStep(m) \/ FinalStep(m)
          \/ EngineDies(m) \/ Submit(m) \/ OrderEnds(m) \/ UserActs(m)
          \/ CommitBegins(m) \/ EditAsk(m)
    \/ CommitEnds \/ CmdStep \/ GlobStep \/ EditStep \/ MainStep
    \/ GlobAsk \/ Signal
    \/ \E c \in Commands, op \in {"add", "remove"}, s \in Symbols :
          Ask(c, op, s)

Spec == Init /\ [][Next]_vars

\* Engines take the messages sent to them and requests end; the tasks of the
\* runtime are scheduled; a commit ends.
Fairness ==
    /\ \A m \in Members : WF_vars(EngineStep(m)) /\ WF_vars(StopStep(m))
                          /\ WF_vars(FinalStep(m))
    /\ WF_vars(CommitEnds) /\ SF_vars(CmdStep) /\ SF_vars(GlobStep)
    /\ WF_vars(EditStep) /\ WF_vars(MainStep)

FairSpec == Spec /\ Fairness
-----------------------------------------------------------------------------
(* Properties.                                                              *)

\* The types of the variables; the handle of an engine is joined at most once,
\* because polling a JoinHandle after its result was taken panics: run(),
\* remove_pair and shutdown all may hold it when the engine has ended.
TypeOK ==
    /\ saved.pairs \subseteq Symbols /\ saved.version \in Versions
    /\ \A m \in Members :
          /\ member[m].life \in Lives /\ member[m].joins \in 0..1
          /\ member[m].version \in Versions
          /\ stop[m].by \in Owners /\ stop[m].pc \in StopPcs
    /\ \A s \in Symbols : book[s] \in Books
    /\ InPairs \cup published \cup writers \subseteq Members
    /\ lock \in {"none", "command", "global", "edit"}
    /\ tradeLock \in 0..MaxMembers
    /\ removing \in Symbols \cup {NoSymbol}

\* A symbol has one engine, and a member that was retired commits nothing once
\* its replacement exists: a removal that fails builds the new member only
\* after the old engine has ended and its commits have drained (runtime.rs).
OneLife ==
    \A m, n \in Members :
       (m < n /\ member[m].sym = member[n].sym /\ member[n].life # "absent")
       => Ended(m) /\ tradeLock # m

\* What is not configured does not trade and left nothing at the exchange: a
\* pair is saved before its engine exists, and is deleted only after its
\* engine has ended and its position was read as zero.  A crash at any point
\* therefore finds every order's pair in the database.
NothingOrphaned ==
    \A s \in Symbols \ saved.pairs :
       /\ book[s] = "none"
       /\ \A m \in Members : member[m].sym = s => Ended(m)

\* No order leaves with a global configuration that is not the saved one: the
\* update holds every submission lock through saving and rolling back
\* (runtime.rs, apply_global_config).  A rollback that failed is excepted: the
\* strategies are then paused and the user decides.  SendsDurable is one step.
SendsDurable ==
    \A m \in Members :
       (~member[m].sending /\ member'[m].sending) =>
          member[m].version = saved.version \/ used.mixed

DurableOrders == [][SendsDurable]_vars

\* A signal ends the process whatever is under way, and then every engine has
\* ended and every command was answered.
AllOver == /\ main.pc = "exited"
           /\ \A m \in Members : member[m].life \in {"absent", "ended"}
           /\ \A c \in Commands : reply[c] # "waiting"
SignalEndsAll == main.signal ~> AllOver
=============================================================================
