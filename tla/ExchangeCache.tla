---------------------------- MODULE ExchangeCache ----------------------------
(***************************************************************************)
(* The cache of account balances, or of positions, that the strategies of   *)
(* one account share (CacheEntries in exchange/cache_entries.rs, with the    *)
(* calls of account_cache.rs and position_cache.rs).  One key is modelled:   *)
(* keys share nothing but the lock of the map, held for single steps.        *)
(*                                                                           *)
(* The map holds an entry and a generation.  Readers load an entry under its *)
(* lock and wait for one another only briefly.  An invalidation after a fill *)
(* replaces the entry and moves the generation; a critical refresh replaces  *)
(* the entry before and after its own request and leaves the generation      *)
(* alone.  Whoever holds a replaced entry finds out before it answers and    *)
(* starts again.                                                             *)
(*                                                                           *)
(* A response is the version of the account it was computed from.  Times     *)
(* (the maximal age, the cooldown after a failure, the wait for the lock)    *)
(* are flags that may change at any moment.  Only the account cache has      *)
(* forced reads, only the position cache may lack what is asked for; the     *)
(* module lets one cache have both.                                          *)
(***************************************************************************)
EXTENDS Naturals, FiniteSets

CONSTANTS
    Callers,      \* the engines that read through the cache
    MaxEntry,     \* entries: the current one, one per caller, and a new one
    MaxEpoch,     \* the largest generation, u64::MAX
    MaxVersion,   \* bound: versions of the account
    MaxRetires    \* bound: invalidations

ASSUME EnoughEntries ==
    IsFiniteSet(Callers) /\ MaxEntry >= Cardinality(Callers) + 2

ASSUME CacheAssumption ==
    /\ "free" \notin Callers
    /\ MaxEntry \in Nat \ {0} /\ MaxVersion \in Nat \ {0}
    /\ MaxEpoch \in Nat /\ MaxRetires \in Nat /\ MaxRetires <= MaxEpoch

VARIABLES
    version,  \* the version of the account at the exchange
    cache,    \* the map: generation and current entry of the key
    entry,    \* every entry that is alive: snapshot, flags and its lock
    call,     \* the call of each caller
    invalid,  \* history: the version at the last invalidation
    seen,     \* history: the newest version a critical refresh has answered
    answer,   \* history: the last answer given
    retires   \* invalidations so far

vars == <<version, cache, entry, call, invalid, seen, answer, retires>>

Entries == 1..MaxEntry
NoEntry == 0
NoAnswer == 0
Kinds == {"shared", "forced", "critical"}
Pcs == {"idle", "look", "wait", "held", "load", "loaded", "last", "single",
        "singled", "detach", "ask", "asked"}
\* Where a call holds the lock of its entry.
Holding == {"held", "load", "loaded"}

\* A snapshot that is too old to be served is as good as none.
NewEntry == [snapshot |-> NoAnswer, cooling |-> FALSE, lock |-> "free"]

\* value is the version when the request was sent, and then the response.
Idle == [pc |-> "idle", kind |-> "shared", epoch |-> 0, entry |-> NoEntry,
         began |-> 1, value |-> NoAnswer]

Becomes(c, r) == call' = [call EXCEPT ![c] = r]
Goto(c, pc) == Becomes(c, [call[c] EXCEPT !.pc = pc])
Fails(c) == Becomes(c, Idle)

\* The call returns what it has, an error if that is no answer.
Return(c) ==
    /\ Becomes(c, Idle)
    /\ answer' = IF call[c].value = NoAnswer THEN answer ELSE call[c].value

-----------------------------------------------------------------------------
(* CacheEntries.                                                            *)

\* wrapping_add
NextEpoch == IF cache.epoch = MaxEpoch THEN 0 ELSE cache.epoch + 1

\* An entry is free for reuse when neither the map nor a call refers to it.
Unused == Entries \ ({cache.current} \cup {call[c].entry : c \in Callers})

\* Faulty: the entry is cleared in place, under the loaders that hold it.
Clear(epoch) ==
    /\ cache' = [epoch |-> epoch, current |-> cache.current]
    /\ entry' = [entry EXCEPT ![cache.current].snapshot = NoAnswer,
                              ![cache.current].cooling = FALSE]

\* *entry = Default::default()
Replace(epoch) ==
    \E e \in Unused :
      /\ \A f \in Unused : e <= f
      /\ cache' = [epoch |-> epoch, current |-> e]
      /\ entry' = [f \in Entries |-> IF f \in Unused THEN NewEntry
                                                    ELSE entry[f]]

\* is_current
EpochOnly(c) == cache.epoch = call[c].epoch   \* faulty: no Arc::ptr_eq
IsCurrent(c) == cache.epoch = call[c].epoch /\ cache.current = call[c].entry

\* The loop begins again with the entry that is current then.
SameEntry(c) == Goto(c, "wait")   \* faulty: the entry is taken once
Continue(c) == Becomes(c, [Idle EXCEPT !.pc = "look", !.kind = call[c].kind,
                                       !.began = call[c].began])

\* The guard of the entry is dropped.
StaysLocked(c) == entry[call[c].entry]   \* faulty: the guard outlives the call
Unlocked(c) == [entry[call[c].entry] EXCEPT !.lock = "free"]
Unlock(c) == entry' = [entry EXCEPT ![call[c].entry] = Unlocked(c)]

-----------------------------------------------------------------------------
(* get_or_fetch                                                             *)

Look(c) ==
    /\ call[c].pc = "look"
    /\ Becomes(c, [call[c] EXCEPT !.pc = "wait", !.epoch = cache.epoch,
                                  !.entry = cache.current])
    /\ UNCHANGED <<version, cache, entry, invalid, seen, answer, retires>>

Lock(c) ==
    /\ call[c].pc = "wait" /\ entry[call[c].entry].lock = "free"
    /\ entry' = [entry EXCEPT ![call[c].entry].lock = c]
    /\ Goto(c, "held")
    /\ UNCHANGED <<version, cache, invalid, seen, answer, retires>>

\* ENTRY_WAIT is over: the shared request is still in flight.
TimeOut(c) ==
    /\ call[c].pc = "wait" /\ entry[call[c].entry].lock # "free"
    /\ Fails(c)
    /\ UNCHANGED <<version, cache, entry, invalid, seen, answer, retires>>

Servable(c, e) == e.snapshot # NoAnswer /\ call[c].kind # "forced"

\* Under the lock: start again, refuse, serve the snapshot, or drop it and
\* send a request.
Hold(c) ==
    /\ call[c].pc = "held"
    /\ LET e == entry[call[c].entry] IN
         \/ /\ ~IsCurrent(c)
            /\ Continue(c) /\ Unlock(c)
         \/ /\ IsCurrent(c) /\ e.cooling
            /\ Fails(c) /\ Unlock(c)
         \/ /\ IsCurrent(c) /\ ~e.cooling /\ Servable(c, e)
            /\ Becomes(c, [call[c] EXCEPT !.pc = "last", !.value = e.snapshot])
            /\ Unlock(c)
         \/ /\ IsCurrent(c) /\ ~e.cooling /\ ~Servable(c, e)
            /\ Becomes(c, [call[c] EXCEPT !.pc = "load", !.value = version])
            /\ entry' = [entry EXCEPT ![call[c].entry].snapshot = NoAnswer]
    /\ UNCHANGED <<version, cache, invalid, seen, answer, retires>>

\* The exchange answers a request with what it knew after the request was
\* sent, or the request fails.
Respond(c, from, to) ==
    /\ call[c].pc = from
    /\ \E v \in {NoAnswer} \cup (call[c].value .. version) :
         Becomes(c, [call[c] EXCEPT !.pc = to, !.value = v])
    /\ UNCHANGED <<version, cache, entry, invalid, seen, answer, retires>>

Loaded(c) ==
    /\ call[c].pc = "loaded"
    /\ \/ /\ ~IsCurrent(c)
          /\ Continue(c) /\ Unlock(c)
       \/ /\ IsCurrent(c) /\ call[c].value = NoAnswer
          /\ Fails(c)
          /\ entry' = [entry EXCEPT ![call[c].entry] =
                         [Unlocked(c) EXCEPT !.cooling = TRUE]]
       \/ /\ IsCurrent(c) /\ call[c].value # NoAnswer
          /\ Goto(c, "last")
          /\ entry' = [entry EXCEPT ![call[c].entry] =
                         [Unlocked(c) EXCEPT !.snapshot = call[c].value]]
    /\ UNCHANGED <<version, cache, invalid, seen, answer, retires>>

\* The entry is compared once more after its lock was dropped.  A position
\* the snapshot lacks is asked for alone, outside the lock; one it has on both
\* sides is an error.
Last(c) ==
    /\ call[c].pc = "last"
    /\ \/ ~IsCurrent(c) /\ Continue(c) /\ UNCHANGED answer
       \/ IsCurrent(c) /\ Return(c)
       \/ /\ IsCurrent(c) /\ call[c].kind = "shared"
          /\ Fails(c) /\ UNCHANGED answer
       \/ /\ IsCurrent(c) /\ call[c].kind = "shared"
          /\ Becomes(c, [call[c] EXCEPT !.pc = "single", !.value = version])
          /\ UNCHANGED answer
    /\ UNCHANGED <<version, cache, entry, invalid, seen, retires>>

Singled(c) ==
    /\ call[c].pc = "singled"
    /\ \/ ~IsCurrent(c) /\ Continue(c) /\ UNCHANGED answer
       \/ IsCurrent(c) /\ Return(c)
    /\ UNCHANGED <<version, cache, entry, invalid, seen, retires>>

-----------------------------------------------------------------------------
(* refresh_critical                                                         *)

MovedEpoch == NextEpoch   \* faulty: a refresh counts as an invalidation
DetachedEpoch == cache.epoch

Detach(c) ==
    /\ call[c].pc = "detach"
    /\ Replace(DetachedEpoch)
    /\ Becomes(c, [call[c] EXCEPT !.pc = "ask", !.epoch = DetachedEpoch,
                                  !.value = version])
    /\ UNCHANGED <<version, invalid, seen, answer, retires>>

\* detach_if_current, and then the error of the request if there was one.
Asked(c) ==
    /\ call[c].pc = "asked"
    /\ \/ /\ cache.epoch # call[c].epoch /\ call[c].value # NoAnswer
          /\ Goto(c, "detach") /\ UNCHANGED <<cache, entry, seen, answer>>
       \/ /\ cache.epoch # call[c].epoch /\ call[c].value = NoAnswer
          /\ Fails(c) /\ UNCHANGED <<cache, entry, seen, answer>>
       \/ /\ cache.epoch = call[c].epoch
          /\ Replace(cache.epoch)
          /\ Return(c)
          /\ seen' = IF call[c].value > seen THEN call[c].value ELSE seen
    /\ UNCHANGED <<version, invalid, retires>>

-----------------------------------------------------------------------------
(* The callers, the exchange and time.                                      *)

\* A shared read may be answered with what was known before its call.
Since(kind) == IF kind = "shared" THEN 1 ELSE version

Begin(c, kind) ==
    /\ call[c].pc = "idle"
    /\ Becomes(c, [Idle EXCEPT
                     !.pc = IF kind = "critical" THEN "detach" ELSE "look",
                     !.kind = kind, !.began = Since(kind)])
    /\ UNCHANGED <<version, cache, entry, invalid, seen, answer, retires>>

\* The engine is aborted in its call; the lock it may hold is dropped.
Abort(c) ==
    /\ call[c].pc # "idle"
    /\ IF call[c].pc \in Holding THEN Unlock(c) ELSE UNCHANGED entry
    /\ Fails(c)
    /\ UNCHANGED <<version, cache, invalid, seen, answer, retires>>

\* An engine that learned of a fill invalidates.
Retire ==
    /\ retires < MaxRetires
    /\ Replace(NextEpoch)
    /\ invalid' = version /\ retires' = retires + 1
    /\ UNCHANGED <<version, call, seen, answer>>

Change ==
    /\ version < MaxVersion
    /\ version' = version + 1
    /\ UNCHANGED <<cache, entry, call, invalid, seen, answer, retires>>

\* MAX_AGE of the snapshot, or FAILURE_COOLDOWN of the failure, is over.
Expire ==
    /\ \/ /\ entry[cache.current].snapshot # NoAnswer
          /\ entry' = [entry EXCEPT ![cache.current].snapshot = NoAnswer]
       \/ /\ entry[cache.current].cooling
          /\ entry' = [entry EXCEPT ![cache.current].cooling = FALSE]
    /\ UNCHANGED <<version, cache, call, invalid, seen, answer, retires>>

Init ==
    /\ version = 1 /\ invalid = 1 /\ seen = 1 /\ answer = 1 /\ retires = 0
    /\ cache = [epoch |-> 0, current |-> 1]
    /\ entry = [e \in Entries |-> NewEntry]
    /\ call = [c \in Callers |-> Idle]

Step(c) ==
    \/ Look(c) \/ Lock(c) \/ TimeOut(c) \/ Hold(c) \/ Loaded(c) \/ Last(c)
    \/ Respond(c, "load", "loaded") \/ Respond(c, "single", "singled")
    \/ Respond(c, "ask", "asked")
    \/ Singled(c) \/ Detach(c) \/ Asked(c)

Next ==
    \/ Retire \/ Change \/ Expire
    \/ \E c \in Callers :
         \/ Step(c) \/ Abort(c)
         \/ \E kind \in Kinds : Begin(c, kind)

Spec == Init /\ [][Next]_vars

\* Every await of a call ends: requests time out and so does the wait for the
\* lock, and the lock of the map is held for single steps.
Fairness == \A c \in Callers : WF_vars(Step(c))
FairSpec == Spec /\ Fairness

-----------------------------------------------------------------------------
EntryType == [snapshot : 0..version, cooling : BOOLEAN,
              lock : Callers \cup {"free"}]
CallType == [pc : Pcs, kind : Kinds, epoch : 0..MaxEpoch,
             entry : Entries \cup {NoEntry}, began : 1..version,
             value : 0..version]

Typed ==
    /\ version \in Nat /\ invalid \in 1..version /\ seen \in 1..version
    /\ answer \in 1..version /\ retires \in 0..MaxRetires
    /\ cache \in [epoch : 0..MaxEpoch, current : Entries]
    /\ entry \in [Entries -> EntryType]
    /\ call \in [Callers -> CallType]

\* Where a call refers to no entry.
Apart == {"idle", "look", "detach", "ask", "asked"}

Locks ==
    \A c \in Callers :
      /\ call[c].entry = NoEntry <=> call[c].pc \in Apart
      /\ \A e \in Entries :
           entry[e].lock = c <=> call[c].pc \in Holding /\ call[c].entry = e

\* The type invariant, and who holds which lock: a call that waits for the
\* exchange under a lock is the holder of that lock, and nobody else is.
TypeOK == Typed /\ Locks

\* What FreshReads sees of a call.
Shown(r) == IF r.pc = "idle" THEN [kind |-> "none", began |-> 1]
                             ELSE [kind |-> r.kind, began |-> r.began]

Reads == INSTANCE FreshReads WITH reads <- [c \in Callers |-> Shown(call[c])]

Requesting == {"load", "single", "ask"}
Refreshing == {"detach", "ask", "asked"}

Phases ==
    /\ cache.epoch = retires
    /\ \A c \in Callers :
         /\ call[c].epoch <= retires
         /\ call[c].kind = "critical" <=> call[c].pc \in Refreshing
         /\ call[c].kind = "shared" => call[c].began = 1
         /\ call[c].pc \in Requesting => call[c].value # NoAnswer
         /\ call[c].pc \in {"look", "wait", "held"} => call[c].value = NoAnswer

\* No answer to a request sent before the last invalidation, or older than
\* what a critical refresh has answered, is in the current entry or on its way
\* to it; a critical refresh holds one of its own generation.  Why ReadsAreFresh
\* holds (is_current and detach_if_current, cache_entries.rs:51, 92).
NothingStale ==
    /\ LET v == entry[cache.current].snapshot IN
         v # NoAnswer => v >= invalid /\ v >= seen
    /\ \A c \in Callers :
         call[c].value # NoAnswer =>
           /\ call[c].value >= call[c].began
           /\ call[c].entry = cache.current =>
                call[c].value >= invalid /\ call[c].value >= seen
           /\ call[c].pc \in {"ask", "asked"} /\ call[c].epoch = cache.epoch =>
                call[c].value >= invalid

FreshInv == Phases /\ NothingStale

\* The cache keeps the promise of FreshReads: no loader that was overtaken by
\* an invalidation or a critical refresh, no waiter on its entry and no late
\* answer brings back what was known before (cache_entries.rs, LESSONS.md:68).
ReadsAreFresh == Reads!Spec

\* Critical refreshes do not hold up one another, however many there are, and
\* wait for no reader (detach leaves the generation alone).
CriticalEnds ==
    \A c \in Callers : (call[c].kind = "critical") ~> (call[c].pc = "idle")

\* A read ends too, as soon as no critical refresh replaces entries under it.
ReadsEnd ==
    \A c \in Callers :
      (call[c].pc # "idle") ~> \/ call[c].pc = "idle"
                               \/ \E d \in Callers : call[d].kind = "critical"
=============================================================================
