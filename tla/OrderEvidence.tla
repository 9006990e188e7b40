---------------------------- MODULE OrderEvidence ----------------------------
(* Two orders of the exchange under one client order id.                     *)
(*                                                                           *)
(* When a listing contradicts what is known of an order, strategy/           *)
(* reconciliation.rs keeps every answer of the exchange about it until the   *)
(* answers agree: db.rs stores listings and single answers in the order they *)
(* were given, and the identities seen.  A later sync asks for every         *)
(* identity again; it either adopts one and clears the evidence, or ends     *)
(* without trading.  Answers that contradict each other block the pair for   *)
(* good.  The module is one client order id of one pair.  The exchange moves *)
(* between any two steps and its listings lag; one that is not honest gives  *)
(* wrong answers.  Writes fail before or after they are done, and the        *)
(* process ends at any step.                                                 *)
EXTENDS Integers, Sequences, FiniteSets, SequencesExt, TLC

CONSTANTS
    Ids,         \* the exchange's order ids under the client order id
    Honest,      \* whether the exchange's answers are true
    MaxLies,     \* wrong answers of an exchange that is not honest
    Times,       \* update times of wrong answers
    MaxSyncs, MaxFaults, MaxCrashes

VARIABLES
    ex,        \* the exchange's orders, as a query would answer
    managed,   \* durable: the order record
    rows,      \* durable: initial_order_responses, as batches
    stored,    \* durable: order_identity_observations and their order
    blocked,   \* durable: terminal_order_disagreements
    order,     \* memory: the order expected under the client order id
    conflict,  \* memory: whether its identity is in doubt
    tracked,   \* memory: order_identity_observations
    pending,   \* memory: batches not known to be saved
    disputed,  \* memory: disagreements not known to be saved
    loaded,    \* memory: loaded_identity_scopes
    ready,     \* memory: the last sync left nothing open
    job,       \* where the sync is
    heard,     \* ghost: answers saved since the evidence was last cleared
    used

durable == <<managed, rows, stored, blocked>>
memory == <<order, conflict, tracked, pending, disputed, loaded, ready>>
vars == <<ex, durable, memory, job, heard, used>>

-----------------------------------------------------------------------------
(* Answers.                                                                  *)

OrigQty == 2
NoId == "no id"
NoTime == -1   \* update_time None
NoPrice == 0   \* a price that is absent or zero
None == [none |-> TRUE]

Statuses == {"NEW", "PARTIALLY_FILLED", "FILLED", "CANCELED"}
IsTerminal(a) == a.st \in {"FILLED", "CANCELED"}
IsUnfilledTerminal(a) == a.st = "CANCELED"
UnresolvedFill(a) == a.st = "FILLED" /\ a.done <= 0
MatchesIdentity(a, b) == a.id = b.id
MatchesSnapshot(a, b) == a = b

Response(i, st, done, at) ==
    [id |-> i, st |-> st, done |-> done, at |-> at, orig |-> OrigQty,
     price |-> 1, avg |-> IF done > 0 THEN 1 ELSE NoPrice]

\* a and b exist and are out of order.
Earlier(b, a) == a # NoTime /\ b # NoTime /\ b < a
Completed(old, new) == old <= NoPrice /\ new > NoPrice
Compatible(old, new) == old = new \/ (old <= NoPrice /\ new <= NoPrice)
                                  \/ Completed(old, new)

OpenDisagree(a, b) ==
    \/ b.done < a.done
    \/ a.st = "PARTIALLY_FILLED" /\ b.st = "NEW"
    \/ Earlier(b.at, a.at)
    \/ a.orig # b.orig
    \/ a.done > 0 /\ a.done = b.done /\ a.avg > NoPrice /\ b.avg # a.avg

\* A fill between two answers is a legitimate progression.
Progression(a, b) ==
    /\ \/ a.st = "NEW" /\ a.done = 0
       \/ a.st = "PARTIALLY_FILLED" /\ 0 < a.done /\ a.done < a.orig
    /\ b.done >= a.done /\ b.done <= b.orig
    /\ b.st = "FILLED" => b.done = b.orig
    /\ a.done = b.done /\ a.done # 0 /\ a.avg > NoPrice => b.avg = a.avg
    /\ a.orig = b.orig
    /\ ~Earlier(b.at, a.at)

\* Missing prices may be completed later, with a time that does not go back.
CompletesPrices(a, b) ==
    /\ a.st = b.st /\ a.done > 0 /\ a.done = b.done
    /\ Compatible(a.price, b.price) /\ Compatible(a.avg, b.avg)
    /\ Completed(a.price, b.price) \/ Completed(a.avg, b.avg)
    /\ a.at = NoTime \/ (b.at # NoTime /\ b.at >= a.at)

EndDisagree(a, b) ==
    \/ a.st # b.st \/ a.done # b.done \/ a.orig # b.orig
    \/ ~Compatible(a.price, b.price) \/ ~Compatible(a.avg, b.avg)
    \/ a.at # b.at /\ ~CompletesPrices(a, b)

\* terminal_responses_disagree: b, given after a, contradicts it.
Disagree(a, b) ==
    /\ MatchesIdentity(a, b)
    /\ ~(UnresolvedFill(a) \/ UnresolvedFill(b))
    /\ IF ~IsTerminal(a) /\ ~IsTerminal(b) THEN OpenDisagree(a, b)
       ELSE IF ~IsTerminal(a) THEN ~Progression(a, b)
       ELSE EndDisagree(a, b)

-----------------------------------------------------------------------------
(* The exchange.                                                             *)

Spend(what, max) ==
    /\ used[what] < max
    /\ used' = [used EXCEPT ![what] = @ + 1]

\* Where an order may go from an answer.
After(a) ==
    CASE a.st = "NEW" -> {<<"PARTIALLY_FILLED", 1>>, <<"FILLED", OrigQty>>,
                          <<"CANCELED", 0>>}
      [] a.st = "PARTIALLY_FILLED" -> {<<"FILLED", OrigQty>>, <<"CANCELED", 1>>}
      [] OTHER -> {}

\* Elsewhere a move changes nothing that a step before the next answer sees.
Asking ==
    \/ job.at \in {"idle", "list", "unique", "lookup", "verify", "again"}
    \/ job.at = "query" /\ job.todo # {}

ExchangeMoves(i) ==
    /\ Asking
    /\ \E next \in After(ex[i]) :
         ex' = [ex EXCEPT ![i] = Response(i, next[1], next[2], @.at + 1)]
    /\ UNCHANGED <<durable, memory, job, heard, used>>

\* A wrong answer is any an order of that identity could have given, or a
\* fill without its quantity.
Lies(i) ==
    {Response(i, s[1], s[2], t) :
        s \in {<<"NEW", 0>>, <<"PARTIALLY_FILLED", 1>>, <<"FILLED", 0>>,
               <<"FILLED", OrigQty>>, <<"CANCELED", 0>>, <<"CANCELED", 1>>},
        t \in Times}

Answers(i, a) ==
    \/ a = ex[i] /\ UNCHANGED used
    \/ ~Honest /\ a \in Lies(i) \ {ex[i]} /\ Spend("lies", MaxLies)

-----------------------------------------------------------------------------
(* The rows.  A batch is a listing or one query's answer; "written" is that  *)
(* its observation ids are in the table already.                             *)

Batch(snap, answers) ==
    [snap |-> snap, of |-> answers, written |-> FALSE,
     ids |-> {}, order |-> order]

SameSnapshot(b) ==
    /\ b.snap /\ b.of # {}
    /\ \E k \in DOMAIN rows :
         /\ rows[k].snap /\ rows[k].of = b.of
         /\ \A l \in k + 1 .. Len(rows) : ~rows[l].snap

SameQuery(b) ==
    /\ ~b.snap
    /\ \E k \in DOMAIN rows :
         /\ rows[k] = [snap |-> FALSE, of |-> b.of]
         /\ \A l \in k + 1 .. Len(rows) : \A a \in rows[l].of, c \in b.of :
              ~MatchesIdentity(a, c)

\* save_initial_order_response_snapshot, without its identities.
RowsWith(b) ==
    IF b.written \/ SameSnapshot(b) \/ SameQuery(b) THEN rows
    ELSE Append(rows, [snap |-> b.snap, of |-> b.of])

\* What was heard, and whether an answer contradicted one of an earlier sync,
\* or of any.
Contradict(answers, b) ==
    ~b.snap /\ \E a \in answers, c \in b.of : Disagree(a, c)
HeardWith(b) ==
    IF b.written THEN heard
    ELSE [heard EXCEPT !.all = @ \cup b.of,
                       !.across = @ \/ Contradict(heard.old, b),
                       !.within = @ \/ Contradict(heard.all, b)]

NothingHeard == [all |-> {}, old |-> {}, across |-> FALSE, within |-> FALSE]

\* faulty: a listing is compared with what was answered before it
ComparesListings ==
    {<<k, l>> \in (DOMAIN rows) \X (DOMAIN rows) :
        k < l /\ \E a \in rows[k].of, b \in rows[l].of : Disagree(a, b)}

\* Pairs of the timeline that contradict each other: a listing lags, so it
\* contradicts nothing that was answered before it.
Contradictions ==
    {<<k, l>> \in (DOMAIN rows) \X (DOMAIN rows) :
        /\ k < l /\ ~rows[l].snap
        /\ \E a \in rows[k].of, b \in rows[l].of : Disagree(a, b)}

\* faulty: what was listed is left out
SingleAnswers == UNION {rows[k].of : k \in {l \in DOMAIN rows : ~rows[l].snap}}
RowAnswers == UNION {rows[k].of : k \in DOMAIN rows}

-----------------------------------------------------------------------------
(* A sync ends, goes on, or goes on after it saved what it learnt.           *)

At(pc) == job.at = pc
Sync ==
    [at |-> "load", ids |-> FALSE, then |-> "idle", seen |-> None,
     last |-> None, listed |-> {}, first |-> {}, todo |-> {}, found |-> {},
     own |-> {}]
Idle == [Sync EXCEPT !.at = "idle"]

Fails == job' = Idle /\ ready' = FALSE
Fault == Spend("faults", MaxFaults)

\* The sync goes on with j: at "fails" it ends, and the last steps need
\* nothing of what it found.
GoesOn(j, pc) ==
    IF pc = "fails" THEN Fails
    ELSE /\ job' = IF pc \in {"finish", "clear"} THEN [Sync EXCEPT !.at = pc]
                   ELSE [j EXCEPT !.at = pc, !.then = "idle", !.ids = FALSE]
         /\ UNCHANGED ready
Goto(pc) == GoesOn(job, pc)

\* persist_identity_observations, which flushes the batches first, and
\* record_initial_order_response with the flush it ends in.
Persists(j, then) ==
    job' = [j EXCEPT !.at = "flush", !.ids = TRUE, !.then = then]
Records(answer, then) ==
    /\ pending' = Append(pending, Batch(FALSE, {answer}))
    /\ job' = [job EXCEPT !.at = "flush", !.ids = FALSE, !.then = then,
                          !.seen = answer]

\* record_terminal_disagreement; what follows it is job.then.
Disputes(then) ==
    /\ disputed' = TRUE /\ ready' = FALSE
    /\ job' = [Sync EXCEPT !.at = "dispute", !.then = then]

SyncBegin ==
    /\ At("idle") /\ Spend("syncs", MaxSyncs)
    /\ job' = Sync
    /\ UNCHANGED <<ex, durable, memory, heard>>

\* adopt_compatible_order_id
Adopting(o, other) ==
    IF o.purpose = "none" THEN other
    ELSE IF o.id = NoId THEN [o EXCEPT !.id = other.id] ELSE o

LoadIdentities ==
    /\ At("load")
    /\ \/ /\ loaded
          /\ Persists(job, "blocked")
          /\ UNCHANGED <<memory, used>>
       \/ /\ ~loaded
          /\ loaded' = TRUE
          /\ IF stored.ids # {}
             THEN /\ order' = Adopting(order, stored.order)
                  /\ conflict' = TRUE
                  /\ tracked' = tracked \cup stored.ids
                  /\ ready' = FALSE
             ELSE UNCHANGED <<order, conflict, tracked, ready>>
          /\ Persists(job, "blocked")
          /\ UNCHANGED <<pending, disputed, used>>
       \/ /\ ~loaded /\ Fault /\ Fails
          /\ UNCHANGED <<order, conflict, tracked, pending, disputed, loaded>>
    /\ UNCHANGED <<ex, durable, heard>>

StoredWith(b) ==
    IF b.snap THEN [ids |-> stored.ids \cup b.ids, order |-> b.order]
    ELSE stored

FlushResponses ==
    /\ At("flush") /\ pending # <<>>
    /\ LET b == Head(pending) IN
       \/ /\ rows' = RowsWith(b) /\ stored' = StoredWith(b)
          /\ heard' = HeardWith(b)
          /\ pending' = Tail(pending)
          /\ IF Len(pending) = 1 /\ ~job.ids THEN Goto(job.then)
             ELSE UNCHANGED <<job, ready>>
          /\ UNCHANGED used
       \/ /\ Fault /\ Fails       \* written, and reported as failed
          /\ rows' = RowsWith(b) /\ stored' = StoredWith(b)
          /\ heard' = HeardWith(b)
          /\ pending' = [pending EXCEPT ![1].written = TRUE]
       \/ /\ Fault /\ Fails
          /\ UNCHANGED <<rows, stored, heard, pending>>
    /\ UNCHANGED <<ex, managed, blocked, order, conflict, tracked,
                   disputed, loaded>>

SaveIdentities ==
    /\ At("flush") /\ pending = <<>>
    /\ \/ /\ ~job.ids \/ tracked = {}
          /\ Goto(job.then)
          /\ UNCHANGED <<stored, used>>
       \/ /\ job.ids /\ tracked # {}
          /\ stored' = [ids |-> stored.ids \cup tracked, order |-> order]
          /\ Goto(job.then)
          /\ UNCHANGED used
       \/ /\ job.ids /\ tracked # {}
          /\ Fault /\ Fails
          /\ UNCHANGED stored
    /\ UNCHANGED <<ex, managed, rows, blocked, order, conflict, tracked,
                   pending, disputed, loaded, heard>>

\* flush_terminal_disagreements after a disagreement was recorded.
SaveDisagreement ==
    /\ At("dispute")
    /\ \/ blocked' = TRUE /\ disputed' = FALSE /\ UNCHANGED used
       \/ Fault /\ UNCHANGED <<blocked, disputed>>
    /\ IF job.then = "persist" THEN Persists(job, "fails") /\ UNCHANGED ready
       ELSE Fails
    /\ UNCHANGED <<ex, managed, rows, stored, order, conflict, tracked,
                   pending, loaded, heard>>

KnownBlocked == blocked \/ disputed

\* terminal_disagreement_blocked
CheckBlocked ==
    /\ At("blocked")
    /\ \/ /\ KnownBlocked /\ Fails
          /\ \/ blocked' = TRUE /\ disputed' = FALSE /\ UNCHANGED used
             \/ disputed /\ Fault /\ UNCHANGED <<blocked, disputed>>
       \/ /\ ~KnownBlocked
          /\ Goto("list")
          /\ UNCHANGED <<blocked, disputed, used>>
       \/ /\ ~KnownBlocked /\ Fault /\ Fails
          /\ UNCHANGED <<blocked, disputed>>
    /\ UNCHANGED <<ex, managed, rows, stored, order, conflict, tracked,
                   pending, loaded, heard>>

-----------------------------------------------------------------------------
(* The listing.                                                              *)

\* What a listing shows of one order: what it is, if it is open, or what it
\* was before it was filled or ended.
Shown(i) ==
    LET a == ex[i]
        old == Response(i, "NEW", 0, 1)
        part == Response(i, "PARTIALLY_FILLED", 1, 2)
    IN CASE a.st = "NEW" -> {a}
         [] a.st = "PARTIALLY_FILLED" -> {old, a}
         [] a.at = 3 -> {part, None}
         [] OTHER -> {old, None}

\* The identities of the listing contradict each other or the order.
InDoubt(listed) ==
    \/ conflict /\ listed # {}
    \/ Cardinality(listed) > 1
    \/ order.id # NoId /\ \E a \in listed : a.id # order.id

\* A new doubt ends the sync; one already recorded may be resolved in it.
IsNewDoubt(listed) ==
    \/ ~conflict
    \/ /\ \E a \in listed : a.id \notin tracked
       /\ order.id = NoId \/ \E a \in listed : a.id # order.id

Placeholder == [id |-> NoId, purpose |-> "unverified"]

Doubts(listed, new) ==
    LET o == IF order.purpose = "none" THEN Placeholder ELSE order
        ids == tracked \cup {a.id : a \in listed}
        batch == [Batch(TRUE, listed) EXCEPT !.ids = ids, !.order = o]
    IN /\ order' = o /\ conflict' = TRUE /\ tracked' = ids
       /\ pending' = Append(pending, batch)
       /\ ready' = FALSE
       /\ Persists([job EXCEPT !.listed = listed],
                   IF new THEN "fails" ELSE "timeline")

\* One order, known or new, as listed; or none.
Recovers(listed) ==
    /\ order' = IF listed = {} THEN order
                ELSE [id |-> (CHOOSE a \in listed : TRUE).id,
                      purpose |-> IF order.purpose = "none" THEN "legacy"
                                  ELSE order.purpose]
    /\ Goto("finish")

List ==
    /\ At("list")
    /\ \/ /\ \E show \in [Ids -> UNION {Shown(i) : i \in Ids}] :
               /\ \A i \in Ids : show[i] \in Shown(i)
               /\ LET listed == {show[i] : i \in Ids} \ {None} IN
                  IF InDoubt(listed) THEN Doubts(listed, IsNewDoubt(listed))
                  ELSE IF conflict
                  THEN /\ Goto("timeline")   \* nothing is listed
                       /\ UNCHANGED <<order, conflict, tracked, pending>>
                  ELSE /\ Recovers(listed)
                       /\ UNCHANGED <<conflict, tracked, pending>>
          /\ UNCHANGED used
       \/ /\ Fault /\ Fails
          /\ UNCHANGED <<order, conflict, tracked, pending>>
    /\ UNCHANGED <<ex, durable, disputed, loaded, heard>>

-----------------------------------------------------------------------------
(* The timeline, and a query for every identity.                             *)

CompareTimeline ==
    /\ At("timeline")
    /\ \/ /\ Contradictions = {}
          /\ GoesOn([job EXCEPT !.first = RowAnswers, !.todo = tracked],
                    "query")
          /\ heard' = [heard EXCEPT !.old = heard.all]
          /\ UNCHANGED <<disputed, used>>
       \/ /\ Contradictions # {}
          /\ Disputes("fails")
          /\ UNCHANGED <<heard, used>>
       \/ Fault /\ Fails /\ UNCHANGED <<disputed, heard>>
    /\ UNCHANGED <<ex, durable, order, conflict, tracked, pending, loaded>>

Asks(ids, then) ==
    /\ \/ \E i \in ids : \E a \in Lies(i) \cup {ex[i]} :
            Answers(i, a) /\ Records(a, then) /\ UNCHANGED ready
       \/ Fault /\ Fails /\ UNCHANGED pending
    /\ UNCHANGED <<ex, durable, order, conflict, tracked, disputed,
                   loaded, heard>>

QueryIdentity == At("query") /\ job.todo # {} /\ Asks(job.todo, "check")

\* corrected_to_expected and harmless_terminal
Confirms(a) == order.id \in {NoId, a.id} /\ ~UnresolvedFill(a)
Harmless(a) == a.done = 0 /\ IsUnfilledTerminal(a)

CheckAnswer ==
    /\ At("check")
    /\ LET a == job.seen IN
       IF \E b \in job.first : Disagree(b, a)
       THEN Disputes("fails")
       ELSE /\ IF Confirms(a) \/ Harmless(a)
               THEN GoesOn([job EXCEPT !.seen = None,
                                       !.todo = @ \ {a.id},
                                       !.found = @ \cup {a}], "query")
               ELSE Fails
            /\ UNCHANGED disputed
    /\ UNCHANGED <<ex, durable, order, conflict, tracked, pending,
                   loaded, heard, used>>

\* The answers that may be the order itself; one that ended without a fill
\* is one only if the order's id is known, or if it is all there is.
Candidates ==
    LET real == {a \in job.found : Confirms(a) /\ ~Harmless(a)}
        idle == {a \in job.found : Confirms(a) /\ Harmless(a)}
    IN IF order.purpose = "unverified" THEN IF real = {} THEN idle ELSE real
       ELSE IF order.id = NoId THEN real ELSE real \cup idle

Decide ==
    /\ At("query") /\ job.todo = {}
    /\ LET c == Candidates IN
       IF Cardinality(c) > 1 \/ (c = {} /\ order.purpose = "unverified")
       THEN Fails
       ELSE GoesOn([job EXCEPT !.own = c], IF c = {} THEN "match" ELSE "unique")
    /\ UNCHANGED <<ex, durable, order, conflict, tracked, pending,
                   disputed, loaded, heard, used>>

\* A lookup by the client order id may answer for any order that had it.
LookupUnique == At("unique") /\ Asks(Ids, "checkUnique")

Adopts(a) ==
    order' = [id |-> a.id, purpose |-> IF order.purpose = "unverified"
                                       THEN "legacy" ELSE order.purpose]

CheckUnique ==
    /\ At("checkUnique")
    /\ LET c == CHOOSE a \in job.own : TRUE
           a == job.seen
       IN IF MatchesSnapshot(a, c) /\ ~UnresolvedFill(a)
          THEN /\ Adopts(a)
               /\ Persists([job EXCEPT !.seen = None], "match")
               /\ UNCHANGED <<tracked, disputed, ready>>
          ELSE /\ tracked' = tracked \cup {a.id}
               /\ IF Disagree(c, a) THEN Disputes("persist")
                  ELSE Persists(job, "fails") /\ UNCHANGED <<disputed, ready>>
               /\ UNCHANGED order
    /\ UNCHANGED <<ex, durable, conflict, pending, loaded, heard, used>>

\* What the listing leaves once queries have corrected it.
Match ==
    /\ At("match")
    /\ LET live == {a \in job.listed :
                       \A b \in job.found :
                           a.id = b.id => ~Harmless(b) /\ b \notin job.own}
                   \cup {a \in job.own : ~IsTerminal(a)}
       IN IF \E a \in live : order.id \notin {NoId, a.id}
          THEN Fails
          ELSE Goto(IF live # {} \/ job.own # {} THEN "finish" ELSE "lookup")
    /\ UNCHANGED <<ex, durable, order, conflict, tracked, pending,
                   disputed, loaded, heard, used>>

-----------------------------------------------------------------------------
(* No listing and no query shows the order: a lookup, and for an order       *)
(* without an id two more answers, which must be the same.                   *)

Unknown == order.id = NoId
Lookup ==
    /\ At("lookup")
    /\ \/ \E i \in Ids : \E a \in Lies(i) \cup {ex[i]} :
            /\ order.id \in {NoId, i} /\ Answers(i, a)
            /\ IF Unknown THEN /\ tracked' = tracked \cup {i}
                               /\ Persists([job EXCEPT !.seen = a], "record")
               ELSE /\ job' = [job EXCEPT !.at = "record", !.seen = a]
                    /\ UNCHANGED tracked
            /\ UNCHANGED ready
       \/ Fault /\ Fails /\ UNCHANGED tracked
    /\ UNCHANGED <<ex, durable, order, conflict, pending, disputed, loaded,
                   heard>>

RecordLookup ==
    /\ At("record") /\ Records(job.seen, "checkLookup")
    /\ UNCHANGED <<ex, durable, order, conflict, tracked, disputed, loaded,
                   ready, heard, used>>

CheckLookup ==
    /\ At("checkLookup")
    /\ LET a == job.seen IN
       IF \E b \in job.first : Disagree(b, a)
       THEN Disputes("fails")
       ELSE /\ IF UnresolvedFill(a) \/ (~Unknown /\ ~IsTerminal(a))
               THEN Fails
               ELSE GoesOn([job EXCEPT !.last = a],
                           IF Unknown THEN "verify" ELSE "finish")
            /\ UNCHANGED disputed
    /\ UNCHANGED <<ex, durable, order, conflict, tracked, pending, loaded,
                   heard, used>>

Verify == At("verify") /\ Asks({job.last.id}, "checkVerified")
LookupAgain == At("again") /\ Asks(Ids, "checkAgain")

\* verify_consistent_terminal_followup
Follows(then) ==
    LET a == job.seen IN
    IF Disagree(job.last, a)
    THEN Disputes("fails") /\ UNCHANGED <<order, tracked>>
    ELSE /\ UNCHANGED disputed
         /\ IF MatchesSnapshot(job.last, a) /\ ~UnresolvedFill(a)
                  /\ IsTerminal(a)
            THEN /\ IF then = "again" THEN Goto(then) /\ UNCHANGED order
                    ELSE /\ Adopts(a)
                         /\ Persists(job, then)
                         /\ UNCHANGED ready
                 /\ UNCHANGED tracked
            ELSE /\ tracked' = tracked \cup {a.id}
                 /\ Persists(job, "fails")
                 /\ UNCHANGED <<order, ready>>

CheckVerified ==
    /\ \/ At("checkVerified") /\ Follows("again")
       \/ At("checkAgain") /\ Follows("finish")
    /\ UNCHANGED <<ex, durable, conflict, pending, loaded, heard, used>>

-----------------------------------------------------------------------------
(* The end of the sync.                                                      *)

\* The order is saved or booked; a failure, or a pause meanwhile, ends here.
Finish ==
    /\ At("finish")
    /\ \/ /\ managed' = order
          /\ IF conflict THEN Persists(job, "clear") /\ UNCHANGED ready
             ELSE job' = Idle /\ ready' = TRUE
          /\ UNCHANGED used
       \/ \E saved \in {managed, order} : managed' = saved /\ Fault /\ Fails
    /\ UNCHANGED <<ex, rows, stored, blocked, order, conflict, tracked,
                   pending, disputed, loaded, heard>>

NoIdentities == [ids |-> {}, order |-> Placeholder]

\* delete_order_evidence_groups, then the memory.
ClearEvidence ==
    /\ At("clear")
    /\ \/ /\ rows' = <<>> /\ stored' = NoIdentities /\ heard' = NothingHeard
          /\ conflict' = FALSE /\ tracked' = {}
          /\ job' = Idle /\ ready' = TRUE
          /\ UNCHANGED used
       \/ /\ Fault /\ Fails
          /\ UNCHANGED <<rows, stored, heard, conflict, tracked>>
    /\ UNCHANGED <<ex, managed, blocked, order, pending, disputed,
                   loaded>>

\* The memory is gone; a write that was under way may be done.
Crash ==
    /\ Spend("crashes", MaxCrashes)
    /\ order' = managed /\ conflict' = FALSE /\ tracked' = {}
    /\ pending' = <<>> /\ disputed' = FALSE /\ loaded' = FALSE
    /\ ready' = FALSE /\ job' = Idle
    /\ UNCHANGED <<ex, durable, heard>>

Init ==
    /\ ex = [i \in Ids |-> Response(i, "NEW", 0, 1)]
    /\ managed \in [id : {NoId}, purpose : {"none", "known"}]
                  \cup [id : Ids, purpose : {"known"}]
    /\ rows = <<>> /\ stored = NoIdentities /\ blocked = FALSE
    /\ order = managed /\ conflict = FALSE /\ tracked = {}
    /\ pending = <<>> /\ disputed = FALSE /\ loaded = FALSE
    /\ ready = FALSE /\ job = Idle
    /\ heard = NothingHeard
    /\ used = [lies |-> 0, syncs |-> 0, faults |-> 0, crashes |-> 0]

Next ==
    \/ \E i \in Ids : ExchangeMoves(i)
    \/ SyncBegin \/ LoadIdentities \/ FlushResponses \/ SaveIdentities
    \/ SaveDisagreement \/ CheckBlocked
    \/ List \/ CompareTimeline \/ QueryIdentity \/ CheckAnswer \/ Decide
    \/ LookupUnique \/ CheckUnique \/ Match
    \/ Lookup \/ RecordLookup \/ CheckLookup \/ Verify \/ LookupAgain \/ CheckVerified
    \/ Finish \/ ClearEvidence \/ Crash

Spec == Init /\ [][Next]_vars

-----------------------------------------------------------------------------
TypeOK ==
    /\ order \in [id : Ids \cup {NoId},
                  purpose : {"none", "known", "unverified", "legacy"}]
    /\ {tracked, stored.ids} \subseteq SUBSET Ids
    /\ \A k \in DOMAIN rows : rows[k].snap \/ Cardinality(rows[k].of) = 1
    /\ Len(pending) <= MaxSyncs
    /\ {conflict, disputed, loaded, ready, blocked} \subseteq BOOLEAN

Clears == rows # <<>> /\ rows' = <<>>

\* An answer that contradicts what a sync before it saved is never cleared,
\* whatever fails and whenever the process ends, and a sync that leaves
\* trading allowed knows of no disagreement (grid.rs,
\* record_and_check_initial_timeline; README.md:273).
KeepsEvidence ==
    /\ Clears => ~heard.across
    /\ ready' => ~disputed' /\ ~blocked'
EvidenceKept == [][KeepsEvidence]_vars

\* README.md:273 of all answers: what was saved and contradicts each other
\* "keeps the evidence and blocks".  A lookup by the client order id is not
\* compared with the queries of its own sync.
NeverCleared == [][Clears => ~heard.within]_vars

\* An exchange whose answers are true never blocks the pair, however its
\* listings lag, and every identity that was seen and is not the order's
\* ended without a fill when the evidence is cleared.
ResolvesTruly ==
    Honest =>
        /\ ~disputed' /\ ~blocked'
        /\ Clears => \A i \in stored.ids \ {order.id} :
                        ex[i].st = "CANCELED" /\ ex[i].done = 0
HonestResolves == [][ResolvesTruly]_vars
=============================================================================
