------------------------------ MODULE FillPages ------------------------------
(* The fills of trades whose profit is not verified yet, page by page.       *)
(*                                                                           *)
(* A round of strategy/grid.rs (reconcile_unverified_trades) asks for the    *)
(* fills of a batch of the pair's pending trades, several at a time;         *)
(* exchange/client.rs (get_user_trades) reads at most Steps pages for each   *)
(* call and keeps the cursor and what was read for the next round.  Only     *)
(* Slots orders may have a cursor, the others wait in a queue.  Cursors that *)
(* fail again and again, or that nobody uses, give way; a waiter nobody asks *)
(* for is passed, and forgotten in the end.  Clearing the history makes all  *)
(* of it void.                                                               *)
EXTENDS Naturals, FiniteSets, SequencesExt

CONSTANTS
    Orders,      \* 1..n, the later the newer
    Total,       \* fills of every order, numbered from 1 in the order of time
    Page,        \* fills of a page, 1000
    Slots,       \* orders with a cursor, 8
    Steps,       \* pages read by one call, 3
    Batch,       \* trades of a round, 32
    Width,       \* calls at a time, 4
    MaxStalled,  \* failures before a cursor gives way, 3
    MaxClears,   \* bound: clearings of the history
    MaxFaults    \* bound: failures, aborted rounds and pauses of the rounds

VARIABLES
    shown,     \* the exchange: orders whose fills it lists
    gone,      \* the exchange: orders that it does not find any more
    row,       \* the database: trades
    revision,  \* the database: clear revision
    cache,     \* fill_progress
    waiters,   \* fill_waiters
    gen,       \* fill_generations of the pair's symbol
    offset,    \* pnl_reconcile_offset
    round,     \* pnl_reconcile_task: its revision and the trades left
    call,      \* the calls of get_user_trades
    used

client == <<cache, waiters, gen>>
exchange == <<shown, gone>>
database == <<row, revision>>
vars == <<exchange, database, client, offset, round, call, used>>

NoCursor == Total + 1
NewEntry == [from |-> NoCursor, fills |-> {}, stalled |-> 0, unused |-> FALSE]
NoRound == [on |-> FALSE, rev |-> 0, todo |-> <<>>, blocked |-> FALSE]
NoCall == [on |-> FALSE, left |-> 0, moved |-> FALSE]

Asking == {o \in Orders : call[o].on}
Put(o, e) == [p \in DOMAIN cache \cup {o} |-> IF p = o THEN e ELSE cache[p]]
Without(c, o) == [p \in DOMAIN c \ {o} |-> c[p]]
Fault == used.faults < MaxFaults /\ used' = [used EXCEPT !.faults = @ + 1]

-----------------------------------------------------------------------------
(* A round.                                                                  *)

\* The newest first.
Pending == LET newer(o, p) == o > p
           IN SetToSortSeq({o \in Orders : row[o] = "pending"}, newer)

Begin ==
    /\ ~round.on
    /\ LET n == Len(Pending)
           from == offset % n
           last == IF from + Batch < n THEN from + Batch ELSE n
           todo == SubSeq(Pending, from + 1, last)
       IN IF n = 0
          THEN offset # 0 /\ offset' = 0 /\ UNCHANGED round
          ELSE /\ offset' = (from + Len(todo)) % n
               /\ round' = [NoRound EXCEPT !.on = TRUE, !.rev = revision,
                                           !.todo = todo]
    /\ UNCHANGED <<exchange, database, client, call, used>>

End ==
    /\ round.on /\ Asking = {} /\ (round.todo = <<>> \/ round.blocked)
    /\ round' = NoRound
    /\ UNCHANGED <<exchange, database, client, offset, call, used>>

Due(o) ==
    /\ round.todo # <<>> /\ o = Head(round.todo) /\ ~round.blocked
    /\ Cardinality(Asking) < Width
Tried == [round EXCEPT !.todo = Tail(@)]

\* The id of the order is asked for first.
NotFound(o) ==
    /\ Due(o)
    /\ IF o \in gone THEN UNCHANGED used ELSE Fault
    /\ round' = Tried
    /\ UNCHANGED <<exchange, database, client, offset, call>>

-----------------------------------------------------------------------------
(* A call takes its slot, under the lock of fill_progress.                   *)

\* The first waiter that was asked for lately, 0: none.
First(queue) ==
    LET active == {k \in DOMAIN queue : ~queue[k].idle}
    IN IF active = {} THEN 0
       ELSE CHOOSE k \in active : \A l \in active : k <= l

Busy(c) ==   \* faulty: does not see who works on it
    {o \in DOMAIN c : c[o].stalled >= MaxStalled \/ c[o].unused}
OnlyStalled(c) ==   \* faulty: keeps what nobody uses
    {o \in DOMAIN c : c[o].stalled >= MaxStalled /\ o \notin Asking}
\* What gives way to the first waiter.
Unfit(c) == {o \in DOMAIN c : (c[o].stalled >= MaxStalled \/ c[o].unused)
                               /\ o \notin Asking}

Queued(queue, c, o) ==
    IF \E k \in DOMAIN queue : queue[k].of = o
    THEN [k \in DOMAIN queue |->
             IF queue[k].of = o THEN [queue[k] EXCEPT !.idle = FALSE]
             ELSE queue[k]]
    ELSE IF Cardinality(DOMAIN c) >= Slots \/ queue # <<>>
    THEN Append(queue, [of |-> o, idle |-> FALSE])
    ELSE queue

Works(o) == call' = [call EXCEPT ![o] = [on |-> TRUE, left |-> Steps,
                                         moved |-> FALSE]]

\* c and queue are what the call finds, after a clearing made them void.
TakeSlot(o, c, queue) ==
    LET q == Queued(queue, c, o)
        head == First(q)
        turn == head = 0 \/ q[head].of = o
        room(d) == Cardinality(DOMAIN d) < Slots
        gives == turn /\ head # 0 /\ ~room(c) /\ Unfit(c) # {}
    IN \E victim \in IF gives THEN Unfit(c) ELSE {o} :
         LET d == IF gives THEN Without(c, victim) ELSE c IN
         IF turn /\ room(d)
         THEN /\ cache' = [p \in DOMAIN d \cup {o} |->
                              IF p = o THEN NewEntry ELSE d[p]]
              /\ waiters' = IF head = 0 THEN q ELSE RemoveAt(q, head)
              /\ Works(o)
         ELSE /\ cache' = d /\ waiters' = q /\ UNCHANGED call

Enter(o) ==
    /\ Due(o) /\ o \notin gone
    /\ round' = Tried
    /\ LET void == round.rev > gen
           c == IF void THEN <<>> ELSE cache
           queue == IF void THEN <<>> ELSE waiters
       IN /\ gen' = round.rev
          /\ IF o \in DOMAIN c
             THEN Works(o) /\ cache' = c /\ waiters' = queue
             ELSE TakeSlot(o, c, queue)
    /\ UNCHANGED <<exchange, database, offset, used>>

-----------------------------------------------------------------------------
(* Pages.                                                                    *)

\* Drop of FillCacheCleanup: a call that read nothing leaves no cursor.
Left(e, failed, moved) ==
    IF e.from = NoCursor \/ e.fills = {} THEN {}
    ELSE {[e EXCEPT !.stalled = CASE moved -> 0
                                  [] failed /\ ~moved /\ @ < MaxStalled -> @ + 1
                                  [] OTHER -> @]}
Ends(o, e, failed) ==
    /\ cache' = IF Left(e, failed, call[o].moved) = {} THEN Without(cache, o)
                ELSE Put(o, CHOOSE f \in Left(e, failed, call[o].moved) : TRUE)
    /\ call' = [call EXCEPT ![o] = NoCall]

\* The local budget ends the round, too.
OverBudget(o) ==
    /\ call[o].on /\ Fault
    /\ Ends(o, cache[o], FALSE)
    /\ round' = [round EXCEPT !.blocked = TRUE]
    /\ UNCHANGED <<exchange, database, waiters, gen, offset>>

\* No answer, or one that cannot be true.
QueryFails(o) ==
    /\ call[o].on /\ Fault
    /\ Ends(o, cache[o], TRUE)
    /\ UNCHANGED <<exchange, database, waiters, gen, offset, round>>

\* Without a cursor the exchange lists the latest fills.
Listed(o) ==
    LET from == IF cache[o].from # NoCursor THEN cache[o].from
                ELSE IF Total > Page THEN Total - Page + 1 ELSE 1
    IN IF o \in shown THEN {k \in 1..Total : from <= k /\ k < from + Page}
       ELSE {}

\* The first page may be the end of the list, so the second starts at its
\* beginning.
NextCursor(e, page) ==
    IF e.from = NoCursor THEN 1
    ELSE 1 + CHOOSE k \in page : \A l \in page : l <= k

\* verify_trade_pnl saves what is complete unless the history was cleared.
Complete(o) ==
    /\ cache' = Without(cache, o)
    /\ call' = [call EXCEPT ![o] = NoCall]
    /\ row' = IF round.rev = revision THEN [row EXCEPT ![o] = "verified"]
              ELSE row

Continue(o, next) ==
    /\ IF call[o].left > 1
       THEN /\ cache' = Put(o, next)
            /\ call' = [call EXCEPT ![o].left = @ - 1, ![o].moved = TRUE]
       ELSE /\ cache' = IF next.fills = {} THEN Without(cache, o)
                        ELSE Put(o, next)
            /\ call' = [call EXCEPT ![o] = NoCall]
    /\ UNCHANGED row

ReadPage(o) ==
    /\ call[o].on
    /\ LET e == cache[o]
           page == Listed(o)
           fills == e.fills \cup page
           partial == e.from # NoCursor /\ Cardinality(page) < Page
       IN \/ Cardinality(fills) = Total /\ Complete(o)
          \/ /\ Cardinality(fills) < Total /\ partial   \* starts again
             /\ Ends(o, NewEntry, TRUE) /\ UNCHANGED row
          \/ /\ Cardinality(fills) < Total /\ ~partial
             /\ Continue(o, [from |-> NextCursor(e, page), fills |-> fills,
                             stalled |-> 0, unused |-> FALSE])
    /\ UNCHANGED <<exchange, revision, waiters, gen, offset, round, used>>

-----------------------------------------------------------------------------
(* The engine, the user, the exchange and time.                              *)

\* The configuration changes: the task is aborted, its calls with it.
AbortRound ==
    /\ round.on /\ Fault
    /\ LET left(o) == IF o \in Asking THEN Left(cache[o], FALSE, call[o].moved)
                      ELSE {cache[o]}
       IN cache' = [o \in {p \in DOMAIN cache : left(p) # {}} |->
                       CHOOSE e \in left(o) : TRUE]
    /\ call' = [o \in Orders |-> NoCall]
    /\ round' = NoRound /\ offset' = 0
    /\ UNCHANGED <<exchange, database, waiters, gen>>

Trade(o) ==
    /\ row[o] = "none" /\ \A p \in Orders : p < o => row[p] # "none"
    /\ row' = [row EXCEPT ![o] = "pending"]
    /\ UNCHANGED <<exchange, revision, client, offset, round, call, used>>

Clear ==
    /\ used.clears < MaxClears /\ Pending # <<>>
    /\ used' = [used EXCEPT !.clears = @ + 1]
    /\ revision' = revision + 1
    /\ row' = [o \in Orders |-> IF row[o] = "none" THEN "none" ELSE "cleared"]
    /\ UNCHANGED <<exchange, client, offset, round, call>>

Shows(o) ==
    /\ o \notin shown /\ shown' = shown \cup {o}
    /\ UNCHANGED <<gone, database, client, offset, round, call, used>>

Vanishes(o) ==
    /\ o \notin gone /\ gone' = gone \cup {o} /\ Fault
    /\ UNCHANGED <<shown, database, client, offset, round, call>>

\* Two hours without a page: while the rounds go on only an order that is not
\* found can be left so long.
Abandoned(o) ==
    /\ o \in DOMAIN cache \ Asking /\ ~cache[o].unused
    /\ IF o \in gone THEN UNCHANGED used ELSE Fault
    /\ cache' = [cache EXCEPT ![o].unused = TRUE]
    /\ UNCHANGED <<exchange, database, waiters, gen, offset, round, call>>

\* Three minutes without a call, then the retention, which
\* note_pnl_reconcile_backlog makes longer than a turn through what is pending.
Idles(o) ==
    /\ \E k \in DOMAIN waiters :
         /\ waiters[k].of = o
         /\ waiters' = IF waiters[k].idle THEN RemoveAt(waiters, k)
                       ELSE [waiters EXCEPT ![k].idle = TRUE]
         /\ IF waiters[k].idle /\ o \notin gone /\ row[o] = "pending"
            THEN Fault ELSE UNCHANGED used
    /\ UNCHANGED <<exchange, database, cache, gen, offset, round, call>>

Init ==
    /\ shown = {} /\ gone = {}
    /\ row = [o \in Orders |-> "none"] /\ revision = 0
    /\ cache = <<>> /\ waiters = <<>> /\ gen = 0 /\ offset = 0
    /\ round = NoRound /\ call = [o \in Orders |-> NoCall]
    /\ used = [clears |-> 0, faults |-> 0]

Goes(o) == Enter(o) \/ NotFound(o) \/ ReadPage(o)
Next ==
    \/ Begin \/ End \/ AbortRound \/ Clear
    \/ \E o \in Orders :
         \/ Goes(o) \/ OverBudget(o) \/ QueryFails(o)
         \/ Trade(o) \/ Shows(o) \/ Vanishes(o) \/ Abandoned(o) \/ Idles(o)

RoundGoesOn == Begin \/ End \/ \E o \in Orders : Goes(o)
Listing == \E o \in Orders : Shows(o)
Forgetting == \E o \in gone : Abandoned(o) \/ Idles(o)

\* Rounds are begun again, calls go on; the exchange lists every fill; what is
\* not asked for any more is forgotten.
Fairness ==
    WF_vars(RoundGoesOn) /\ WF_vars(Listing) /\ WF_vars(Forgetting)

Spec == Init /\ [][Next]_vars /\ Fairness

-----------------------------------------------------------------------------
TypeOK ==
    /\ shown \subseteq Orders /\ gone \subseteq Orders
    /\ row \in [Orders -> {"none", "pending", "verified", "cleared"}]
    /\ revision \in 0..MaxClears /\ gen \in 0..MaxClears
    /\ \A o \in DOMAIN cache :
         cache[o] \in [from : 1..NoCursor, fills : SUBSET (1..Total),
                       stalled : 0..MaxStalled, unused : BOOLEAN]
    /\ offset \in 0..Cardinality(Orders)
    /\ call \in [Orders -> [on : BOOLEAN, left : 0..Steps, moved : BOOLEAN]]

\* No more cursors than slots; who works on a cursor keeps it; a waiter has
\* one place in the queue and no cursor (exchange/client.rs, get_user_trades).
SlotsHold ==
    /\ Cardinality(DOMAIN cache) <= Slots
    /\ Asking \subseteq DOMAIN cache
    /\ \A k, l \in DOMAIN waiters : waiters[k].of = waiters[l].of => k = l
    /\ \A k \in DOMAIN waiters : waiters[k].of \notin DOMAIN cache

\* Every trade is verified in the end, unless the history is cleared or the
\* exchange does not find its order any more (strategy/grid.rs,
\* reconcile_unverified_trades).
Verified ==
    \A o \in Orders :
      row[o] = "pending" ~> (row[o] # "pending" \/ o \in gone)
=============================================================================
