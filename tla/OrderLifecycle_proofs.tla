----------------------- MODULE OrderLifecycle_proofs -----------------------
(***************************************************************************)
(* Proofs about OrderLifecycle for any number of orders and levels and any  *)
(* bound on faults, crashes and inputs: the types, that no order that may   *)
(* still be executed or booked is forgotten by the database, and that each  *)
(* execution is booked once.                                                *)
(***************************************************************************)
EXTENDS OrderLifecycle, SumTheorems

-----------------------------------------------------------------------------
(* The inductive invariant.                                                 *)

\* What an order has executed agrees with its state on the exchange.
ExInv ==
    \A o \in Orders :
      /\ ex[o].st \in {"unsent", "flying", "refused", "gone"} => ex[o].done = 0
      /\ ex[o].st \in {"open", "canceled"} => ex[o].done < Size
      /\ ex[o].st = "filled" => ex[o].done = Size

OnAnOrder == {"intent", "sent", "query", "partial", "adopt", "confirm", "fill",
              "commit", "remove"}
Syncing == {"list", "restore", "refresh", "save", "lookup", "settle"}

\* What the engine knows of the order it works on.  It removes only an order
\* that ended unexecuted, and books only orders that ended.
EngineInv ==
    LET o == engine.order IN
    /\ engine.pc \in OnAnOrder => o \in Orders
    /\ At("intent") => ex[o].st = "unsent" /\ o \in DOMAIN managed
    /\ engine.pc \in {"partial", "adopt"} =>
         o \in DOMAIN active /\ o \in DOMAIN engine.seen
    /\ engine.pc \in {"fill", "commit", "remove"} => Ended(o)
    /\ At("remove") => ex[o].done = 0
    /\ \A p \in engine.ended : Ended(p)
    /\ At("save") => DOMAIN engine.seen \subseteq DOMAIN active

\* Only orders that ended are in the history: what is booked is final.
LedgerInv == BookedOnce /\ \A o \in Recorded : Ended(o)

\* While a cancellation is complete so far, every order it must account for
\* is reserved in memory, so that none is left once nothing is reserved.
Accounting == \/ engine.pc \in Syncing /\ engine.purpose = "cancel"
              \/ engine.pc \in {"cancelList", "cancelEach"} /\ ~engine.bad
CancelInv ==
    /\ Accounting => \A o \in Orders : Unsettled(o) => o \in DOMAIN active
    /\ At("clear") => \A o \in Orders : ~Unsettled(o)

IInv == TypeOK /\ ExInv /\ EngineInv /\ LedgerInv /\ CancelInv /\ NothingForgotten

-----------------------------------------------------------------------------
(* Partial functions.                                                       *)

\* A partial function is one on some subset, with fitting values.
LEMMA PartialIs ==
  ASSUME NEW S, NEW T, NEW f
  PROVE  f \in PartialFunctions(S, T) <=>
           /\ f = [x \in DOMAIN f |-> f[x]]
           /\ DOMAIN f \subseteq S
           /\ \A x \in DOMAIN f : f[x] \in T
<1>1. ASSUME f \in PartialFunctions(S, T)
      PROVE  /\ f = [x \in DOMAIN f |-> f[x]]
             /\ DOMAIN f \subseteq S
             /\ \A x \in DOMAIN f : f[x] \in T
  BY <1>1 DEF PartialFunctions
<1>2. ASSUME f = [x \in DOMAIN f |-> f[x]], DOMAIN f \subseteq S,
             \A x \in DOMAIN f : f[x] \in T
      PROVE  f \in PartialFunctions(S, T)
  <2>1. f \in [DOMAIN f -> T]
    BY <1>2
  <2> QED
    BY <1>2, <2>1 DEF PartialFunctions
<1> QED
  BY <1>1, <1>2

\* A function written out is a partial one if its values fit.
LEMMA WrittenTyped ==
  ASSUME NEW S, NEW T, NEW D \in SUBSET S, NEW f \in [D -> T]
  PROVE  f \in PartialFunctions(S, T)
BY DEF PartialFunctions

\* The empty one.
LEMMA EmptyTyped ==
  ASSUME NEW S, NEW T
  PROVE  Empty \in PartialFunctions(S, T) /\ DOMAIN Empty = {}
BY DEF PartialFunctions, Empty

\* Laying one over another keeps the type and joins the domains.
LEMMA OverTyped ==
  ASSUME NEW S, NEW T, NEW f \in PartialFunctions(S, T),
         NEW g \in PartialFunctions(S, T)
  PROVE  /\ Over(f, g) \in PartialFunctions(S, T)
         /\ DOMAIN Over(f, g) = DOMAIN f \cup DOMAIN g
<1>1. DOMAIN Over(f, g) = DOMAIN f \cup DOMAIN g
  BY DEF Over
<1>2. Over(f, g) \in [DOMAIN f \cup DOMAIN g -> T]
  BY PartialIs DEF Over
<1>3. DOMAIN f \cup DOMAIN g \in SUBSET S
  BY PartialIs
<1> QED
  BY <1>1, <1>2, <1>3, WrittenTyped

\* Setting one value.
LEMMA PutTyped ==
  ASSUME NEW S, NEW T, NEW f \in PartialFunctions(S, T), NEW x \in S, NEW y \in T
  PROVE  /\ Put(f, x, y) \in PartialFunctions(S, T)
         /\ DOMAIN Put(f, x, y) = DOMAIN f \cup {x}
<1>1. [p \in {x} |-> y] \in PartialFunctions(S, T)
  BY WrittenTyped
<1>2. DOMAIN [p \in {x} |-> y] = {x}
  OBVIOUS
<1> QED
  BY <1>1, <1>2, OverTyped DEF Put

\* Removing one value.
LEMMA DropTyped ==
  ASSUME NEW S, NEW T, NEW f \in PartialFunctions(S, T), NEW x
  PROVE  /\ Drop(f, x) \in PartialFunctions(S, T)
         /\ DOMAIN Drop(f, x) = DOMAIN f \ {x}
<1>1. Drop(f, x) \in [DOMAIN f \ {x} -> T]
  BY PartialIs DEF Drop, Restrict
<1>2. DOMAIN f \ {x} \in SUBSET S
  BY PartialIs
<1> QED
  BY <1>1, <1>2, WrittenTyped

\* Keeping a part.
LEMMA RestrictTyped ==
  ASSUME NEW S, NEW T, NEW f \in PartialFunctions(S, T), NEW D, D \subseteq DOMAIN f
  PROVE  Restrict(f, D) \in PartialFunctions(S, T) /\ DOMAIN Restrict(f, D) = D
<1>1. D \in SUBSET S /\ Restrict(f, D) \in [D -> T]
  BY PartialIs DEF Restrict
<1> QED
  BY <1>1, WrittenTyped

\* The two records of what is reserved, and a listing.
Reservations == PartialFunctions(Orders, 1..Size)
Lists == PartialFunctions(Orders, 0..(Size - 1))

-----------------------------------------------------------------------------
(* The position.                                                            *)

\* The position is the total of what the orders executed.
LEMMA PositionTotal ==
  ASSUME TypeOK
  PROVE  Position = Total(Executed, Orders) /\ Position \in Nat
<1>1. DOMAIN Executed = Orders /\ \A o \in Orders : Executed[o] \in Nat
  BY OrderAssumption DEF TypeOK, Executed
<1>2. Position = Total(Executed, Orders)
  BY <1>1, SumFunctionTotal DEF Position
<1> QED
  BY <1>1, <1>2, TotalNat, OrderAssumption

\* An execution only adds to it.
LEMMA PositionGrows ==
  ASSUME ex \in [Orders -> [st : ExStates, done : 0..Size]],
         ex' \in [Orders -> [st : ExStates, done : 0..Size]],
         \A o \in Orders : ex[o].done <= ex'[o].done
  PROVE  Position <= Position' /\ Position \in Nat /\ Position' \in Nat
<1> DEFINE v == [o \in Orders |-> ex[o].done]
           w == [o \in Orders |-> ex'[o].done]
<1>1. Position = Total(v, Orders) /\ Position' = Total(w, Orders)
  BY SumFunctionTotal DEF Position, Executed
<1>2. \A o \in Orders : v[o] \in Nat /\ w[o] \in Nat /\ v[o] <= w[o]
  BY OrderAssumption
<1> HIDE DEF v, w
<1>3. Total(v, Orders) \in Nat /\ Total(w, Orders) \in Nat
  BY <1>2, TotalNat, OrderAssumption
<1>4. Total(v, Orders) <= Total(w, Orders)
  BY <1>2, TotalGrows, OrderAssumption
<1> QED
  BY <1>1, <1>3, <1>4

-----------------------------------------------------------------------------
(* Who writes what.                                                         *)

\* Only a commit and a clearing write the history.
LEMMA LedgerWritten ==
  ASSUME [Next]_vars
  PROVE  UNCHANGED ledger \/ CommitFill \/ Settle \/ ClearHistory
BY DEF Next, vars, outside, bot, Place, PlaceIntent, Send, Withdraw, Answered,
       Rejected, Unknown, Query, RefreshPartial, AdoptPartial, CancelOrder,
       Settling, ConfirmCanceled, Remove, FillRefreshed, Tick, Sync, List,
       Restore, Refresh, Save, Lookup, LookupsDone, Synced, SyncAccount,
       BeginCancel, Cancel, LoadManaged, CancelList, CancelEach,
       CancelsConfirmed, Clear, Start, StartAccount, Env, Crash, Pause, Resume,
       Market, Accept, Refuse, Fill, Expire, Age, Exchange

\* Only a request, a cancellation and the market change an order.
LEMMA ExWritten ==
  ASSUME [Next]_vars
  PROVE  \/ UNCHANGED ex
         \/ Send \/ (\E o \in Orders : CancelOrder(o) \/ Market(o))
         \/ CancelList \/ CancelEach
BY DEF Next, vars, outside, bot, Place, PlaceIntent, Withdraw, Answered,
       Rejected, Unknown, Query, RefreshPartial, AdoptPartial, Settling,
       ConfirmCanceled, Remove, FillRefreshed, CommitFill, Tick, Sync, List,
       Restore, Refresh, Save, Lookup, LookupsDone, Settle, Synced,
       SyncAccount, BeginCancel, Cancel, LoadManaged, CancelsConfirmed, Clear,
       Start, StartAccount, Env, Crash, Pause, Resume, ClearHistory

\* The saved records.
LEMMA ManagedWritten ==
  ASSUME [Next]_vars
  PROVE  \/ UNCHANGED managed
         \/ (\E o \in Orders : PlaceIntent(o)) \/ Withdraw \/ Rejected
         \/ AdoptPartial \/ Remove \/ CommitFill \/ Save \/ Lookup \/ Settle
         \/ Clear
BY DEF Next, vars, outside, bot, Place, Send, Answered, Unknown, Query,
       RefreshPartial, CancelOrder, Settling, ConfirmCanceled, FillRefreshed,
       Tick, Sync, List, Restore, Refresh, LookupsDone, Synced, SyncAccount,
       BeginCancel, Cancel, LoadManaged, CancelList, CancelEach,
       CancelsConfirmed, Start, StartAccount, Env, Crash, Pause, Resume,
       ClearHistory, Market, Accept, Refuse, Fill, Expire, Age, Exchange

\* The reservations in memory.
LEMMA ActiveWritten ==
  ASSUME [Next]_vars
  PROVE  \/ UNCHANGED active
         \/ Answered \/ Query \/ AdoptPartial \/ Remove \/ CommitFill \/ Restore
         \/ Refresh \/ Lookup \/ Settle \/ LoadManaged \/ Crash \/ Start
BY DEF Next, vars, outside, bot, Place, PlaceIntent, Send, Withdraw, Rejected,
       Unknown, RefreshPartial, CancelOrder, Settling, ConfirmCanceled,
       FillRefreshed, Tick, Sync, List, Save, LookupsDone, Synced, SyncAccount,
       BeginCancel, Cancel, CancelList, CancelEach, CancelsConfirmed, Clear,
       StartAccount, Env, Pause, Resume, ClearHistory, Market, Accept, Refuse,
       Fill, Expire, Age, Exchange

-----------------------------------------------------------------------------
(* Types.                                                                   *)

ExType == [Orders -> [st : ExStates, done : 0..Size]]
LedgerType ==
    [trades : SUBSET Orders, cleared : SUBSET Orders, booked : [Orders -> Nat]]
ReadyType == [orders : BOOLEAN, account : BOOLEAN]
EngineType == [pc : EnginePcs, order : Orders \cup {"none"}, purpose : Purposes,
               seen : Lists, todo : SUBSET Orders, ended : SUBSET Orders,
               bad : BOOLEAN, stale : BOOLEAN, keep : BOOLEAN]
UsedType == [faults : 0..MaxFaults, crashes : 0..MaxCrashes, inputs : 0..MaxInputs]

Typed ==
    /\ level \in [Orders -> Levels]
    /\ ex \in ExType
    /\ active \in Reservations /\ managed \in Reservations
    /\ ledger \in LedgerType
    /\ ready \in ReadyType /\ running \in BOOLEAN /\ asked \in BOOLEAN
    /\ engine \in EngineType
    /\ used \in UsedType

\* The type invariant in parts, the bound on the position apart.
LEMMA TypeOKIs == TypeOK <=> Typed /\ pos \in 0..Position
BY DEF Typed, TypeOK, ExType, Reservations, Lists, LedgerType, ReadyType,
       EngineType, UsedType

\* What a call may answer, and what a failed one needs.
LEMMA OutcomeTyped ==
  /\ TRUE \in Outcome
  /\ \A ok \in Outcome : ok \in BOOLEAN /\ (ok \/ FALSE \in Outcome)
BY Zenon DEF Outcome

\* A fault is counted only within the bound.
LEMMA SpentTyped ==
  ASSUME Typed, NEW ok \in BOOLEAN, Spent(ok), ok \/ FALSE \in Outcome
  PROVE  used' \in UsedType
<1>1. used \in UsedType
  BY DEF Typed
<1>2. CASE ok
  BY <1>1, <1>2 DEF Spent
<1>3. CASE ~ok
  <2>1. used.faults < MaxFaults
    BY <1>3, Zenon DEF Outcome
  <2>2. used' = [used EXCEPT !.faults = @ + 1]
    BY <1>3 DEF Spent
  <2> QED
    BY <1>1, <2>1, <2>2, OrderAssumption DEF UsedType
<1> QED
  BY <1>2, <1>3

\* The records the engine goes on with.
LEMMA EngineMoves ==
  ASSUME engine \in EngineType
  PROVE  /\ NoWork \in EngineType
         /\ \A pc \in EnginePcs : Step(pc) \in EngineType
         /\ \A pc \in EnginePcs, o \in Orders \cup {"none"} :
              OnOrder(pc, o) \in EngineType
         /\ \A keep \in BOOLEAN : CancelAll(keep) \in EngineType
         /\ \A e \in EngineType : Halted(e) \in EngineType
         /\ \A purpose \in Purposes : SyncOrders(purpose) \in EngineType
<1>1. NoWork \in EngineType
  BY EmptyTyped DEF NoWork, EngineType, EnginePcs, Purposes, Lists
<1> QED
  <2>1. \A pc \in EnginePcs : Step(pc) \in EngineType
    BY DEF EngineType, Step
  <2>2. \A pc \in EnginePcs, o \in Orders \cup {"none"} : OnOrder(pc, o) \in EngineType
    BY <1>1 DEF EngineType, OnOrder
  <2>3. \A keep \in BOOLEAN : CancelAll(keep) \in EngineType
    BY <1>1 DEF EngineType, EnginePcs, CancelAll
  <2>4. \A e \in EngineType : Halted(e) \in EngineType
    BY DEF EngineType, Halted
  <2>5. \A purpose \in Purposes : SyncOrders(purpose) \in EngineType
    BY <1>1 DEF EngineType, EnginePcs, SyncOrders
  <2> QED
    BY <1>1, <2>1, <2>2, <2>3, <2>4, <2>5

\* What follows a sync.
LEMMA EndsTyped ==
  ASSUME Typed, NEW ok \in BOOLEAN, NEW left, SyncEnds(ok, left)
  PROVE  engine' \in EngineType /\ running' \in BOOLEAN
<1>1. engine \in EngineType /\ running \in BOOLEAN
  BY DEF Typed
<1>2. engine.purpose \in Purposes
  BY <1>1 DEF EngineType
<1>3. /\ NoWork \in EngineType /\ CancelAll(FALSE) \in EngineType
      /\ Step("account") \in EngineType /\ Step("clear") \in EngineType
  BY <1>1, EngineMoves DEF EnginePcs
<1>4. CASE engine.purpose = "tick"
  BY <1>1, <1>3, <1>4 DEF SyncEnds, AfterTick
<1>5. CASE engine.purpose = "boot"
  BY <1>1, <1>3, <1>5 DEF SyncEnds, AfterBoot
<1>6. CASE engine.purpose = "cancel"
  BY <1>1, <1>3, <1>6 DEF SyncEnds, AfterCancel
<1> QED
  BY <1>2, <1>4, <1>5, <1>6 DEF Purposes

\* The two ways a commit ends.
Commits(o, committed) ==
    /\ managed' = Drop(managed, o) /\ active' = Drop(active, o)
    /\ ledger' = IF IsRecorded(o) THEN ledger
                 ELSE [ledger EXCEPT !.trades = @ \cup {o},
                                     !.booked[o] = @ + ex[o].done]
    /\ engine' = committed
Keeps(failed) ==
    /\ UNCHANGED <<managed, active, ledger>>
    /\ engine' \in {failed, Halted(failed)}

\* A commit books and drops together, or changes nothing.
LEMMA CommitEnds ==
  ASSUME Typed, NEW o, NEW c, NEW f, CommitOrder(o, c, f)
  PROVE  /\ Commits(o, c) \/ Keeps(f)
         /\ running' \in BOOLEAN /\ used' \in UsedType
<1>1. PICK ok \in Outcome, halts \in BOOLEAN :
        /\ Spent(ok)
        /\ managed' = IF ok THEN Drop(managed, o) ELSE managed
        /\ active' = IF ok THEN Drop(active, o) ELSE active
        /\ running' = (running /\ ~halts)
        /\ ledger' = IF ok /\ ~IsRecorded(o)
                     THEN [ledger EXCEPT !.trades = @ \cup {o},
                                         !.booked[o] = @ + ex[o].done]
                     ELSE ledger
        /\ engine' = IF ok THEN c ELSE IF halts THEN Halted(f) ELSE f
  BY Zenon DEF CommitOrder
<1>2. ok \in BOOLEAN /\ (ok \/ FALSE \in Outcome)
  BY <1>1, OutcomeTyped
<1>3. used' \in UsedType
  BY <1>1, <1>2, SpentTyped, Zenon
<1>4. running' \in BOOLEAN
  BY <1>1
<1>5. CASE ok
  BY <1>1, <1>3, <1>4, <1>5, Zenon DEF Commits
<1>6. CASE ~ok
  <2>1. engine' \in {f, Halted(f)}
    BY <1>1, <1>6
  <2>2. Keeps(f)
    BY <1>1, <1>6, <2>1, Zenon DEF Keeps
  <2> QED
    BY <2>2, <1>3, <1>4
<1> QED
  BY <1>5, <1>6

-----------------------------------------------------------------------------
(* The exchange.                                                            *)

\* An order only gains executions, and one that ended does not change.
LEMMA ExStep ==
  ASSUME Typed, ExInv, EngineInv, [Next]_vars
  PROVE  /\ ex' \in ExType /\ ExInv'
         /\ \A o \in Orders : /\ ex[o].done <= ex'[o].done
                              /\ Ended(o) => ex'[o] = ex[o]
<1> USE OrderAssumption
<1> DEFINE Advances ==
      /\ ex' \in ExType /\ ExInv'
      /\ \A o \in Orders : /\ ex[o].done <= ex'[o].done
                           /\ Ended(o) => ex'[o] = ex[o]
<1>0. ex \in ExType /\ engine \in EngineType
  BY DEF Typed
<1>1. CASE UNCHANGED ex
  BY <1>0, <1>1 DEF ExInv, ExType
<1>2. CASE Send
  <2>1. engine.order \in Orders /\ ex[engine.order].st = "unsent"
    BY <1>2 DEF Send, EngineInv, At, OnAnOrder
  <2> QED
    BY <1>0, <1>2, <2>1 DEF Send, ExInv, ExType, ExStates, Ended
<1>3. ASSUME NEW o \in Orders, NEW from \in ExStates, NEW to \in ExStates,
             Exchange(o, from, to),
             <<from, to>> \in {<<"flying", "open">>, <<"flying", "refused">>,
                <<"open", "canceled">>, <<"refused", "gone">>, <<"unsent", "gone">>}
      PROVE  Advances
  BY <1>0, <1>3 DEF Exchange, ExInv, ExType, ExStates, Ended
<1>4. ASSUME NEW o \in Orders, Fill(o) PROVE Advances
  <2>1. ex[o].st = "open" /\ ex[o].done \in 0..(Size - 1)
    BY <1>0, <1>4 DEF Fill, ExInv, ExType
  <2> QED
    BY <1>0, <1>4, <2>1 DEF Fill, ExInv, ExType, ExStates, Ended
<1>5. ASSUME NEW o \in Orders, Market(o) PROVE Advances
  <2>1. CASE Accept(o)
    BY <1>3, <2>1 DEF Accept, ExStates
  <2>2. CASE Refuse(o)
    BY <1>3, <2>2 DEF Refuse, ExStates
  <2>3. CASE Expire(o)
    BY <1>3, <2>3 DEF Expire, ExStates
  <2>4. CASE Age(o)
    BY <1>3, <2>4 DEF Age, ExStates
  <2> QED
    BY <1>4, <1>5, <2>1, <2>2, <2>3, <2>4 DEF Market
<1>6. ASSUME NEW S, ex' = Canceled(S) PROVE Advances
  BY <1>0, <1>6 DEF Canceled, Open, ExInv, ExType, ExStates, Ended
<1>7. ASSUME NEW o \in Orders, CancelOrder(o) PROVE Advances
  <2>1. ex' = ex \/ ex' = Canceled({o})
    BY <1>0, <1>7 DEF CancelOrder, Canceled, Open, ExType
  <2> QED
    BY <1>1, <1>6, <2>1
<1>8. CASE CancelList
  <2>1. UNCHANGED ex \/ \E S : ex' = Canceled(S)
    BY <1>8 DEF CancelList
  <2> QED
    BY <1>1, <1>6, <2>1
<1>9. CASE CancelEach
  <2>1. UNCHANGED ex \/ \E S : ex' = Canceled(S)
    BY <1>9 DEF CancelEach
  <2> QED
    BY <1>1, <1>6, <2>1
<1> QED
  BY <1>1, <1>2, <1>5, <1>7, <1>8, <1>9, ExWritten

-----------------------------------------------------------------------------
(* The history.                                                             *)

\* Recording an order that ended keeps the history final.
LEMMA RecordStep ==
  ASSUME Typed, ExInv, LedgerInv, [Next]_vars, UNCHANGED ex,
         NEW o \in Orders, Ended(o), o \notin Recorded,
         ledger' = [ledger EXCEPT !.trades = @ \cup {o},
                                  !.booked[o] = @ + ex[o].done]
  PROVE  ledger' \in LedgerType /\ LedgerInv' /\ Recorded' = Recorded \cup {o}
<1>0. ledger \in LedgerType /\ ex[o].done \in Nat
  BY OrderAssumption DEF Typed, ExType
<1>1. /\ ledger'.trades = ledger.trades \cup {o}
      /\ ledger'.cleared = ledger.cleared
      /\ ledger'.booked = [ledger.booked EXCEPT ![o] = @ + ex[o].done]
  BY <1>0 DEF LedgerType
<1>2. ledger.booked[o] = 0
  BY DEF LedgerInv, BookedOnce
<1>3. ledger' \in LedgerType
  <2>1. ledger' = [trades |-> ledger'.trades, cleared |-> ledger'.cleared,
                   booked |-> ledger'.booked]
    BY <1>0 DEF LedgerType
  <2>2. ledger'.booked \in [Orders -> Nat]
    BY <1>0, <1>1 DEF LedgerType
  <2> QED
    BY <1>0, <1>1, <2>1, <2>2 DEF LedgerType
<1>4. Recorded' = Recorded \cup {o}
  BY <1>1 DEF Recorded
<1>5. BookedOnce'
  BY <1>0, <1>1, <1>2, <1>4 DEF LedgerType, LedgerInv, BookedOnce
<1>6. \A p \in Recorded' : Ended(p)'
  BY <1>4 DEF LedgerInv, Ended
<1> QED
  BY <1>3, <1>4, <1>5, <1>6 DEF LedgerInv

\* The history only grows.
LEMMA LedgerStep ==
  ASSUME Typed, ExInv, EngineInv, LedgerInv, [Next]_vars
  PROVE  ledger' \in LedgerType /\ LedgerInv' /\ Recorded \subseteq Recorded'
<1>0. ledger \in LedgerType /\ engine \in EngineType
  BY DEF Typed
<1> DEFINE Goal == ledger' \in LedgerType /\ LedgerInv' /\ Recorded \subseteq Recorded'
<1>1. CASE UNCHANGED ledger
  <2>1. Recorded' = Recorded /\ \A o \in Recorded : o \in Orders
    BY <1>0, <1>1 DEF Recorded, LedgerType
  <2>2. \A o \in Recorded : ex'[o] = ex[o] /\ Ended(o)
    BY <2>1, ExStep DEF LedgerInv
  <2> QED
    BY <1>0, <1>1, <2>1, <2>2 DEF LedgerInv, BookedOnce, Ended
<1>2. ASSUME NEW o \in Orders, Ended(o), NEW c, NEW f, CommitOrder(o, c, f),
             UNCHANGED ex
      PROVE  Goal
  <2>1. CASE Keeps(f)
    BY <1>1, <2>1 DEF Keeps
  <2>2. CASE Commits(o, c)
    <3>1. CASE o \in Recorded
      BY <1>1, <2>2, <3>1 DEF Commits, IsRecorded
    <3>2. CASE o \notin Recorded
      BY <1>2, <2>2, <3>2, RecordStep DEF Commits, IsRecorded
    <3> QED
      BY <3>1, <3>2
  <2> QED
    BY <1>2, <2>1, <2>2, CommitEnds
<1>3. CASE CommitFill
  <2>1. engine.order \in Orders /\ Ended(engine.order)
    BY <1>3 DEF CommitFill, EngineInv, At, OnAnOrder
  <2> QED
    BY <1>2, <1>3, <2>1 DEF CommitFill
<1>4. CASE Settle
  <2>1. PICK o \in engine.ended :
          \/ UNCHANGED ledger
          \/ \E c, f : CommitOrder(o, c, f)
    BY <1>4 DEF Settle
  <2>2. o \in Orders /\ Ended(o) /\ UNCHANGED ex
    BY <1>0, <1>4, <2>1 DEF EngineType, EngineInv, Settle
  <2> QED
    BY <1>1, <1>2, <2>1, <2>2
<1>5. CASE ClearHistory
  <2>1. /\ ledger' \in LedgerType /\ Recorded' = Recorded
        /\ ledger'.booked = ledger.booked /\ UNCHANGED ex
    BY <1>0, <1>5 DEF ClearHistory, LedgerType, Recorded
  <2> QED
    BY <2>1 DEF LedgerInv, BookedOnce, Ended
<1> QED
  BY <1>1, <1>3, <1>4, <1>5, LedgerWritten

-----------------------------------------------------------------------------
(* The reservations.                                                        *)

\* An order becomes unsettled only when it is sent.
LEMMA UnsettledStep ==
  ASSUME Typed, ExInv, EngineInv, LedgerInv, [Next]_vars,
         NEW o \in Orders, Unsettled(o)'
  PROVE  Unsettled(o) \/ (Send /\ o = engine.order)
<1> SUFFICES ASSUME ~Unsettled(o) PROVE Send /\ o = engine.order
  OBVIOUS
<1>0. ex \in ExType
  BY DEF Typed
<1>1. o \notin Recorded' => o \notin Recorded
  BY LedgerStep
<1>2. ~Live(o) /\ (ex[o].done = 0 \/ o \in Recorded)
  BY <1>0, OrderAssumption DEF Unsettled, ExType
<1>3. Live(o)' \/ (ex'[o].done > 0 /\ o \notin Recorded)
  BY <1>1 DEF Unsettled
<1>4. ex'[o] # ex[o]
  BY <1>2, <1>3 DEF Live
<1>5. ~Ended(o)
  BY <1>4, ExStep
<1>6. ex[o].st \in {"unsent", "refused", "gone"}
  BY <1>0, <1>2, <1>5 DEF ExType, ExStates, Live, Ended
<1>7. ex[o].done = 0
  BY <1>6 DEF ExInv
<1>8. ASSUME NEW S PROVE ex' # Canceled(S)
  BY <1>4, <1>6 DEF Canceled, Open
<1>9. CASE Send
  <2>1. ex'[o].st = "flying"
    BY <1>0, <1>2, <1>3, <1>9 DEF Send, ExType, Live
  <2> QED
    BY <1>0, <1>4, <1>9 DEF Send, ExType
<1>10. ASSUME NEW p \in Orders, CancelOrder(p) PROVE FALSE
  BY <1>0, <1>4, <1>6, <1>10 DEF CancelOrder, ExType
<1>11. ~CancelList /\ ~CancelEach
  BY <1>4, <1>8 DEF CancelList, CancelEach
<1>12. ASSUME NEW p \in Orders, Market(p) PROVE FALSE
  BY <1>0, <1>3, <1>4, <1>6, <1>7, <1>12
     DEF Market, Accept, Refuse, Fill, Expire, Age, Exchange, ExType, Live
<1> QED
  BY <1>4, <1>9, <1>10, <1>11, <1>12, ExWritten

\* The ways a record of reservations is changed, and when each is safe.
LEMMA DropSafe ==
  ASSUME NEW f \in Reservations, NEW g, NEW o, g = Drop(f, o), ~Unsettled(o)'
  PROVE  g \in Reservations /\ \A p \in DOMAIN f \ DOMAIN g : ~Unsettled(p)'
<1>1. Drop(f, o) \in Reservations /\ DOMAIN Drop(f, o) = DOMAIN f \ {o}
  BY DropTyped DEF Reservations
<1> QED
  BY <1>1

\* Reserving one order.
LEMMA PutSafe ==
  ASSUME NEW f \in Reservations, NEW g, NEW o \in Orders, NEW q \in 1..Size,
         g = Put(f, o, q)
  PROVE  g \in Reservations /\ DOMAIN f \subseteq DOMAIN g /\ o \in DOMAIN g
<1> DEFINE T == 1..Size
<1>1. f \in PartialFunctions(Orders, T) /\ q \in T
  BY DEF Reservations
<1> HIDE DEF T
<1>2. Put(f, o, q) \in PartialFunctions(Orders, T)
  BY <1>1, PutTyped
<1>3. DOMAIN f \subseteq DOMAIN g /\ o \in DOMAIN g
  BY DEF Put, Over
<1> QED
  BY <1>2, <1>3 DEF T, Reservations

\* Restoring several.
LEMMA OverSafe ==
  ASSUME NEW f \in Reservations, NEW g, NEW h \in Reservations, g = Over(h, f)
  PROVE  g \in Reservations /\ DOMAIN f \cup DOMAIN h \subseteq DOMAIN g
<1> DEFINE T == 1..Size
<1>1. f \in PartialFunctions(Orders, T) /\ h \in PartialFunctions(Orders, T)
  BY DEF Reservations
<1> HIDE DEF T
<1>2. Over(h, f) \in PartialFunctions(Orders, T)
  BY <1>1, OverTyped
<1>3. DOMAIN f \cup DOMAIN h \subseteq DOMAIN g
  BY DEF Over
<1> QED
  BY <1>2, <1>3 DEF T, Reservations

\* An order that ended, and is recorded if it was executed, is settled.
LEMMA EndedSettled ==
  ASSUME Typed, ExInv, EngineInv, LedgerInv, [Next]_vars, NEW o \in Orders,
         UNCHANGED ex,
         \/ Ended(o) /\ ex[o].done = 0
         \/ Ended(o) /\ o \in Recorded'
         \/ ex[o].st \in {"unsent", "refused", "gone"}
  PROVE  ~Unsettled(o)'
BY DEF Unsettled, Live, Ended, ExInv

\* A commit drops only what it has recorded.
LEMMA CommitSafe ==
  ASSUME Typed, ExInv, EngineInv, LedgerInv, [Next]_vars,
         NEW o \in Orders, Ended(o), UNCHANGED ex, NEW c, NEW f,
         CommitOrder(o, c, f)
  PROVE  /\ managed' \in Reservations /\ active' \in Reservations
         /\ \A p \in DOMAIN managed \ DOMAIN managed' : ~Unsettled(p)'
         /\ \A p \in DOMAIN active \ DOMAIN active' : ~Unsettled(p)'
<1>0. managed \in Reservations /\ active \in Reservations /\ ledger \in LedgerType
  BY DEF Typed
<1>1. CASE Keeps(f)
  BY <1>0, <1>1 DEF Keeps
<1>2. CASE Commits(o, c)
  <2>1. o \in Recorded'
    BY <1>0, <1>2 DEF Commits, IsRecorded, Recorded, LedgerType
  <2>2. ~Unsettled(o)'
    BY <2>1, EndedSettled
  <2> QED
    BY <1>0, <1>2, <2>2, DropSafe DEF Commits
<1> QED
  BY <1>1, <1>2, CommitEnds

\* Settling one order, which ended, drops it only if nothing is owed for it.
LEMMA SettleSafe ==
  ASSUME Typed, ExInv, EngineInv, LedgerInv, [Next]_vars, Settle
  PROVE  /\ managed' \in Reservations /\ active' \in Reservations
         /\ \A p \in DOMAIN managed \ DOMAIN managed' : ~Unsettled(p)'
         /\ \A p \in DOMAIN active \ DOMAIN active' : ~Unsettled(p)'
<1>0. managed \in Reservations /\ active \in Reservations /\ engine \in EngineType
  BY DEF Typed
<1>1. PICK o \in engine.ended :
        \/ ex[o].done > 0 /\ \E c, f : CommitOrder(o, c, f)
        \/ /\ ~(ex[o].done > 0)
           /\ \/ UNCHANGED <<managed, active>>
              \/ managed' = Drop(managed, o) /\ active' = Drop(active, o)
  BY DEF Settle
<1>2. o \in Orders /\ Ended(o) /\ UNCHANGED ex
  BY <1>0, <1>1 DEF EngineType, EngineInv, Settle
<1>3. CASE ex[o].done > 0
  BY <1>1, <1>2, <1>3, CommitSafe
<1>4. CASE ~(ex[o].done > 0)
  <2>1. ex[o].done = 0
    BY <1>2, <1>4, OrderAssumption DEF Typed, ExType
  <2>2. ~Unsettled(o)'
    BY <1>2, <2>1, EndedSettled
  <2> QED
    BY <1>0, <1>1, <1>4, <2>2, DropSafe
<1> QED
  BY <1>3, <1>4

\* A lookup drops only an order that never came to be.
LEMMA LookupSafe ==
  ASSUME Typed, ExInv, EngineInv, LedgerInv, [Next]_vars, Lookup
  PROVE  /\ managed' \in Reservations /\ active' \in Reservations
         /\ \A p \in DOMAIN managed \ DOMAIN managed' : ~Unsettled(p)'
         /\ \A p \in DOMAIN active \ DOMAIN active' : ~Unsettled(p)'
<1>0. managed \in Reservations /\ active \in Reservations /\ engine \in EngineType
  BY DEF Typed
<1>1. PICK o \in engine.todo :
        \/ UNCHANGED <<managed, active>>
        \/ /\ MayRetire(o)
           /\ managed' \in {managed, Drop(managed, o)}
           /\ active' \in {active, Drop(active, o)}
  BY DEF Lookup, LookupAbsent, LookupUnresolved, LookupEnded
<1>2. CASE MayRetire(o)
  <2>1. o \in Orders /\ UNCHANGED ex
    BY <1>0, <1>1 DEF EngineType, Lookup, outside
  <2>2. ~Unsettled(o)'
    BY <2>1, <1>2, EndedSettled DEF MayRetire
  <2> QED
    BY <1>0, <1>1, <2>2, DropSafe
<1> QED
  BY <1>0, <1>1, <1>2

\* A partial answer leaves a positive rest.
LEMMA AdoptTyped ==
  ASSUME Typed, ExInv, EngineInv, AdoptPartial
  PROVE  \E q \in 1..Size :
           /\ managed' \in {managed, Put(managed, engine.order, q)}
           /\ active' \in {active, Put(active, engine.order, q)}
<1> DEFINE o == engine.order
           kept == IF engine.bad THEN active[o] ELSE Size - engine.seen[o]
<1>1. o \in DOMAIN active /\ o \in DOMAIN engine.seen
  BY DEF AdoptPartial, EngineInv, At
<1>2. active \in PartialFunctions(Orders, 1..Size)
      /\ engine.seen \in PartialFunctions(Orders, 0..(Size - 1))
  BY DEF Typed, EngineType, Reservations, Lists
<1>3. active[o] \in 1..Size /\ engine.seen[o] \in 0..(Size - 1)
  BY <1>1, <1>2, PartialIs
<1>4. kept \in 1..Size
  BY <1>3, OrderAssumption
<1>5. /\ managed' \in {managed, Put(managed, o, kept)}
      /\ active' \in {active, Put(active, o, kept)}
  BY DEF AdoptPartial
<1> QED
  BY <1>4, <1>5

\* What the database drops is settled, or the engine has accounted for all.
LEMMA ManagedStep ==
  ASSUME Typed, ExInv, EngineInv, LedgerInv, CancelInv, [Next]_vars
  PROVE  /\ managed' \in Reservations
         /\ \A p \in DOMAIN managed \ DOMAIN managed' : ~Unsettled(p)'
<1> DEFINE Goal == /\ managed' \in Reservations
                   /\ \A p \in DOMAIN managed \ DOMAIN managed' : ~Unsettled(p)'
<1>0. /\ managed \in Reservations /\ active \in Reservations
      /\ engine \in EngineType /\ ex \in ExType
  BY DEF Typed
<1>1. CASE UNCHANGED managed
  BY <1>0, <1>1
<1>2. ASSUME NEW o \in Orders, UNCHANGED ex,
             \/ ex[o].st \in {"unsent", "refused", "gone"}
             \/ Ended(o) /\ ex[o].done = 0,
             managed' \in {managed, Drop(managed, o)}
      PROVE  Goal
  <2>1. ~Unsettled(o)'
    BY <1>2, EndedSettled
  <2> QED
    BY <1>0, <1>1, <1>2, <2>1, DropSafe
<1>3. ASSUME NEW o \in Orders, PlaceIntent(o) PROVE Goal
  <2>1. Size \in 1..Size
    BY OrderAssumption
  <2>2. managed' \in {managed, Put(managed, o, Size)}
    BY <1>3 DEF PlaceIntent
  <2> QED
    BY <1>0, <1>1, <2>1, <2>2, PutSafe
<1>4. CASE Withdraw
  <2>1. engine.order \in Orders /\ ex[engine.order].st = "unsent"
    BY <1>4 DEF Withdraw, EngineInv, At, OnAnOrder
  <2>2. managed' \in {managed, Drop(managed, engine.order)} /\ UNCHANGED ex
    BY <1>4 DEF Withdraw, outside
  <2> QED
    BY <1>2, <2>1, <2>2
<1>5. CASE Rejected
  <2>1. engine.order \in Orders /\ ex[engine.order].st \in {"refused", "gone"}
    BY <1>5 DEF Rejected, EngineInv, At, OnAnOrder
  <2>2. managed' \in {managed, Drop(managed, engine.order)} /\ UNCHANGED ex
    BY <1>5 DEF Rejected, outside
  <2> QED
    BY <1>2, <2>1, <2>2
<1>6. CASE AdoptPartial
  <2>1. PICK q \in 1..Size : managed' \in {managed, Put(managed, engine.order, q)}
    BY <1>6, AdoptTyped
  <2>2. engine.order \in Orders
    BY <1>6 DEF AdoptPartial, EngineInv, At, OnAnOrder
  <2> QED
    BY <1>0, <1>1, <2>1, <2>2, PutSafe
<1>7. CASE Remove
  <2>1. /\ engine.order \in Orders /\ Ended(engine.order)
        /\ ex[engine.order].done = 0
    BY <1>7 DEF Remove, EngineInv, At, OnAnOrder
  <2>2. managed' \in {managed, Drop(managed, engine.order)} /\ UNCHANGED ex
    BY <1>7 DEF Remove, outside
  <2> QED
    BY <1>2, <2>1, <2>2
<1>8. CASE CommitFill
  <2>1. engine.order \in Orders /\ Ended(engine.order)
    BY <1>8 DEF CommitFill, EngineInv, At, OnAnOrder
  <2> QED
    BY <1>8, <2>1, CommitSafe DEF CommitFill
<1>9. CASE Save
  <2>1. \/ UNCHANGED managed
        \/ managed' = Over(Restrict(active, DOMAIN engine.seen), managed)
    BY <1>9 DEF Save
  <2>2. CASE UNCHANGED managed
    BY <1>1, <2>2
  <2>3. CASE managed' = Over(Restrict(active, DOMAIN engine.seen), managed)
    <3>1. DOMAIN engine.seen \subseteq DOMAIN active
      BY <1>9 DEF Save, EngineInv, At
    <3>2. Restrict(active, DOMAIN engine.seen) \in Reservations
      BY <1>0, <3>1, RestrictTyped DEF Reservations
    <3>3. /\ managed' \in Reservations
          /\ DOMAIN managed \subseteq DOMAIN managed'
      <4> DEFINE h == Restrict(active, DOMAIN engine.seen)
      <4>1. h \in Reservations /\ managed' = Over(h, managed)
        BY <2>3, <3>2
      <4> HIDE DEF h
      <4> QED
        BY <1>0, <4>1, OverSafe
    <3> QED
      BY <3>3
  <2> QED
    BY <2>1, <2>2, <2>3
<1>10. CASE Clear
  <2>1. managed' \in {managed, Empty} /\ UNCHANGED <<ex, ledger>>
    BY <1>10 DEF Clear, outside
  <2>2. \A p \in Orders : ~Unsettled(p)'
    BY <1>10, <2>1 DEF Clear, CancelInv, Unsettled, Live, Recorded
  <2>3. Empty \in Reservations /\ DOMAIN managed \subseteq Orders
    BY <1>0, EmptyTyped, PartialIs DEF Reservations
  <2> QED
    BY <1>0, <2>1, <2>2, <2>3
<1> QED
  BY <1>1, <1>3, <1>4, <1>5, <1>6, <1>7, <1>8, <1>9, <1>10, SettleSafe,
     LookupSafe, ManagedWritten

\* Reserving at least as much as before stays within an order's size.
LEMMA AtLeastTyped ==
  ASSUME active \in Reservations, NEW o \in Orders, NEW q \in 1..Size,
         NEW new \in 1..Size
  PROVE  AtLeast(o, q, new) \in 1..Size
<1>1. o \in DOMAIN active => active[o] \in 1..Size
  BY PartialIs DEF Reservations
<1> QED
  BY <1>1 DEF AtLeast, Larger

\* A listing gives saved orders back what they reserve.
LEMMA RestoreSafe ==
  ASSUME Typed, Restore
  PROVE  active' \in Reservations /\ DOMAIN active \subseteq DOMAIN active'
<1> DEFINE saved == DOMAIN engine.seen \cap DOMAIN managed
           h == [o \in saved |-> AtLeast(o, managed[o], managed[o])]
           k == [o \in DOMAIN engine.seen |-> Size]
<1>0. active \in Reservations /\ managed \in Reservations /\ engine.seen \in Lists
  BY DEF Typed, EngineType
<1>1. active' = Over(h, active) \/ active' = Over(k, active)
  BY DEF Restore
<1>2. saved \in SUBSET Orders /\ DOMAIN engine.seen \in SUBSET Orders
  BY <1>0, PartialIs DEF Reservations, Lists
<1>3. \A o \in saved : o \in Orders /\ managed[o] \in 1..Size
  BY <1>0, <1>2, PartialIs DEF Reservations
<1>4. h \in [saved -> 1..Size]
  BY <1>0, <1>3, AtLeastTyped
<1>5. k \in [DOMAIN engine.seen -> 1..Size]
  BY OrderAssumption
<1> HIDE DEF saved, h, k
<1>6. h \in Reservations /\ k \in Reservations
  BY <1>2, <1>4, <1>5, WrittenTyped DEF Reservations
<1> QED
  BY <1>0, <1>1, <1>6, OverSafe

\* A listed order reserves what the listing leaves of it, or more.
LEMMA RefreshSafe ==
  ASSUME Typed, Refresh
  PROVE  /\ active' \in Reservations
         /\ DOMAIN active \cup DOMAIN engine.seen \subseteq DOMAIN active'
<1>0. active \in Reservations /\ engine.seen \in Lists
  BY DEF Typed, EngineType
<1>1. PICK fresh \in BOOLEAN :
        active' = Over([o \in DOMAIN engine.seen |->
                         IF fresh THEN Remaining(o)
                         ELSE AtLeast(o, Remaining(o), Size)], active)
  BY OutcomeTyped DEF Refresh
<1> DEFINE h == [o \in DOMAIN engine.seen |->
                  IF fresh THEN Remaining(o) ELSE AtLeast(o, Remaining(o), Size)]
<1> DEFINE T == 0..(Size - 1)
<1>2. /\ DOMAIN engine.seen \in SUBSET Orders
      /\ \A o \in DOMAIN engine.seen : engine.seen[o] \in T
  <2>1. engine.seen \in PartialFunctions(Orders, T)
    BY <1>0 DEF Lists
  <2> HIDE DEF T
  <2> QED
    BY <2>1, PartialIs
<1>3. \A o \in DOMAIN engine.seen : o \in Orders /\ Remaining(o) \in 1..Size
  BY <1>2, OrderAssumption DEF Remaining
<1>4. Size \in 1..Size
  BY OrderAssumption
<1>5. h \in [DOMAIN engine.seen -> 1..Size]
  BY <1>0, <1>3, <1>4, AtLeastTyped
<1>6. active' = Over(h, active) /\ DOMAIN h = DOMAIN engine.seen
  BY <1>1
<1> HIDE DEF h
<1>7. h \in Reservations
  BY <1>2, <1>5, WrittenTyped DEF Reservations
<1> QED
  BY <1>0, <1>6, <1>7, OverSafe

\* While the process lives the memory drops only what is settled.
LEMMA ActiveStep ==
  ASSUME Typed, ExInv, EngineInv, LedgerInv, [Next]_vars
  PROVE  /\ active' \in Reservations
         /\ \/ Crash \/ Start
            \/ \A p \in DOMAIN active \ DOMAIN active' : ~Unsettled(p)'
<1> DEFINE Goal == /\ active' \in Reservations
                   /\ \A p \in DOMAIN active \ DOMAIN active' : ~Unsettled(p)'
<1>0. active \in Reservations /\ managed \in Reservations
  BY DEF Typed
<1>1. CASE UNCHANGED active
  BY <1>0, <1>1
<1>2. ASSUME NEW q \in 1..Size, engine.order \in Orders,
             active' = Put(active, engine.order, q)
      PROVE  Goal
  BY <1>0, <1>2, PutSafe
<1>3. Size \in 1..Size
  BY OrderAssumption
<1>4. CASE Answered
  <2>1. engine.order \in Orders /\ active' = Put(active, engine.order, Size)
    BY <1>4 DEF Answered, EngineInv, At, OnAnOrder
  <2> QED
    BY <1>2, <1>3, <2>1
<1>5. CASE Query
  <2>1. engine.order \in Orders /\ active' = Put(active, engine.order, Size)
    BY <1>5 DEF Query, ReservesUnknown, EngineInv, At, OnAnOrder
  <2> QED
    BY <1>2, <1>3, <2>1
<1>6. CASE AdoptPartial
  <2>1. PICK q \in 1..Size : active' \in {active, Put(active, engine.order, q)}
    BY <1>6, AdoptTyped
  <2>2. engine.order \in Orders
    BY <1>6 DEF AdoptPartial, EngineInv, At, OnAnOrder
  <2> QED
    BY <1>1, <1>2, <2>1, <2>2
<1>7. CASE Remove
  <2>1. PICK o \in Orders : /\ Ended(o) /\ ex[o].done = 0 /\ UNCHANGED ex
                           /\ active' \in {active, Drop(active, o)}
    BY <1>7 DEF Remove, outside, EngineInv, At, OnAnOrder
  <2>2. ~Unsettled(o)'
    BY <2>1, EndedSettled
  <2> QED
    BY <1>0, <1>1, <2>1, <2>2, DropSafe
<1>8. CASE CommitFill
  <2>1. engine.order \in Orders /\ Ended(engine.order)
    BY <1>8 DEF CommitFill, EngineInv, At, OnAnOrder
  <2> QED
    BY <1>8, <2>1, CommitSafe DEF CommitFill
<1>9. CASE Restore
  BY <1>9, RestoreSafe
<1>10. CASE Refresh
  BY <1>10, RefreshSafe
<1>11. CASE LoadManaged
  <2>1. active' = active \/ active' = Over(active, managed)
    BY <1>11 DEF LoadManaged, RestoredAll
  <2> QED
    BY <1>0, <1>1, <2>1, OverSafe
<1>12. CASE Crash
  <2>1. active' = Empty
    BY <1>12 DEF Crash
  <2> QED
    BY <1>12, <2>1, EmptyTyped DEF Reservations
<1>13. CASE Start
  <2>1. active' = active \/ active' = managed
    BY <1>13 DEF Start
  <2> QED
    BY <1>0, <1>13, <2>1
<1> QED
  BY <1>1, <1>4, <1>5, <1>6, <1>7, <1>8, <1>9, <1>10, <1>11, <1>12, <1>13,
     SettleSafe, LookupSafe, ActiveWritten

-----------------------------------------------------------------------------
(* Where the engine goes.                                                   *)

\* The engine is idle to everything but its own steps, a crash and its user.
LEMMA EngineWritten ==
  ASSUME [Next]_vars
  PROVE  \/ /\ UNCHANGED <<engine, active, managed>>
            /\ UNCHANGED ex \/ \E o \in Orders : Market(o)
         \/ Place \/ Settling \/ Tick \/ Sync \/ BeginCancel \/ Cancel \/ Start
         \/ StartAccount \/ Crash \/ Pause \/ Resume
         \/ \E o \in Orders : CancelOrder(o)
<1>1. CASE UNCHANGED vars
  BY <1>1 DEF vars, bot
<1>2. CASE ClearHistory
  BY <1>2 DEF ClearHistory, bot
<1>3. ASSUME NEW o \in Orders, Market(o)
      PROVE  UNCHANGED <<engine, active, managed>>
  BY <1>3 DEF Market, Accept, Refuse, Fill, Expire, Age, Exchange, bot
<1> QED
  BY <1>1, <1>2, <1>3 DEF Next, Env

\* What the records the engine goes on with say.
LEMMA EngineFields ==
  ASSUME engine \in EngineType
  PROVE  /\ NoWork.pc = "idle" /\ NoWork.ended = {}
         /\ \A pc : /\ Step(pc).pc = pc
                    /\ Step(pc).order = engine.order
                    /\ Step(pc).seen = engine.seen
                    /\ Step(pc).ended = engine.ended
                    /\ Step(pc).purpose = engine.purpose
                    /\ Step(pc).bad = engine.bad
         /\ \A pc, o : /\ OnOrder(pc, o).pc = pc
                       /\ OnOrder(pc, o).order = o
                       /\ OnOrder(pc, o).ended = {}
         /\ \A keep : CancelAll(keep).pc = "load" /\ CancelAll(keep).ended = {}
         /\ \A purpose : /\ SyncOrders(purpose).pc = "list"
                         /\ SyncOrders(purpose).purpose = purpose
                         /\ SyncOrders(purpose).ended = {}
         /\ \A e \in EngineType : /\ Halted(e).pc = e.pc
                                  /\ Halted(e).order = e.order
                                  /\ Halted(e).seen = e.seen
                                  /\ Halted(e).ended = e.ended
                                  /\ Halted(e).purpose = e.purpose
                                  /\ Halted(e).bad = e.bad
<1>1. NoWork.pc = "idle" /\ NoWork.ended = {}
  BY DEF NoWork
<1>2. \A pc : /\ Step(pc).pc = pc
              /\ Step(pc).order = engine.order
              /\ Step(pc).seen = engine.seen
              /\ Step(pc).ended = engine.ended
              /\ Step(pc).purpose = engine.purpose
              /\ Step(pc).bad = engine.bad
  BY DEF Step, EngineType
<1>3. \A pc, o : /\ OnOrder(pc, o).pc = pc
                 /\ OnOrder(pc, o).order = o
                 /\ OnOrder(pc, o).ended = {}
  BY DEF OnOrder, NoWork
<1>4. \A keep : CancelAll(keep).pc = "load" /\ CancelAll(keep).ended = {}
  BY DEF CancelAll, NoWork
<1>5. \A purpose : /\ SyncOrders(purpose).pc = "list"
                   /\ SyncOrders(purpose).purpose = purpose
                   /\ SyncOrders(purpose).ended = {}
  BY DEF SyncOrders, NoWork
<1>6. \A e \in EngineType : /\ Halted(e).pc = e.pc
                            /\ Halted(e).order = e.order
                            /\ Halted(e).seen = e.seen
                            /\ Halted(e).ended = e.ended
                            /\ Halted(e).purpose = e.purpose
                            /\ Halted(e).bad = e.bad
  BY DEF Halted, EngineType
<1> QED
  BY <1>1, <1>2, <1>3, <1>4, <1>5, <1>6

\* Only a complete cancellation whose sync leaves nothing goes on to forget.
LEMMA EndsAt ==
  ASSUME engine \in EngineType, NEW ok, NEW left, SyncEnds(ok, left)
  PROVE  /\ engine'.pc \in {"idle", "account", "load", "clear"}
         /\ engine'.ended \subseteq engine.ended
         /\ engine'.pc = "clear" => engine.purpose = "cancel" /\ ok /\ left = Empty
<1>1. engine.purpose \in Purposes
  BY DEF EngineType
<1>2. CASE engine.purpose = "tick"
  BY <1>2, EngineFields DEF SyncEnds, AfterTick
<1>3. CASE engine.purpose = "boot"
  <2>1. engine' \in {NoWork, CancelAll(FALSE)}
    BY <1>3 DEF SyncEnds, AfterBoot
  <2>2. CancelAll(FALSE).pc = "load" /\ CancelAll(FALSE).ended = {}
    BY DEF CancelAll, NoWork
  <2> QED
    BY <2>1, <2>2, EngineFields
<1>4. CASE engine.purpose = "cancel"
  BY <1>4, EngineFields DEF SyncEnds, AfterCancel
<1> QED
  BY <1>1, <1>2, <1>3, <1>4 DEF Purposes


\* Changing one field leaves the others.
LEMMA FieldsChanged ==
  ASSUME NEW e \in EngineType
  PROVE  /\ \A l \in Lists : LET f == [e EXCEPT !.seen = l] IN
              /\ f \in EngineType /\ f.seen = l
              /\ f.pc = e.pc /\ f.ended = e.ended /\ f.order = e.order
              /\ f.purpose = e.purpose /\ f.bad = e.bad
         /\ \A S \in SUBSET Orders : LET f == [e EXCEPT !.todo = S] IN
              /\ f \in EngineType
              /\ f.pc = e.pc /\ f.ended = e.ended /\ f.order = e.order
              /\ f.purpose = e.purpose /\ f.bad = e.bad
         /\ \A S \in SUBSET Orders : LET f == [e EXCEPT !.ended = S] IN
              /\ f \in EngineType /\ f.ended = S
              /\ f.pc = e.pc /\ f.order = e.order
              /\ f.purpose = e.purpose /\ f.bad = e.bad
         /\ \A b \in BOOLEAN : LET f == [e EXCEPT !.bad = b] IN
              /\ f \in EngineType /\ f.bad = b
              /\ f.pc = e.pc /\ f.ended = e.ended /\ f.order = e.order
              /\ f.purpose = e.purpose /\ f.seen = e.seen
<1>1. \A l \in Lists : LET f == [e EXCEPT !.seen = l] IN
              /\ f \in EngineType /\ f.seen = l
              /\ f.pc = e.pc /\ f.ended = e.ended /\ f.order = e.order
              /\ f.purpose = e.purpose /\ f.bad = e.bad
  BY DEF EngineType
<1>2. \A S \in SUBSET Orders : LET f == [e EXCEPT !.todo = S] IN
              /\ f \in EngineType
              /\ f.pc = e.pc /\ f.ended = e.ended /\ f.order = e.order
              /\ f.purpose = e.purpose /\ f.bad = e.bad
  BY DEF EngineType
<1>3. \A S \in SUBSET Orders : LET f == [e EXCEPT !.ended = S] IN
              /\ f \in EngineType /\ f.ended = S
              /\ f.pc = e.pc /\ f.order = e.order
              /\ f.purpose = e.purpose /\ f.bad = e.bad
  BY DEF EngineType
<1>4. \A b \in BOOLEAN : LET f == [e EXCEPT !.bad = b] IN
              /\ f \in EngineType /\ f.bad = b
              /\ f.pc = e.pc /\ f.ended = e.ended /\ f.order = e.order
              /\ f.purpose = e.purpose /\ f.seen = e.seen
  BY DEF EngineType
<1> QED
  BY <1>1, <1>2, <1>3, <1>4

\* A step after which the engine owes no order anything new.
Quiet ==
    /\ engine'.pc \notin OnAnOrder \cup {"save", "clear"}
    /\ engine'.ended \subseteq engine.ended
    /\ Accounting' => Accounting


\* Whatever is dropped or begun afresh is quiet.
LEMMA Afresh ==
  ASSUME Typed,
         \/ engine' \in {NoWork, Halted(NoWork), OnOrder("bootAccount", "none"),
                         SyncOrders("tick"), SyncOrders("boot"),
                         [NoWork EXCEPT !.pc = "down"]}
         \/ \E keep \in BOOLEAN : engine' = CancelAll(keep)
  PROVE  Quiet /\ engine' \in EngineType
<1>0. engine \in EngineType
  BY DEF Typed
<1>1. NoWork \in EngineType
  BY <1>0, EngineMoves
<1>2. engine' \in EngineType
  <2>1. /\ Halted(NoWork) \in EngineType
        /\ OnOrder("bootAccount", "none") \in EngineType
        /\ SyncOrders("tick") \in EngineType /\ SyncOrders("boot") \in EngineType
        /\ \A keep \in BOOLEAN : CancelAll(keep) \in EngineType
    BY <1>0, <1>1, EngineMoves DEF EnginePcs, Purposes
  <2>2. [NoWork EXCEPT !.pc = "down"] \in EngineType
    BY <1>1 DEF EngineType, EnginePcs
  <2> QED
    BY <1>1, <2>1, <2>2
<1>3. /\ engine'.ended = {}
      /\ \/ engine'.pc \in {"idle", "bootAccount", "down", "load"}
         \/ engine'.pc = "list" /\ engine'.purpose \in {"tick", "boot"}
  <2>1. /\ [NoWork EXCEPT !.pc = "down"].pc = "down"
        /\ [NoWork EXCEPT !.pc = "down"].ended = {}
    BY DEF NoWork
  <2>2. /\ NoWork.pc = "idle" /\ NoWork.ended = {}
        /\ Halted(NoWork).pc = "idle" /\ Halted(NoWork).ended = {}
    BY <1>0, <1>1, EngineFields
  <2>3. \A keep \in BOOLEAN : CancelAll(keep).pc = "load" /\ CancelAll(keep).ended = {}
    BY DEF CancelAll, NoWork
  <2>4. \A o \in {"none"} : /\ OnOrder("bootAccount", o).pc = "bootAccount"
                           /\ OnOrder("bootAccount", o).ended = {}
    BY <1>0, EngineFields
  <2>5. \A purpose \in {"tick", "boot"} :
          /\ SyncOrders(purpose).pc = "list" /\ SyncOrders(purpose).ended = {}
          /\ SyncOrders(purpose).purpose = purpose
    BY <1>0, EngineFields
  <2> QED
    BY <2>1, <2>2, <2>3, <2>4, <2>5
<1> QED
  BY <1>2, <1>3 DEF Quiet, OnAnOrder, Accounting, Syncing

\* So is a sync that did not account for everything.
LEMMA QuietEnds ==
  ASSUME Typed, SyncEnds(FALSE, active) \/ SyncEnds(FALSE, active')
  PROVE  Quiet /\ engine' \in EngineType /\ running' \in BOOLEAN
<1>0. engine \in EngineType
  BY DEF Typed
<1>1. engine' \in EngineType /\ running' \in BOOLEAN
  BY EndsTyped
<1>2. /\ engine'.pc \in {"idle", "account", "load"}
      /\ engine'.ended \subseteq engine.ended
  BY <1>0, EndsAt
<1> QED
  BY <1>1, <1>2 DEF Quiet, OnAnOrder, Accounting, Syncing

\* A sync that goes on is quiet until it saves.
LEMMA Onward ==
  ASSUME engine.pc \in Syncing, engine'.purpose = engine.purpose,
         engine'.ended \subseteq engine.ended,
         engine'.pc \in {"restore", "refresh", "lookup", "settle"}
  PROVE  Quiet
BY DEF Quiet, OnAnOrder, Accounting, Syncing

\* What a listing shows, late or not, is less than the whole order.
LEMMA ListingsTyped ==
  ASSUME Typed, ExInv, NEW l \in Listings
  PROVE  l \in Lists
<1> DEFINE T == 0..(Size - 1)
<1>0. ex \in ExType
  BY DEF Typed
<1>1. Open \subseteq Orders /\ \A o \in Open : ex[o].done \in T
  BY <1>0, OrderAssumption DEF Open, ExInv, ExType
<1> HIDE DEF T
<1>2. Listed \in PartialFunctions(Orders, T)
  <2>1. Listed \in [Open -> T]
    BY <1>1 DEF Listed
  <2> QED
    BY <1>1, <2>1, WrittenTyped
<1>3. l \in {Listed} \cup Lagging
  BY DEF Listings
<1>4. ASSUME NEW o \in Open, l = Drop(Listed, o)
      PROVE  l \in PartialFunctions(Orders, T)
  BY <1>2, <1>4, DropTyped
<1>5. ASSUME NEW o \in Orders, NEW d \in T, l = Put(Listed, o, d)
      PROVE  l \in PartialFunctions(Orders, T)
  BY <1>2, <1>5, PutTyped
<1>6. \/ l = Listed
      \/ \E o \in Open : l = Drop(Listed, o)
      \/ \E o \in Orders, d \in T : l = Put(Listed, o, d)
  BY <1>3 DEF Lagging, T
<1>7. l \in PartialFunctions(Orders, T)
  BY <1>2, <1>4, <1>5, <1>6
<1> QED
  BY <1>7 DEF T, Lists

\* The steps that leave the engine without a new duty to an order.
LEMMA QuietSteps ==
  ASSUME Typed, ExInv,
         \/ Withdraw \/ Rejected \/ Query \/ AdoptPartial \/ Remove \/ CommitFill
         \/ Tick \/ List \/ Restore \/ Save \/ LookupsDone \/ Settle
         \/ SyncAccount \/ BeginCancel \/ CancelList \/ CancelEach
         \/ CancelsConfirmed \/ Clear \/ Start \/ StartAccount \/ Crash \/ Resume
  PROVE  Quiet /\ engine' \in EngineType
<1> DEFINE Goal == Quiet /\ engine' \in EngineType
<1>0. engine \in EngineType
  BY DEF Typed
<1>1. CASE Withdraw \/ Rejected \/ Query \/ AdoptPartial \/ Remove \/ SyncAccount
           \/ Clear
  <2>1. engine' = NoWork
    BY <1>1 DEF Withdraw, Rejected, Query, AdoptPartial, Remove, SyncAccount, Clear
  <2> QED
    BY <2>1, Afresh
<1>2. CASE CommitFill
  <2>1. engine' \in {NoWork, Halted(NoWork)}
    BY <1>2, CommitEnds DEF CommitFill, Commits, Keeps
  <2> QED
    BY <2>1, Afresh
<1>3. CASE Tick \/ Resume \/ StartAccount
  <2>1. engine' \in {SyncOrders("tick"), SyncOrders("boot"), CancelAll(FALSE)}
    BY <1>3 DEF Tick, Resume, StartAccount
  <2> QED
    BY <2>1, Afresh
<1>4. CASE Start \/ Crash
  <2>1. engine' \in {OnOrder("bootAccount", "none"), CancelAll(FALSE),
                     [NoWork EXCEPT !.pc = "down"]}
    BY <1>4 DEF Start, Crash
  <2> QED
    BY <2>1, Afresh
<1>5. CASE BeginCancel
  <2>1. engine' = CancelAll(running) /\ running \in BOOLEAN
    BY <1>5 DEF BeginCancel, Typed
  <2> QED
    BY <2>1, Afresh
<1>6. ASSUME NEW pc \in {"restore", "refresh", "lookup", "settle"},
             engine.pc \in Syncing, engine' = Step(pc)
      PROVE  Goal
  <2>1. Step(pc) \in EngineType
    BY <1>0, EngineMoves DEF EnginePcs
  <2>2. /\ engine'.pc = pc /\ engine'.purpose = engine.purpose
        /\ engine'.ended = engine.ended
    BY <1>0, <1>6, EngineFields
  <2> QED
    BY <1>6, <2>1, <2>2, Onward
<1>7. CASE List
  <2>1. ASSUME NEW l \in Listings, engine' = [Step("restore") EXCEPT !.seen = l]
        PROVE  Goal
    <3>1. Step("restore") \in EngineType /\ l \in Lists
      BY <1>0, EngineMoves, ListingsTyped DEF EnginePcs
    <3>2. /\ engine' \in EngineType /\ engine'.pc = "restore"
          /\ engine'.ended = engine.ended /\ engine'.purpose = engine.purpose
      BY <1>0, <2>1, <3>1, FieldsChanged, EngineFields
    <3>3. engine.pc \in Syncing
      BY <1>7 DEF List, At, Syncing
    <3> QED
      BY <3>2, <3>3, Onward
  <2>2. \/ \E l \in Listings : engine' = [Step("restore") EXCEPT !.seen = l]
        \/ SyncEnds(FALSE, active)
    BY <1>7 DEF List
  <2> QED
    BY <2>1, <2>2, QuietEnds
<1>8. CASE Restore
  <2>1. engine.pc \in Syncing
    BY <1>8 DEF Restore, At, Syncing
  <2>2. engine' = Step("refresh") \/ SyncEnds(FALSE, active')
    BY <1>8 DEF Restore
  <2> QED
    BY <1>6, <2>1, <2>2, QuietEnds
<1>9. CASE Save
  <2>1. CASE engine' = [Step("lookup") EXCEPT !.todo = DOMAIN active \ DOMAIN engine.seen]
    <3>1. Step("lookup") \in EngineType
      BY <1>0, EngineMoves DEF EnginePcs
    <3>2. DOMAIN active \ DOMAIN engine.seen \in SUBSET Orders
      BY PartialIs DEF Typed, Reservations
    <3>3. /\ engine' \in EngineType /\ engine'.pc = "lookup"
          /\ engine'.ended = engine.ended /\ engine'.purpose = engine.purpose
      BY <1>0, <2>1, <3>1, <3>2, FieldsChanged, EngineFields
    <3>4. engine.pc \in Syncing
      BY <1>9 DEF Save, At, Syncing
    <3> QED
      BY <3>3, <3>4, Onward
  <2>2. \/ engine' = [Step("lookup") EXCEPT !.todo = DOMAIN active \ DOMAIN engine.seen]
        \/ SyncEnds(FALSE, active)
    BY <1>9 DEF Save
  <2> QED
    BY <2>1, <2>2, QuietEnds
<1>10. CASE LookupsDone
  <2>1. engine.pc \in Syncing
    BY <1>10 DEF LookupsDone, At, Syncing
  <2>2. engine' = Step("settle") \/ SyncEnds(FALSE, active)
    BY <1>10 DEF LookupsDone
  <2> QED
    BY <1>6, <2>1, <2>2, QuietEnds
<1>11. CASE Settle
  <2>1. PICK o \in engine.ended :
          LET rest == [engine EXCEPT !.ended = @ \ {o}]
              failed == [rest EXCEPT !.bad = TRUE]
          IN engine' \in {rest, failed, Halted(failed)}
    <3>1. PICK o \in engine.ended :
            LET rest == [engine EXCEPT !.ended = @ \ {o}]
                failed == [rest EXCEPT !.bad = TRUE]
            IN \/ CommitOrder(o, rest, failed)
               \/ engine' \in {rest, failed}
      BY <1>11 DEF Settle
    <3> QED
      BY <3>1, CommitEnds DEF Commits, Keeps
  <2> DEFINE rest == [engine EXCEPT !.ended = engine.ended \ {o}]
             failed == [rest EXCEPT !.bad = TRUE]
  <2>2. engine' \in {rest, failed, Halted(failed)}
    BY <2>1
  <2>3. /\ rest \in EngineType /\ rest.pc = engine.pc
        /\ rest.ended = engine.ended \ {o} /\ rest.purpose = engine.purpose
    BY <1>0 DEF EngineType
  <2> HIDE DEF rest
  <2>4. /\ failed \in EngineType /\ failed.pc = rest.pc
        /\ failed.ended = rest.ended /\ failed.purpose = rest.purpose
    BY <2>3 DEF EngineType
  <2> HIDE DEF failed
  <2>5. /\ engine' \in EngineType /\ engine'.pc = engine.pc
        /\ engine'.ended \subseteq engine.ended
        /\ engine'.purpose = engine.purpose
    BY <1>0, <2>2, <2>3, <2>4, EngineFields, EngineMoves
  <2>6. engine.pc = "settle"
    BY <1>11 DEF Settle, At
  <2> QED
    BY <2>5, <2>6, Onward DEF Syncing
<1>12. ASSUME engine.pc \in {"cancelList", "cancelEach"}, engine' \in EngineType,
              engine'.pc = "cancelEach", engine'.ended = engine.ended,
              engine.bad => engine'.bad
       PROVE  Goal
  BY <1>12 DEF Quiet, OnAnOrder, Accounting, Syncing
<1>13. CASE CancelList
  <2>1. CASE engine' = NoWork
    BY <2>1, Afresh
  <2>2. ASSUME NEW l \in Listings,
               engine' = [Step("cancelEach") EXCEPT !.todo = DOMAIN l]
        PROVE  Goal
    <3>1. Step("cancelEach") \in EngineType /\ DOMAIN l \in SUBSET Orders
      BY <1>0, EngineMoves, ListingsTyped, PartialIs DEF EnginePcs, Lists
    <3>2. /\ engine' \in EngineType /\ engine'.pc = "cancelEach"
          /\ engine'.ended = engine.ended /\ engine'.bad = engine.bad
      BY <1>0, <2>2, <3>1, FieldsChanged, EngineFields
    <3> QED
      BY <1>12, <1>13, <3>2 DEF CancelList, At
  <2> QED
    BY <1>13, <2>1, <2>2 DEF CancelList
<1>14. CASE CancelEach
  <2>1. PICK o \in engine.todo :
          LET rest == [engine EXCEPT !.todo = @ \ {o}]
          IN engine' \in {rest, Halted([rest EXCEPT !.bad = TRUE])}
    BY <1>14 DEF CancelEach
  <2> DEFINE rest == [engine EXCEPT !.todo = engine.todo \ {o}]
             failed == [rest EXCEPT !.bad = TRUE]
  <2>2. engine' \in {rest, Halted(failed)}
    BY <2>1
  <2>3. /\ rest \in EngineType /\ rest.pc = engine.pc
        /\ rest.ended = engine.ended /\ rest.bad = engine.bad
    BY <1>0 DEF EngineType
  <2> HIDE DEF rest
  <2>4. /\ failed \in EngineType /\ failed.pc = rest.pc
        /\ failed.ended = rest.ended /\ failed.bad
    BY <2>3 DEF EngineType
  <2> HIDE DEF failed
  <2>5. /\ engine' \in EngineType /\ engine'.pc = engine.pc
        /\ engine'.ended = engine.ended
        /\ engine.bad => engine'.bad
    BY <1>0, <2>2, <2>3, <2>4, EngineFields, EngineMoves
  <2> QED
    BY <1>12, <1>14, <2>5 DEF CancelEach, At
<1>15. CASE CancelsConfirmed
  <2>1. CASE engine.bad
    BY <1>15, <2>1, Afresh DEF CancelsConfirmed
  <2>2. CASE ~engine.bad
    <3>1. SyncOrders("cancel") \in EngineType
      BY <1>0, EngineMoves DEF Purposes
    <3>2. engine' = SyncOrders("cancel") /\ At("cancelEach")
      BY <1>15, <2>2 DEF CancelsConfirmed
    <3>3. engine'.pc = "list" /\ engine'.ended = {}
      BY <1>0, <3>2, EngineFields
    <3> QED
      BY <2>2, <3>1, <3>2, <3>3 DEF Quiet, OnAnOrder, Accounting, At
  <2> QED
    BY <2>1, <2>2
<1> QED
  BY <1>1, <1>2, <1>3, <1>4, <1>5, <1>7, <1>8, <1>9, <1>10, <1>11, <1>13,
     <1>14, <1>15

\* What a step does to what the engine must account for.
Dutiful ==
    /\ engine' \in EngineType
    /\ EngineInv'
    /\ Accounting' => Accounting \/ (LoadManaged /\ active' = RestoredAll)
    /\ At("clear")' => \/ At("clear")
                       \/ /\ Synced /\ engine.purpose = "cancel"
                          /\ active = Empty

\* Without a new duty the engine's knowledge stays right.
LEMMA QuietIsDutiful ==
  ASSUME Typed, ExInv, EngineInv, [Next]_vars, Quiet, engine' \in EngineType
  PROVE  Dutiful
<1>1. \A p \in engine'.ended : p \in Orders /\ Ended(p) /\ ex'[p] = ex[p]
  BY ExStep DEF Quiet, EngineInv, Typed, EngineType
<1>2. EngineInv'
  BY <1>1 DEF Quiet, EngineInv, OnAnOrder, At, Ended
<1> QED
  BY <1>2 DEF Dutiful, Quiet, At

\* The market and a pause leave the engine with its duty.
LEMMA SameDuty ==
  ASSUME Typed, ExInv, EngineInv, [Next]_vars, UNCHANGED <<active, managed>>,
         UNCHANGED ex \/ (\E o \in Orders : Market(o)),
         engine' \in {engine, Halted(engine)}
  PROVE  Dutiful
<1>0. engine \in EngineType /\ ex \in ExType
  BY DEF Typed
<1>1. /\ engine' \in EngineType
      /\ engine'.pc = engine.pc /\ engine'.order = engine.order
      /\ engine'.seen = engine.seen /\ engine'.ended = engine.ended
      /\ engine'.purpose = engine.purpose /\ engine'.bad = engine.bad
  BY <1>0, EngineFields, EngineMoves
<1>2. \A p \in Orders : Ended(p) => ex'[p] = ex[p]
  BY ExStep
<1>3. \A p \in engine.ended : p \in Orders /\ Ended(p)
  BY <1>0 DEF EngineType, EngineInv
<1>4. ASSUME At("intent") PROVE ex'[engine.order].st = "unsent"
  <2>1. engine.order \in Orders /\ ex[engine.order].st = "unsent"
    BY <1>4 DEF EngineInv, At, OnAnOrder
  <2>2. ASSUME NEW p \in Orders, Market(p) PROVE ex'[engine.order].st = "unsent"
    BY <1>0, <1>4, <2>1, <2>2
       DEF Market, Accept, Refuse, Fill, Expire, Age, Exchange, ExType, At
  <2> QED
    BY <2>1, <2>2
<1>5. EngineInv'
  BY <1>1, <1>2, <1>3, <1>4 DEF EngineInv, OnAnOrder, At, Ended
<1> QED
  BY <1>1, <1>5 DEF Dutiful, Accounting, Syncing, At

\* The engine takes up an order.
LEMMA OrderDuty ==
  ASSUME Typed, ExInv, EngineInv, [Next]_vars, engine' \in EngineType,
         engine'.pc \in OnAnOrder, engine'.order \in Orders,
         engine'.ended \subseteq engine.ended,
         At("intent")' => /\ ex'[engine'.order].st = "unsent"
                          /\ engine'.order \in DOMAIN managed',
         engine'.pc \in {"partial", "adopt"} =>
            engine'.order \in DOMAIN active' /\ engine'.order \in DOMAIN engine'.seen,
         engine'.pc \in {"fill", "commit", "remove"} => Ended(engine.order)',
         At("remove")' => ex'[engine'.order].done = 0
  PROVE  Dutiful
<1>1. \A p \in engine'.ended : p \in Orders /\ Ended(p) /\ ex'[p] = ex[p]
  BY ExStep DEF EngineInv, Typed, EngineType
<1>2. /\ engine'.pc \notin Syncing \cup {"cancelList", "cancelEach", "clear", "save"}
  BY DEF Syncing, OnAnOrder
<1>3. EngineInv'
  BY <1>1, <1>2 DEF EngineInv, At, Ended
<1> QED
  BY <1>2, <1>3 DEF Dutiful, Accounting, At

\* The steps of a request.
LEMMA PlaceDuty ==
  ASSUME Typed, ExInv, EngineInv, [Next]_vars, Place
  PROVE  Dutiful
<1>0. engine \in EngineType /\ active \in Reservations /\ managed \in Reservations
  BY DEF Typed
<1>1. CASE Withdraw \/ Rejected \/ Query \/ AdoptPartial
  BY <1>1, QuietSteps, QuietIsDutiful
<1>2. CASE engine' = NoWork
  BY <1>2, Afresh, QuietIsDutiful
<1>3. ASSUME NEW o \in Orders, PlaceIntent(o) PROVE Dutiful
  <2>1. CASE engine' = engine
    <3>1. engine'.pc = "idle"
      BY <1>3, <2>1 DEF PlaceIntent, At
    <3>2. Quiet
      BY <2>1, <3>1 DEF Quiet, OnAnOrder, Accounting, Syncing
    <3> QED
      BY <1>0, <2>1, <3>2, QuietIsDutiful
  <2>2. CASE managed' = Put(managed, o, Size) /\ engine' = OnOrder("intent", o)
    <3>1. o \in DOMAIN managed'
      BY <2>2 DEF Put, Over
    <3>2. engine' \in EngineType
      BY <1>0, <2>2, EngineMoves DEF EnginePcs
    <3>3. engine'.pc = "intent" /\ engine'.order = o /\ engine'.ended = {}
      BY <1>0, <2>2, EngineFields
    <3>4. ex'[o].st = "unsent"
      BY <1>3 DEF PlaceIntent, outside
    <3> QED
      BY <3>1, <3>2, <3>3, <3>4, OrderDuty DEF OnAnOrder, At
  <2> QED
    BY <1>3, <2>1, <2>2 DEF PlaceIntent
<1>4. CASE Send \/ Unknown
  <2>1. PICK pc \in {"sent", "query"} : engine' = Step(pc)
    BY <1>4 DEF Send, Unknown
  <2>2. engine' \in EngineType
    BY <1>0, <2>1, EngineMoves DEF EnginePcs
  <2>3. engine.order \in Orders
    BY <1>4 DEF Send, Unknown, EngineInv, At, OnAnOrder
  <2>4. /\ engine'.pc = pc /\ engine'.order = engine.order
        /\ engine'.ended = engine.ended
    BY <1>0, <2>1, EngineFields
  <2> QED
    BY <2>2, <2>3, <2>4, OrderDuty DEF OnAnOrder, At
<1>5. CASE Answered
  <2> DEFINE o == engine.order
             seen == [p \in {o} |-> ex[o].done]
  <2>1. /\ o \in Orders /\ UNCHANGED ex
        /\ active' = Put(active, o, Size)
    BY <1>5 DEF Answered, outside, EngineInv, At, OnAnOrder
  <2>2. \/ engine' = NoWork
        \/ Ended(o) /\ ex[o].done = 0 /\ engine' = OnOrder("remove", o)
        \/ Ended(o) /\ engine' = OnOrder("fill", o)
        \/ ~Ended(o) /\ engine' = [OnOrder("partial", o) EXCEPT !.seen = seen]
    <3>1. PICK ok \in Outcome :
            engine' = CASE ~ok \/ (ex[o].done = 0 /\ ~Ended(o)) -> NoWork
                        [] ok /\ ex[o].done = 0 /\ Ended(o) -> OnOrder("remove", o)
                        [] ok /\ ex[o].done > 0 /\ Ended(o) -> OnOrder("fill", o)
                        [] ok /\ ex[o].done > 0 /\ ~Ended(o) ->
                             [OnOrder("partial", o) EXCEPT !.seen = seen]
      BY <1>5 DEF Answered
    <3>2. ex[o].done = 0 \/ ex[o].done > 0
      BY <2>1, OrderAssumption DEF Typed, ExType
    <3> HIDE DEF seen, o
    <3> QED
      BY <3>1, <3>2
  <2>3. ASSUME NEW pc \in {"remove", "fill"}, Ended(o), pc = "remove" => ex[o].done = 0,
               engine' = OnOrder(pc, o)
        PROVE  Dutiful
    <3>1. engine' \in EngineType
      BY <1>0, <2>1, <2>3, EngineMoves DEF EnginePcs
    <3>2. engine'.pc = pc /\ engine'.order = o /\ engine'.ended = {}
      BY <1>0, <2>3, EngineFields
    <3>3. Ended(engine.order)'
      BY <2>1, <2>3, <3>2 DEF Ended
    <3> QED
      BY <2>1, <2>3, <3>1, <3>2, <3>3, OrderDuty DEF OnAnOrder, At
  <2>4. CASE ~Ended(o) /\ engine' = [OnOrder("partial", o) EXCEPT !.seen = seen]
    <3>1. ex[o].done \in 0..(Size - 1)
      BY <1>5, <2>1, <2>4, OrderAssumption
         DEF Answered, Accepted, Ended, ExInv, Typed, ExType
    <3>2. seen \in Lists
      <4>1. {o} \in SUBSET Orders /\ seen \in [{o} -> 0..(Size - 1)]
        BY <2>1, <3>1
      <4> QED
        BY <4>1, WrittenTyped DEF Lists
    <3>3. OnOrder("partial", o) \in EngineType
      BY <1>0, <2>1, EngineMoves DEF EnginePcs
    <3>4. DOMAIN seen = {o}
      OBVIOUS
    <3> HIDE DEF seen
    <3>5. /\ engine' \in EngineType /\ engine'.seen = seen
          /\ engine'.pc = "partial" /\ engine'.order = o /\ engine'.ended = {}
      BY <1>0, <2>4, <3>2, <3>3, FieldsChanged, EngineFields
    <3>6. o \in DOMAIN active'
      BY <2>1 DEF Put, Over
    <3> QED
      BY <2>1, <3>4, <3>5, <3>6, OrderDuty DEF OnAnOrder, At
  <2> QED
    BY <1>2, <2>2, <2>3, <2>4
<1>6. CASE RefreshPartial
  <2>1. PICK b \in BOOLEAN : engine' = [Step("adopt") EXCEPT !.bad = b]
    BY <1>0, <1>6, OutcomeTyped DEF RefreshPartial, EngineType
  <2>2. Step("adopt") \in EngineType
    BY <1>0, EngineMoves DEF EnginePcs
  <2>3. /\ engine.order \in Orders /\ engine.order \in DOMAIN active
        /\ engine.order \in DOMAIN engine.seen /\ UNCHANGED active
    BY <1>6 DEF RefreshPartial, EngineInv, At, OnAnOrder
  <2>4. /\ engine' \in EngineType /\ engine'.pc = "adopt"
        /\ engine'.order = engine.order /\ engine'.seen = engine.seen
        /\ engine'.ended = engine.ended
    BY <1>0, <2>1, <2>2, FieldsChanged, EngineFields
  <2> QED
    BY <2>3, <2>4, OrderDuty DEF OnAnOrder, At
<1> QED
  BY <1>1, <1>3, <1>4, <1>5, <1>6 DEF Place


\* The steps that settle what was found to have ended.
LEMMA SettlingDuty ==
  ASSUME Typed, ExInv, EngineInv, [Next]_vars,
         Settling \/ Lookup \/ (\E o \in Orders : CancelOrder(o))
  PROVE  Dutiful
<1>0. engine \in EngineType
  BY DEF Typed
<1>1. CASE Remove \/ CommitFill
  BY <1>1, QuietSteps, QuietIsDutiful
<1>2. CASE engine' = NoWork
  BY <1>2, Afresh, QuietIsDutiful
<1>3. ASSUME NEW o \in Orders, CancelOrder(o) PROVE Dutiful
  <2>1. engine' = OnOrder("confirm", o)
    BY <1>3 DEF CancelOrder
  <2>2. engine' \in EngineType
    BY <1>0, <2>1, EngineMoves DEF EnginePcs
  <2>3. engine'.pc = "confirm" /\ engine'.order = o /\ engine'.ended = {}
    BY <1>0, <2>1, EngineFields
  <2> QED
    BY <2>2, <2>3, OrderDuty DEF OnAnOrder, At
<1>4. CASE ConfirmCanceled
  <2> DEFINE o == engine.order
  <2>1. o \in Orders /\ UNCHANGED ex
    BY <1>4 DEF ConfirmCanceled, outside, EngineInv, At, OnAnOrder
  <2>2. \/ engine' = NoWork
        \/ \E pc \in {"fill", "remove"} :
             /\ Ended(o) /\ (pc = "remove" => ex[o].done = 0)
             /\ engine' = OnOrder(pc, o)
    <3>1. PICK ok \in Outcome :
            engine' = CASE ~ok \/ ~Ended(o) -> NoWork
                        [] ok /\ Ended(o) /\ ex[o].done > 0 -> OnOrder("fill", o)
                        [] ok /\ Ended(o) /\ ex[o].done = 0 -> OnOrder("remove", o)
      BY <1>4 DEF ConfirmCanceled
    <3>2. ex[o].done = 0 \/ ex[o].done > 0
      BY <2>1, OrderAssumption DEF Typed, ExType
    <3> HIDE DEF o
    <3> QED
      BY <3>1, <3>2
  <2>3. ASSUME NEW pc \in {"fill", "remove"}, Ended(o),
               pc = "remove" => ex[o].done = 0, engine' = OnOrder(pc, o)
        PROVE  Dutiful
    <3>1. engine' \in EngineType
      BY <1>0, <2>1, <2>3, EngineMoves DEF EnginePcs
    <3>2. engine'.pc = pc /\ engine'.order = o /\ engine'.ended = {}
      BY <1>0, <2>3, EngineFields
    <3>3. Ended(engine.order)'
      BY <2>1, <2>3, <3>2 DEF Ended
    <3> QED
      BY <2>1, <2>3, <3>1, <3>2, <3>3, OrderDuty DEF OnAnOrder, At
  <2> QED
    BY <1>2, <2>2, <2>3
<1>5. CASE FillRefreshed
  <2>1. engine' = NoWork \/ engine' = Step("commit")
    BY <1>5 DEF FillRefreshed
  <2>2. ASSUME engine' = Step("commit") PROVE Dutiful
    <3>1. engine.order \in Orders /\ Ended(engine.order) /\ UNCHANGED ex
      BY <1>5 DEF FillRefreshed, outside, EngineInv, At, OnAnOrder
    <3>2. engine' \in EngineType
      BY <1>0, <2>2, EngineMoves DEF EnginePcs
    <3>3. /\ engine'.pc = "commit" /\ engine'.order = engine.order
          /\ engine'.ended = engine.ended
      BY <1>0, <2>2, EngineFields
    <3>4. Ended(engine.order)'
      BY <3>1, <3>3 DEF Ended
    <3> QED
      BY <3>1, <3>2, <3>3, <3>4, OrderDuty DEF OnAnOrder, At
  <2> QED
    BY <1>2, <2>1, <2>2
<1>6. CASE Lookup
  <2>1. PICK o \in engine.todo :
          \/ \E b \in BOOLEAN : engine' = LookedUp(o, b)
          \/ Ended(o) /\ engine' = [LookedUp(o, FALSE) EXCEPT !.ended = @ \cup {o}]
    BY <1>6, OutcomeTyped DEF Lookup, LookupAbsent, LookupUnresolved, LookupEnded
  <2>2. o \in Orders /\ UNCHANGED ex /\ engine.pc = "lookup"
    BY <1>0, <1>6 DEF EngineType, Lookup, outside, At
  <2>3. \A b \in BOOLEAN :
          /\ LookedUp(o, b) \in EngineType /\ LookedUp(o, b).pc = engine.pc
          /\ LookedUp(o, b).ended = engine.ended
          /\ LookedUp(o, b).purpose = engine.purpose
    <3> DEFINE e == [engine EXCEPT !.todo = engine.todo \ {o}]
    <3>1. /\ e \in EngineType /\ e.pc = engine.pc /\ e.ended = engine.ended
          /\ e.purpose = engine.purpose /\ e.bad = engine.bad
      BY <1>0 DEF EngineType
    <3>2. \A b : LookedUp(o, b) = [e EXCEPT !.bad = engine.bad \/ b]
      BY <1>0 DEF LookedUp, EngineType
    <3> HIDE DEF e
    <3>3. ASSUME NEW b \in BOOLEAN
          PROVE  LET f == [e EXCEPT !.bad = engine.bad \/ b] IN
                   /\ f \in EngineType /\ f.pc = e.pc /\ f.ended = e.ended
                   /\ f.purpose = e.purpose
      BY <1>0, <3>1 DEF EngineType
    <3> QED
      BY <3>1, <3>2, <3>3
  <2>4. CASE \E b \in BOOLEAN : engine' = LookedUp(o, b)
    <3>1. Quiet
      BY <2>2, <2>3, <2>4, Onward DEF Syncing
    <3> QED
      BY <2>3, <2>4, <3>1, QuietIsDutiful
  <2>5. CASE Ended(o) /\ engine' = [LookedUp(o, FALSE) EXCEPT !.ended = @ \cup {o}]
    <3> DEFINE e == LookedUp(o, FALSE)
    <3>1. /\ e \in EngineType /\ e.pc = "lookup" /\ e.ended = engine.ended
          /\ e.purpose = engine.purpose
      BY <2>2, <2>3
    <3> HIDE DEF e
    <3>2. engine' = [e EXCEPT !.ended = e.ended \cup {o}]
      BY <2>5 DEF e
    <3>3. e.ended \cup {o} \in SUBSET Orders
      BY <2>2, <3>1 DEF EngineType
    <3>4. /\ engine' \in EngineType /\ engine'.pc = "lookup"
          /\ engine'.ended = engine.ended \cup {o}
          /\ engine'.purpose = engine.purpose
      BY <3>1, <3>2, <3>3, FieldsChanged
    <3>5. EngineInv'
      BY <2>2, <2>5, <3>4 DEF EngineInv, OnAnOrder, At, Ended
    <3> QED
      BY <2>2, <3>4, <3>5 DEF Dutiful, Accounting, Syncing, At
  <2> QED
    BY <2>1, <2>4, <2>5
<1> QED
  BY <1>1, <1>3, <1>4, <1>5, <1>6 DEF Settling

\* The steps of a sync and of a cancellation.
LEMMA SyncDuty ==
  ASSUME Typed, ExInv, EngineInv, [Next]_vars, Sync \/ Cancel
  PROVE  Dutiful
<1>0. engine \in EngineType
  BY DEF Typed
<1>1. CASE \/ List \/ Restore \/ Save \/ LookupsDone \/ Settle \/ SyncAccount
           \/ CancelList \/ CancelEach \/ CancelsConfirmed \/ Clear
  BY <1>1, QuietSteps, QuietIsDutiful
<1>2. CASE Lookup
  BY <1>2, SettlingDuty
<1>3. CASE Refresh
  <2>1. PICK b \in BOOLEAN : engine' = [Step("save") EXCEPT !.bad = b]
    BY <1>3, OutcomeTyped DEF Refresh
  <2>2. Step("save") \in EngineType
    BY <1>0, EngineMoves DEF EnginePcs
  <2>3. /\ engine' \in EngineType /\ engine'.pc = "save"
        /\ engine'.seen = engine.seen /\ engine'.ended = engine.ended
        /\ engine'.purpose = engine.purpose
    BY <1>0, <2>1, <2>2, FieldsChanged, EngineFields
  <2>4. DOMAIN engine.seen \subseteq DOMAIN active'
    BY <1>3, RefreshSafe
  <2>5. engine.pc = "refresh" /\ UNCHANGED ex
    BY <1>3 DEF Refresh, At, outside
  <2>6. EngineInv'
    BY <2>3, <2>4, <2>5 DEF EngineInv, OnAnOrder, At, Ended
  <2> QED
    BY <2>3, <2>5, <2>6 DEF Dutiful, Accounting, Syncing, At
<1>4. CASE Synced
  <2>1. PICK ok \in BOOLEAN : SyncEnds(ok, active)
    BY <1>0, <1>4 DEF Synced, EngineType
  <2>2. /\ engine'.pc \in {"idle", "account", "load", "clear"}
        /\ engine'.ended \subseteq engine.ended
        /\ engine'.pc = "clear" => engine.purpose = "cancel" /\ active = Empty
    BY <1>0, <2>1, EndsAt
  <2>3. engine' \in EngineType
    BY <2>1, EndsTyped
  <2>4. UNCHANGED ex
    BY <1>4 DEF Synced, outside
  <2>5. EngineInv'
    BY <2>2, <2>4 DEF EngineInv, OnAnOrder, At, Ended
  <2> QED
    BY <1>4, <2>2, <2>3, <2>5 DEF Dutiful, Accounting, Syncing, At
<1>5. CASE LoadManaged
  <2>1. \/ engine' = Step("cancelList") /\ active' = RestoredAll
        \/ engine' = Halted([Step("cancelList") EXCEPT !.bad = TRUE])
    BY <1>5 DEF LoadManaged
  <2> DEFINE e == Step("cancelList")
  <2>2. e \in EngineType /\ e.pc = "cancelList" /\ e.ended = engine.ended
    BY <1>0, EngineMoves, EngineFields DEF EnginePcs
  <2> HIDE DEF e
  <2> DEFINE failed == [e EXCEPT !.bad = TRUE]
  <2>3. /\ failed \in EngineType /\ failed.pc = "cancelList"
        /\ failed.ended = engine.ended /\ failed.bad
    BY <2>2 DEF EngineType
  <2>4. /\ engine' \in EngineType /\ engine'.pc = "cancelList"
        /\ engine'.ended = engine.ended
        /\ engine'.bad \/ active' = RestoredAll
    <3>1. \/ engine' = e /\ active' = RestoredAll
          \/ engine' = Halted(failed)
      BY <2>1 DEF e
    <3> HIDE DEF failed
    <3> QED
      BY <1>0, <2>2, <2>3, <3>1, EngineMoves, EngineFields
  <2>5. UNCHANGED ex
    BY <1>5 DEF LoadManaged, outside
  <2>6. EngineInv'
    BY <2>4, <2>5 DEF EngineInv, OnAnOrder, At, Ended
  <2> QED
    BY <1>5, <2>4, <2>6 DEF Dutiful, Accounting, Syncing, At
<1> QED
  BY <1>1, <1>2, <1>3, <1>4, <1>5 DEF Sync, Cancel

\* Every step keeps what the engine must account for.
LEMMA EngineStep ==
  ASSUME Typed, ExInv, EngineInv, [Next]_vars
  PROVE  Dutiful
<1>1. CASE /\ UNCHANGED <<engine, active, managed>>
           /\ UNCHANGED ex \/ \E o \in Orders : Market(o)
  BY <1>1, SameDuty
<1>2. CASE Pause
  BY <1>2, SameDuty DEF Pause
<1>3. CASE Tick \/ BeginCancel \/ Start \/ StartAccount \/ Crash \/ Resume
  BY <1>3, QuietSteps, QuietIsDutiful
<1> QED
  BY <1>1, <1>2, <1>3, PlaceDuty, SettlingDuty, SyncDuty, EngineWritten

-----------------------------------------------------------------------------
(* What is accounted for, and what is saved.                                *)

\* A cancellation goes on to forget only when nothing is left unsettled.
LEMMA CancelStep ==
  ASSUME Typed, ExInv, EngineInv, LedgerInv, CancelInv, NothingForgotten,
         [Next]_vars
  PROVE  CancelInv'
<1>0. Dutiful
  BY EngineStep
<1>1. ASSUME NEW o \in Orders, Unsettled(o)', engine.pc # "intent"
      PROVE  Unsettled(o)
  BY <1>1, UnsettledStep DEF Send, At
<1>2. ASSUME Accounting', NEW o \in Orders, Unsettled(o)' PROVE o \in DOMAIN active'
  <2>1. CASE Accounting
    <3>1. engine.pc \notin {"intent", "down"}
      BY <2>1 DEF Accounting, Syncing
    <3>2. o \in DOMAIN active
      BY <1>1, <1>2, <2>1, <3>1 DEF CancelInv
    <3>3. ~Start /\ ~Crash
      <4>1. ~Start
        BY <3>1 DEF Start, At
      <4>2. [NoWork EXCEPT !.pc = "down"].pc = "down"
        BY DEF NoWork
      <4> QED
        BY <1>2, <4>1, <4>2 DEF Crash, Accounting, Syncing
    <3> QED
      BY <1>2, <3>2, <3>3, ActiveStep
  <2>2. CASE LoadManaged /\ active' = RestoredAll
    <3>1. o \in DOMAIN managed
      BY <1>1, <1>2, <2>2 DEF LoadManaged, At, NothingForgotten
    <3> QED
      BY <2>2, <3>1 DEF RestoredAll, Over
  <2> QED
    BY <1>0, <1>2, <2>1, <2>2 DEF Dutiful
<1>3. ASSUME At("clear")', NEW o \in Orders, Unsettled(o)' PROVE FALSE
  <2>1. CASE At("clear")
    BY <1>1, <1>3, <2>1 DEF CancelInv, At
  <2>2. CASE Synced /\ engine.purpose = "cancel" /\ active = Empty
    <3>1. Accounting /\ engine.pc # "intent"
      BY <2>2 DEF Synced, At, Accounting, Syncing
    <3>2. o \in DOMAIN Empty
      BY <1>1, <1>3, <2>2, <3>1 DEF CancelInv
    <3> QED
      BY <3>2 DEF Empty
  <2> QED
    BY <1>0, <1>3, <2>1, <2>2 DEF Dutiful
<1> QED
  BY <1>2, <1>3 DEF CancelInv

\* What may still be executed or booked stays in the database.
LEMMA ForgottenStep ==
  ASSUME Typed, ExInv, EngineInv, LedgerInv, CancelInv, NothingForgotten,
         [Next]_vars
  PROVE  NothingForgotten'
<1> SUFFICES ASSUME NEW o \in Orders, Unsettled(o)' PROVE o \in DOMAIN managed'
  BY DEF NothingForgotten
<1>1. CASE Unsettled(o)
  BY <1>1, ManagedStep DEF NothingForgotten
<1>2. CASE Send /\ o = engine.order
  BY <1>2 DEF Send, EngineInv
<1> QED
  BY <1>1, <1>2, UnsettledStep

-----------------------------------------------------------------------------
(* The rest of the types.                                                   *)

\* No step changes what an order is meant for.
LEMMA LevelKept ==
  ASSUME [Next]_vars
  PROVE  UNCHANGED level
BY DEF Next, vars, outside, bot, Place, PlaceIntent, Send, Withdraw, Answered,
       Rejected, Unknown, Query, RefreshPartial, AdoptPartial, CancelOrder,
       Settling, ConfirmCanceled, Remove, FillRefreshed, CommitFill, Tick, Sync,
       List, Restore, Refresh, Save, Lookup, LookupsDone, Settle, Synced,
       SyncAccount, BeginCancel, Cancel, LoadManaged, CancelList, CancelEach,
       CancelsConfirmed, Clear, Start, StartAccount, Env, Crash, Pause, Resume,
       ClearHistory, Market, Accept, Refuse, Fill, Expire, Age, Exchange

\* A call that fails, or a listing that lags, is within the bound on faults.
LEMMA FaultAllowed ==
  ASSUME Typed, NEW ok \in BOOLEAN, Spent(ok), ok \/ used.faults < MaxFaults
  PROVE  used' \in UsedType
<1>1. ok \/ FALSE \in Outcome
  BY Zenon DEF Outcome
<1> QED
  BY <1>1, SpentTyped

\* So is a listing.
LEMMA ListingSpent ==
  ASSUME Typed, NEW l \in Listings, Spent(l = Listed)
  PROVE  used' \in UsedType
<1>1. l = Listed \/ used.faults < MaxFaults
  BY DEF Listings
<1> DEFINE ok == l = Listed
<1>2. ok \in BOOLEAN /\ Spent(ok) /\ (ok \/ used.faults < MaxFaults)
  BY <1>1
<1> HIDE DEF ok
<1> QED
  BY <1>2, FaultAllowed

\* The faults, crashes and inputs stay within their bounds.
LEMMA UsedStep ==
  ASSUME Typed, [Next]_vars
  PROVE  used' \in UsedType
<1>0. used \in UsedType
  BY DEF Typed
<1>1. ASSUME NEW o \in Orders, PlaceIntent(o) PROVE used' \in UsedType
  BY <1>1, OutcomeTyped, SpentTyped DEF PlaceIntent
<1>2. ASSUME NEW o \in Orders, CancelOrder(o) PROVE used' \in UsedType
  BY <1>2, OutcomeTyped, SpentTyped DEF CancelOrder
<1>3. CASE Withdraw
  BY <1>3, OutcomeTyped, SpentTyped DEF Withdraw
<1>4. CASE Answered
  BY <1>4, OutcomeTyped, SpentTyped DEF Answered
<1>5. CASE Rejected
  BY <1>5, OutcomeTyped, SpentTyped DEF Rejected
<1>6. CASE Unknown
  BY <1>6, OutcomeTyped, SpentTyped DEF Unknown
<1>7. CASE Query
  BY <1>7, OutcomeTyped, SpentTyped DEF Query
<1>8. CASE RefreshPartial
  BY <1>8, OutcomeTyped, SpentTyped DEF RefreshPartial
<1>9. CASE AdoptPartial
  BY <1>9, OutcomeTyped, SpentTyped DEF AdoptPartial
<1>10. CASE ConfirmCanceled
  BY <1>10, OutcomeTyped, SpentTyped DEF ConfirmCanceled
<1>11. CASE Remove
  BY <1>11, OutcomeTyped, SpentTyped DEF Remove
<1>12. CASE FillRefreshed
  BY <1>12, OutcomeTyped, SpentTyped DEF FillRefreshed
<1>13. CASE Restore
  BY <1>13, OutcomeTyped, SpentTyped DEF Restore
<1>14. CASE Refresh
  BY <1>14, OutcomeTyped, SpentTyped DEF Refresh
<1>15. CASE Save
  BY <1>15, OutcomeTyped, SpentTyped DEF Save
<1>16. CASE LookupsDone
  BY <1>16, OutcomeTyped, SpentTyped DEF LookupsDone
<1>17. CASE SyncAccount
  BY <1>17, OutcomeTyped, SpentTyped DEF SyncAccount
<1>18. CASE LoadManaged
  BY <1>18, OutcomeTyped, SpentTyped DEF LoadManaged
<1>19. CASE CancelEach
  BY <1>19, OutcomeTyped, SpentTyped DEF CancelEach
<1>20. CASE Clear
  BY <1>20, OutcomeTyped, SpentTyped DEF Clear
<1>21. CASE Start
  BY <1>21, OutcomeTyped, SpentTyped DEF Start
<1>22. CASE StartAccount
  BY <1>22, OutcomeTyped, SpentTyped DEF StartAccount
<1>23. CASE List
  BY <1>23, OutcomeTyped, SpentTyped, ListingSpent DEF List
<1>24. CASE CancelList
  BY <1>24, OutcomeTyped, SpentTyped, ListingSpent DEF CancelList
<1>25. CASE CommitFill
  BY <1>25, CommitEnds DEF CommitFill
<1>26. CASE Settle
  BY <1>26, OutcomeTyped, SpentTyped, CommitEnds DEF Settle
<1>27. CASE Lookup
  <2>1. PICK o \in engine.todo :
          LookupAbsent(o) \/ LookupUnresolved(o) \/ LookupEnded(o)
    BY <1>27 DEF Lookup
  <2>2. CASE LookupAbsent(o)
    BY <2>2, OutcomeTyped, SpentTyped DEF LookupAbsent
  <2>3. CASE LookupUnresolved(o)
    <3> DEFINE ok == ~(Ended(o) \/ MayRetire(o))
    <3>1. ok \in BOOLEAN /\ Spent(ok) /\ (ok \/ FALSE \in Outcome)
      BY <2>3 DEF LookupUnresolved
    <3> HIDE DEF ok
    <3> QED
      BY <3>1, SpentTyped
  <2>4. CASE LookupEnded(o)
    BY <1>0, <2>4 DEF LookupEnded
  <2> QED
    BY <2>1, <2>2, <2>3, <2>4
<1>28. CASE BeginCancel \/ Pause \/ Resume
  <2>1. \/ UNCHANGED used
        \/ used.inputs < MaxInputs /\ used' = [used EXCEPT !.inputs = @ + 1]
    BY <1>28 DEF BeginCancel, Pause, Resume, Input
  <2> QED
    BY <1>0, <2>1, OrderAssumption DEF UsedType
<1>29. CASE Crash
  BY <1>0, <1>29, OrderAssumption DEF Crash, UsedType
<1>30. CASE UNCHANGED used
  BY <1>0, <1>30
<1> QED
  BY <1>1, <1>2, <1>3, <1>4, <1>5, <1>6, <1>7, <1>8, <1>9, <1>10, <1>11,
     <1>12, <1>13, <1>14, <1>15, <1>16, <1>17, <1>18, <1>19, <1>20, <1>21,
     <1>22, <1>23, <1>24, <1>25, <1>26, <1>27, <1>28, <1>29, <1>30
     DEF Next, vars, bot, Place, Send, Settling, Tick, Sync, Synced, Cancel,
         CancelsConfirmed, Env, ClearHistory, Market, Accept, Refuse, Fill,
         Expire, Age, Exchange

\* The flags stay flags.
LEMMA ReadyStep ==
  ASSUME Typed, [Next]_vars
  PROVE  ready' \in ReadyType
<1>0. ready \in ReadyType /\ engine.stale \in BOOLEAN /\ engine.bad \in BOOLEAN
  BY DEF Typed, EngineType
<1>1. CASE Withdraw
  BY <1>1, <1>0, OutcomeTyped DEF Withdraw, Blocked, ReadyType, Typed
<1>2. CASE Answered
  BY <1>2, <1>0, OutcomeTyped DEF Answered, ReadyType, Typed
<1>3. CASE Query
  BY <1>3, <1>0, OutcomeTyped DEF Query, ReadyType, Typed
<1>4. CASE RefreshPartial
  BY <1>4, <1>0, OutcomeTyped DEF RefreshPartial, ReadyType, Typed
<1>5. CASE AdoptPartial
  BY <1>5, <1>0, OutcomeTyped DEF AdoptPartial, ReadyType, Typed
<1>6. CASE ConfirmCanceled
  BY <1>6, <1>0, OutcomeTyped DEF ConfirmCanceled, ReadyType, Typed
<1>7. CASE Remove
  BY <1>7, <1>0, OutcomeTyped DEF Remove, ReadyType, Typed
<1>8. CASE FillRefreshed
  BY <1>8, <1>0, OutcomeTyped DEF FillRefreshed, ReadyType, Typed
<1>9. CASE Refresh
  BY <1>9, <1>0, OutcomeTyped DEF Refresh, ReadyType, Typed
<1>10. CASE LookupsDone
  BY <1>10, <1>0, OutcomeTyped DEF LookupsDone, ReadyType, Typed
<1>11. CASE SyncAccount
  BY <1>11, <1>0, OutcomeTyped DEF SyncAccount, ReadyType, Typed
<1>12. CASE StartAccount
  BY <1>12, <1>0, OutcomeTyped DEF StartAccount, ReadyType, Typed
<1>13. CASE Unknown
  BY <1>13, <1>0 DEF Unknown, ReadyType
<1>14. CASE Synced
  BY <1>14, <1>0 DEF Synced, ReadyType
<1>15. CASE List
  BY <1>15, <1>0 DEF List, Blocked, ReadyType
<1>16. CASE LoadManaged
  BY <1>16, <1>0 DEF LoadManaged, Blocked, ReadyType
<1>17. CASE Crash
  BY <1>17 DEF Crash, NotReady, ReadyType
<1>18. CASE UNCHANGED ready
  BY <1>0, <1>18
<1> QED
  BY <1>1, <1>2, <1>3, <1>4, <1>5, <1>6, <1>7, <1>8, <1>9, <1>10, <1>11,
     <1>12, <1>13, <1>14, <1>15, <1>16, <1>17, <1>18
     DEF Next, vars, bot, outside, Place, PlaceIntent, Send, Rejected, CancelOrder,
         Settling, CommitFill, Tick, Sync, Restore, Save, Lookup, Settle, Cancel,
         CancelList, CancelEach, CancelsConfirmed, Clear, BeginCancel, Start, Env,
         Pause, Resume, ClearHistory, Market, Accept, Refuse, Fill, Expire, Age,
         Exchange

\* The status stays Running or not.
LEMMA RunningStep ==
  ASSUME Typed, [Next]_vars
  PROVE  running' \in BOOLEAN
<1>0. running \in BOOLEAN
  BY DEF Typed
<1>1. ASSUME NEW o \in Orders, PlaceIntent(o) PROVE running' \in BOOLEAN
  BY <1>1, <1>0, OutcomeTyped DEF PlaceIntent
<1>2. CASE Answered
  BY <1>2, <1>0, OutcomeTyped DEF Answered
<1>3. CASE Rejected
  BY <1>3, <1>0, OutcomeTyped DEF Rejected
<1>4. CASE Query
  BY <1>4, <1>0, OutcomeTyped DEF Query
<1>5. CASE AdoptPartial
  BY <1>5, <1>0, OutcomeTyped DEF AdoptPartial
<1>6. CASE Remove
  BY <1>6, <1>0, OutcomeTyped DEF Remove
<1>7. CASE Clear
  BY <1>7, <1>0, OutcomeTyped DEF Clear
<1>8. CASE Start
  BY <1>8, <1>0, OutcomeTyped DEF Start
<1>9. CASE StartAccount
  BY <1>9, <1>0, OutcomeTyped DEF StartAccount
<1>10. CASE List
  BY <1>10, <1>0, EndsTyped DEF List
<1>11. CASE Restore
  BY <1>11, <1>0, EndsTyped DEF Restore
<1>12. CASE Save
  BY <1>12, <1>0, EndsTyped DEF Save
<1>13. CASE LookupsDone
  BY <1>13, <1>0, EndsTyped DEF LookupsDone
<1>14. CASE Synced
  BY <1>14, EndsTyped DEF Synced, Typed, EngineType
<1>15. CASE CommitFill
  BY <1>15, CommitEnds DEF CommitFill
<1>16. CASE Settle
  BY <1>16, <1>0, CommitEnds DEF Settle
<1>17. CASE BeginCancel
  BY <1>17 DEF BeginCancel
<1>18. CASE Crash
  BY <1>18 DEF Crash
<1>19. CASE Pause
  BY <1>19 DEF Pause
<1>20. CASE Resume
  BY <1>20 DEF Resume
<1>21. CASE UNCHANGED running
  BY <1>0, <1>21
<1> QED
  BY <1>1, <1>2, <1>3, <1>4, <1>5, <1>6, <1>7, <1>8, <1>9, <1>10, <1>11,
     <1>12, <1>13, <1>14, <1>15, <1>16, <1>17, <1>18, <1>19, <1>20, <1>21
     DEF Next, vars, bot, outside, Place, Send, Withdraw, Unknown, RefreshPartial,
         CancelOrder, Settling, ConfirmCanceled, FillRefreshed, Tick, Sync,
         Refresh, Lookup, SyncAccount, Cancel, LoadManaged, CancelList, CancelEach,
         CancelsConfirmed, Env, ClearHistory, Market, Accept, Refuse, Fill, Expire,
         Age, Exchange

\* A pause waits or does not.
LEMMA AskedStep ==
  ASSUME Typed, [Next]_vars
  PROVE  asked' \in BOOLEAN
<1>1. UNCHANGED asked \/ asked' \in BOOLEAN
  BY DEF Next, vars, bot, outside, Place, PlaceIntent, Send, Withdraw, Answered,
         Rejected, Unknown, Query, RefreshPartial, AdoptPartial, CancelOrder,
         Settling, ConfirmCanceled, Remove, FillRefreshed, CommitFill, Tick, Sync,
         List, Restore, Refresh, Save, Lookup, LookupsDone, Settle, Synced,
         SyncAccount, BeginCancel, Cancel, LoadManaged, CancelList, CancelEach,
         CancelsConfirmed, Clear, Start, StartAccount, Env, Crash, Pause, Resume,
         ClearHistory, Market, Accept, Refuse, Fill, Expire, Age, Exchange
<1> QED
  BY <1>1 DEF Typed

\* What was synced never runs ahead of what was executed.
LEMMA PosStep ==
  ASSUME Typed, ExInv, EngineInv, pos \in 0..Position, [Next]_vars
  PROVE  pos' \in 0..Position'
<1> DEFINE Reads == pos' \in {0, pos, Position} \cup pos..Position
<1>1. RefreshPartial => Reads
  BY DEF RefreshPartial
<1>2. FillRefreshed => Reads
  BY DEF FillRefreshed
<1>3. Refresh => Reads
  BY DEF Refresh
<1>4. LookupsDone => Reads
  BY DEF LookupsDone
<1>5. SyncAccount => Reads
  BY DEF SyncAccount
<1>6. StartAccount => Reads
  BY DEF StartAccount
<1>7. Crash => Reads
  BY DEF Crash
<1>8. UNCHANGED pos => Reads
  OBVIOUS
<1>9. Reads
  BY <1>1, <1>2, <1>3, <1>4, <1>5, <1>6, <1>7, <1>8
     DEF Next, vars, bot, outside, Place, PlaceIntent, Send, Withdraw, Answered,
         Rejected, Unknown, Query, AdoptPartial, CancelOrder, Settling,
         ConfirmCanceled, Remove, CommitFill, Tick, Sync, List, Restore, Save,
         Lookup, Settle, Synced, BeginCancel, Cancel, LoadManaged, CancelList,
         CancelEach, CancelsConfirmed, Clear, Start, Env, Pause, Resume,
         ClearHistory, Market, Accept, Refuse, Fill, Expire, Age, Exchange
<1>10. /\ Position <= Position'
        /\ Position \in Nat /\ Position' \in Nat
  <2>1. ex \in ExType /\ ex' \in ExType
    BY ExStep DEF Typed
  <2>2. \A o \in Orders : ex[o].done <= ex'[o].done
    BY ExStep
  <2> QED
    BY <2>1, <2>2, PositionGrows DEF ExType
<1> QED
  BY <1>9, <1>10

-----------------------------------------------------------------------------
(* The theorems.                                                            *)

\* The invariant holds at first,
LEMMA InitIInv ==
  ASSUME Init
  PROVE  IInv
<1>1. Typed
  <2>1. Empty \in Reservations
    BY EmptyTyped DEF Reservations
  <2>2. NoWork \in EngineType
    BY EmptyTyped DEF NoWork, EngineType, EnginePcs, Purposes, Lists
  <2>3. engine \in EngineType
    BY <2>2 DEF Init, EngineType, EnginePcs
  <2>4. ex \in ExType
    BY OrderAssumption DEF Init, ExType, ExStates
  <2>5. ledger \in LedgerType /\ ready \in ReadyType
    BY DEF Init, LedgerType, ReadyType, NotReady
  <2>6. used \in UsedType
    BY OrderAssumption DEF Init, UsedType
  <2> QED
    BY <2>1, <2>3, <2>4, <2>5, <2>6 DEF Init, Typed
<1>2. ExInv
  BY DEF Init, ExInv
<1>3. pos \in 0..Position
  <2>1. DOMAIN Executed = Orders /\ \A o \in Orders : Executed[o] \in Nat
    BY DEF Init, Executed
  <2>2. Position \in Nat
    BY <2>1, SumFunctionTotal, TotalNat, OrderAssumption DEF Position
  <2> QED
    BY <2>2 DEF Init
<1>4. engine.pc = "down" /\ engine.ended = {}
  BY DEF Init, NoWork
<1>5. EngineInv /\ CancelInv
  BY <1>4 DEF EngineInv, CancelInv, Accounting, Syncing, OnAnOrder, At
<1>6. LedgerInv
  BY DEF Init, LedgerInv, BookedOnce, Recorded
<1>7. NothingForgotten
  BY DEF Init, NothingForgotten, Unsettled, Live
<1> QED
  BY <1>1, <1>2, <1>3, <1>5, <1>6, <1>7, TypeOKIs DEF IInv

\* and every step of the engine, the exchange and the user keeps it.
LEMMA NextIInv ==
  ASSUME IInv, [Next]_vars
  PROVE  IInv'
<1>1. /\ Typed /\ pos \in 0..Position
      /\ ExInv /\ EngineInv /\ LedgerInv /\ CancelInv /\ NothingForgotten
  BY TypeOKIs DEF IInv
<1>2. ex' \in ExType /\ ExInv'
  BY <1>1, ExStep
<1>3. engine' \in EngineType /\ EngineInv'
  BY <1>1, EngineStep DEF Dutiful
<1>4. ledger' \in LedgerType /\ LedgerInv'
  BY <1>1, LedgerStep
<1>5. active' \in Reservations /\ managed' \in Reservations
  BY <1>1, ActiveStep, ManagedStep
<1>6. Typed'
  BY <1>1, <1>2, <1>3, <1>4, <1>5, LevelKept, UsedStep, ReadyStep, RunningStep,
     AskedStep DEF Typed
<1>7. TypeOK'
  <2>1. pos' \in 0..Position'
    BY <1>1, PosStep
  <2> QED
    BY <1>6, <2>1 DEF Typed, TypeOK, ExType, Reservations, Lists, LedgerType,
                      ReadyType, EngineType, UsedType
<1> QED
  BY <1>1, <1>2, <1>3, <1>4, <1>7, CancelStep, ForgottenStep DEF IInv

\* Hence it always holds.
THEOREM Invariance == Spec => []IInv
<1>1. Init => IInv
  BY InitIInv
<1>2. IInv /\ [Next]_vars => IInv'
  BY NextIInv
<1> QED
  BY <1>1, <1>2, PTL DEF Spec

\* Every variable keeps its type, and the synced position never exceeds what
\* the orders have executed.
THEOREM TypeCorrect == Spec => []TypeOK
<1>1. IInv => TypeOK
  BY DEF IInv
<1> QED
  BY <1>1, Invariance, PTL

\* However calls fail and whenever the process dies, an order that may still
\* be executed, or whose execution is not recorded, is in the database.
THEOREM Recoverable == Spec => []NothingForgotten
<1>1. IInv => NothingForgotten
  BY DEF IInv
<1> QED
  BY <1>1, Invariance, PTL

\* However often an order is seen again, its execution is booked once and
\* completely.
THEOREM BookedOnceCorrect == Spec => []BookedOnce
<1>1. IInv => BookedOnce
  BY DEF IInv, LedgerInv
<1> QED
  BY <1>1, Invariance, PTL

\* A reservation given up in memory, by neither an end nor a start.
ReleaseSettled ==
    ~Crash /\ ~Start => \A o \in Orders : Released(o) => ~Unsettled(o)'

\* While the process lives, a reservation is given up only for an order that
\* cannot be executed any more and is in the history if it was executed.
THEOREM ReleasesSettled == Spec => [][ReleaseSettled]_vars
<1>1. IInv /\ [Next]_vars => [ReleaseSettled]_vars
  <2> SUFFICES ASSUME IInv, [Next]_vars, ~Crash, ~Start, NEW o \in Orders,
                      Released(o)
               PROVE  ~Unsettled(o)'
    BY DEF ReleaseSettled
  <2>1. Typed /\ ExInv /\ EngineInv /\ LedgerInv
    BY TypeOKIs DEF IInv
  <2> QED
    BY <2>1, ActiveStep DEF Released
<1> QED
  BY <1>1, Invariance, PTL DEF Spec
=============================================================================
