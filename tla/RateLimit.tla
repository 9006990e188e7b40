------------------------------ MODULE RateLimit ------------------------------
(* The budget of requests to one exchange endpoint, shared by every client   *)
(* of the process (exchange/rate_limit.rs), and the requests of              *)
(* exchange/client.rs that ask it.                                           *)
(*                                                                           *)
(* A request is counted when it is reserved.  Its answer, which may come     *)
(* late or never, tells what the exchange counted for the address and for    *)
(* the account, by whichever application; what exceeds the own count at that *)
(* moment is taken for others' and holds for a window.  Time is a number of  *)
(* ticks, and the limits are small ones in the proportions of the code.      *)
EXTENDS Integers, SequencesExt

CONSTANTS
    Requests,        \* what is asked for: some of AllRequests
    TenSeconds, Minute,                     \* in ticks
    IpNormal, IpCritical, PnlMinute,        \* weights of a minute
    OrdersNormal10, OrdersCritical10, OrdersNormal1, OrdersCritical1,
    Limits,          \* what the exchange may publish
    Counts,          \* what its answers may tell
    Waits,           \* ticks of retry-after
    MaxFlying        \* bound: answers that are out

VARIABLES
    weight, pnl,         \* Counters of the endpoint
    orders10, orders1,   \* Counters of the account
    blocked,             \* ticks left of blocked_until
    published,           \* ip_limit, order_10s_limit, order_1m_limit; 0: none
    flying,              \* requests without an answer so far
    ghost                \* see below

counters == <<weight, pnl, orders10, orders1>>
vars == <<counters, blocked, published, flying, ghost>>

Request(class, w) == [class |-> class, weight |-> w]
\* Clock, rules, prices; the limits come with the rules.
PublicRequests ==
    {Request("Normal", 1), Request("MarketFallback", 1),
     Request("MarketFallback", 10)}
\* Orders, positions and balances; the periodic synchronization is Normal,
\* what a decision waits for is Critical, a verification is neither.
SignedRequests ==
    {Request("Normal", 1), Request("Normal", 5), Request("Critical", 1),
     Request("Critical", 5), Request("PnlReconciliation", 1),
     Request("PnlReconciliation", 5)}
OrderRequests ==
    {Request("OpeningOrder", 0), Request("ClosingOrder", 0),
     Request("Critical", 1)}   \* the last cancels
AllRequests == PublicRequests \cup SignedRequests \cup OrderRequests

Critical(class) == class \in {"Critical", "ClosingOrder"}
Order(class) == class \in {"OpeningOrder", "ClosingOrder"}
Least(a, b) == IF a < b THEN a ELSE b
Most(a, b) == IF a < b THEN b ELSE a

-----------------------------------------------------------------------------
(* Counter.                                                                  *)

NewCounter == [events |-> <<>>, local |-> 0, external |-> <<>>]

Fresh(q, window) == SelectSeq(q, LAMBDA e : e.age < window)
Weight(q) == FoldLeft(LAMBDA sum, e : sum + e.n, 0, q)

Prune(c, window) ==
    [events |-> Fresh(c.events, window),
     local |-> c.local - (Weight(c.events) - Weight(Fresh(c.events, window))),
     external |-> Fresh(c.external, window)]

Record(c, n) == [c EXCEPT !.events = Append(@, [age |-> 0, n |-> n]),
                          !.local = @ + n]
SumUp(c) == c.local + (IF c.external = <<>> THEN 0 ELSE Head(c.external).n)

LastOnly(q, n) == <<[age |-> 0, n |-> n]>>   \* faulty: forgets the larger one
\* What is not larger than the new observation is not needed any more.
Observed(q, n) == Append(SelectSeq(q, LAMBDA e : e.n > n), [age |-> 0, n |-> n])

Observe(c, count, window) ==
    LET p == Prune(c, window)
    IN IF count > p.local
       THEN [p EXCEPT !.external = Observed(@, count - p.local)]
       ELSE p

-----------------------------------------------------------------------------
(* Budgets.                                                                  *)

Share(limit, percent, most) ==
    IF limit = 0 THEN most ELSE Least(most, (limit * percent) \div 100)

WeightLimit(class) ==
    LET limit == IF Critical(class) THEN Share(published.ip, 95, IpCritical)
                 ELSE Share(published.ip, 75, IpNormal)
    IN IF class = "MarketFallback" THEN (limit * 3) \div 4 ELSE limit
PnlLimit == Least(PnlMinute, WeightLimit("PnlReconciliation") \div 4)
OrderLimit10(class) ==
    IF Critical(class) THEN Share(published.ten, 95, OrdersCritical10)
    ELSE Share(published.ten, 80, OrdersNormal10)
OneOrderLimit(class) ==   \* faulty: openings may use everything
    Share(published.one, 95, OrdersCritical1)
OrderLimit1(class) ==
    IF Critical(class) THEN Share(published.one, 95, OrdersCritical1)
    ELSE Share(published.one, 80, OrdersNormal1)

-----------------------------------------------------------------------------
(* The ghost keeps what was granted and told at each age, by its purpose.    *)

Nothing == [plain |-> 0, critical |-> 0, pnl |-> 0, opening |-> 0, closing |-> 0]
Unheard == [weight |-> 0, ten |-> 0, one |-> 0]
Ages == 0..(Minute - 1)
Young == 0..(TenSeconds - 1)

Granted(r) ==
    [ghost EXCEPT !.granted[0] =
        [@ EXCEPT !.plain = IF Critical(r.class) THEN @ ELSE @ + r.weight,
                  !.critical = IF Critical(r.class) THEN @ + r.weight ELSE @,
                  !.pnl = IF r.class = "PnlReconciliation" THEN @ + r.weight
                          ELSE @,
                  !.opening = IF r.class = "OpeningOrder" THEN @ + 1 ELSE @,
                  !.closing = IF r.class = "ClosingOrder" THEN @ + 1 ELSE @]]
Spent(field, ages) ==
    LET at == [a \in ages |-> ghost.granted[a][field]]
    IN FoldFunction(+, 0, at)
Told(field, ages) ==
    LET at == [a \in ages |-> ghost.told[a][field]]
    IN FoldFunction(Most, 0, at)

-----------------------------------------------------------------------------
(* reserve, observe and update_exchange_limits, each under the lock.         *)

FitsWeight(r, w) == SumUp(w) + r.weight <= WeightLimit(r.class)
FitsPnl(r, p) ==
    r.class = "PnlReconciliation" => p.local + r.weight <= PnlLimit
FitsOrders(r, ten, one) ==
    Order(r.class) => /\ SumUp(ten) < OrderLimit10(r.class)
                      /\ SumUp(one) < OrderLimit1(r.class)

Reserve(r) ==
    /\ blocked = 0
    /\ LET w == Prune(weight, Minute)
           p == IF r.class = "PnlReconciliation" THEN Prune(pnl, Minute) ELSE pnl
           ten == Prune(orders10, TenSeconds)
           one == Prune(orders1, Minute)
       IN /\ FitsWeight(r, w) /\ FitsPnl(r, p) /\ FitsOrders(r, ten, one)
          /\ weight' = IF r.weight > 0 THEN Record(w, r.weight) ELSE w
          /\ pnl' = IF r.class = "PnlReconciliation" THEN Record(p, r.weight)
                    ELSE p
          /\ orders10' = IF Order(r.class) THEN Record(ten, 1) ELSE ten
          /\ orders1' = IF Order(r.class) THEN Record(one, 1) ELSE one
    /\ flying' = Least(flying + 1, MaxFlying)
    /\ ghost' = Granted(r)
    /\ UNCHANGED <<blocked, published>>

\* A refusal prunes, as far as it comes.
Refuse(r) ==
    /\ blocked = 0
    /\ LET w == Prune(weight, Minute)
           p == Prune(pnl, Minute)
           ten == Prune(orders10, TenSeconds)
           one == Prune(orders1, Minute)
       IN /\ weight' = w
          /\ \/ ~FitsWeight(r, w) /\ UNCHANGED <<pnl, orders10, orders1>>
             \/ /\ FitsWeight(r, w) /\ ~FitsPnl(r, p)
                /\ pnl' = p /\ UNCHANGED <<orders10, orders1>>
             \/ /\ FitsWeight(r, w) /\ FitsPnl(r, p) /\ ~FitsOrders(r, ten, one)
                /\ pnl' = IF r.class = "PnlReconciliation" THEN p ELSE pnl
                /\ orders10' = ten /\ orders1' = one
    /\ UNCHANGED <<blocked, published, flying, ghost>>

\* No earlier end of an earlier wait.
Blocked(wait) == Most(blocked, wait)

\* The observed counters hold what exceeds the own count when the answer is
\* processed, not when the exchange counted.
Answer(count, wait) ==
    /\ flying > 0 /\ flying' = flying - 1
    /\ weight' = Observe(weight, count.weight, Minute)
    /\ orders10' = Observe(orders10, count.ten, TenSeconds)
    /\ orders1' = Observe(orders1, count.one, Minute)
    /\ blocked' = IF wait = 0 THEN blocked ELSE Blocked(wait)
    /\ LET others(n, c) == IF n > c.local THEN n - c.local ELSE 0
           now == [weight |-> others(count.weight, weight'),
                   ten |-> others(count.ten, orders10'),
                   one |-> others(count.one, orders1')]
       IN ghost' = [ghost EXCEPT
             !.told[0] = [f \in DOMAIN now |-> Most(@[f], now[f])],
             !.wait = Most(@, wait)]
    /\ UNCHANGED <<pnl, published>>

\* A request whose answer is lost stays counted.
Lose ==
    /\ flying > 0 /\ flying' = flying - 1
    /\ UNCHANGED <<counters, blocked, published, ghost>>

\* update_exchange_limits keeps the lower limit.
Lower(old, new) == IF old = 0 THEN new ELSE IF new = 0 THEN old ELSE Least(old, new)
Publish(limit) ==
    /\ published' = [f \in DOMAIN published |-> Lower(published[f], limit[f])]
    /\ ghost' = IF published' = published THEN ghost
                ELSE [ghost EXCEPT !.calm = 0]
    /\ UNCHANGED <<counters, blocked, flying>>

Older(q) == [k \in DOMAIN q |-> [q[k] EXCEPT !.age = Least(@ + 1, Minute)]]
Aged(c) == [c EXCEPT !.events = Older(@), !.external = Older(@)]
Tick ==
    /\ weight' = Aged(weight) /\ pnl' = Aged(pnl)
    /\ orders10' = Aged(orders10) /\ orders1' = Aged(orders1)
    /\ blocked' = Most(blocked - 1, 0)
    /\ ghost' = [granted |-> [a \in Ages |-> IF a = 0 THEN Nothing
                                              ELSE ghost.granted[a - 1]],
                 told |-> [a \in Ages |-> IF a = 0 THEN Unheard
                                           ELSE ghost.told[a - 1]],
                 wait |-> Most(ghost.wait - 1, 0),
                 calm |-> Least(ghost.calm + 1, Minute)]
    /\ UNCHANGED <<published, flying>>

Init ==
    /\ weight = NewCounter /\ pnl = NewCounter
    /\ orders10 = NewCounter /\ orders1 = NewCounter
    /\ blocked = 0 /\ published = [ip |-> 0, ten |-> 0, one |-> 0]
    /\ flying = 0
    /\ ghost = [granted |-> [a \in Ages |-> Nothing],
                told |-> [a \in Ages |-> Unheard],
                wait |-> 0, calm |-> Minute]

Next ==
    \/ \E r \in Requests : Reserve(r) \/ Refuse(r)
    \/ \E count \in Counts, wait \in Waits \cup {0} : Answer(count, wait)
    \/ \E limit \in Limits : Publish(limit)
    \/ Lose \/ Tick

Spec == Init /\ [][Next]_vars

-----------------------------------------------------------------------------
CounterOK(c, window) ==
    /\ c.local = Weight(c.events)
    /\ \A k \in DOMAIN c.events : c.events[k].age \in 0..Minute
    /\ \A k \in DOMAIN c.external : c.external[k].age \in 0..Minute

TypeOK ==
    /\ Requests \subseteq AllRequests
    /\ CounterOK(weight, Minute) /\ CounterOK(pnl, Minute)
    /\ CounterOK(orders10, TenSeconds) /\ CounterOK(orders1, Minute)
    /\ blocked \in 0..(Minute * 10) /\ flying \in 0..MaxFlying

\* What is granted fits with everything that was granted and that the
\* exchange told of others in the window, and no wait it asked for goes on
\* (exchange/rate_limit.rs, reserve and observe).
Fits(r) ==
    /\ ghost.wait = 0
    /\ Spent("plain", Ages) + Spent("critical", Ages) + Told("weight", Ages)
         + r.weight <= WeightLimit(r.class)
    /\ r.class = "PnlReconciliation" =>
         Spent("pnl", Ages) + r.weight <= PnlLimit
    /\ Order(r.class) =>
         /\ Spent("opening", Young) + Spent("closing", Young)
              + Told("ten", Young) < OrderLimit10(r.class)
         /\ Spent("opening", Ages) + Spent("closing", Ages)
              + Told("one", Ages) < OrderLimit1(r.class)
FitsAll == \A r \in Requests : Reserve(r) => Fits(r)
GrantsFit == [][FitsAll]_vars

\* Other requests leave what is kept for critical ones and for closing
\* orders: these are refused only because of their like, of other
\* applications, or of limits lowered a moment ago (reserve).
Kept(limit, percent, critical, normal) ==
    Share(limit, 95, critical) - Share(limit, percent, normal)
FewCritical ==
    Spent("critical", Ages) + Told("weight", Ages) + 5 <=
        Kept(published.ip, 75, IpCritical, IpNormal)
FewClosing ==
    /\ Spent("closing", Young) + Told("ten", Young) <
         Kept(published.ten, 80, OrdersCritical10, OrdersNormal10)
    /\ Spent("closing", Ages) + Told("one", Ages) <
         Kept(published.one, 80, OrdersCritical1, OrdersNormal1)
CriticalRoom ==
    ghost.calm = Minute =>
    /\ FewCritical => FitsWeight(Request("Critical", 5), Prune(weight, Minute))
    /\ FewClosing => FitsOrders(Request("ClosingOrder", 0),
                                Prune(orders10, TenSeconds),
                                Prune(orders1, Minute))
=============================================================================
