-------------------------------- MODULE MCEnds --------------------------------
(* What must end, as two scenes of one run: the life of one order, and the   *)
(* calls of an exchange cache.  A behaviour is one of the two, with its own  *)
(* fairness, and the variables of the other stay as they are initially.      *)
EXTENDS OrderLifecycle

CONSTANTS o1, low, eth, btc

One == {o1}
OneLevel == {low}

VARIABLES
    scene,
    version, cache, entry, call, invalid, seen, answer, retires

Cache == INSTANCE ExchangeCache WITH
    Callers <- {eth, btc}, MaxEntry <- 4, MaxEpoch <- 2, MaxVersion <- 1,
    MaxRetires <- 1

cacheVars == <<version, cache, entry, call, invalid, seen, answer, retires>>
allVars == <<scene, vars, cacheVars>>

OrderStep(A) == scene = "order" /\ A /\ UNCHANGED <<scene, cacheVars>>
CacheStep(A) == scene = "cache" /\ A /\ UNCHANGED <<scene, vars>>

EndsInit == Init /\ Cache!Init /\ scene \in {"order", "cache"}
EndsNext == OrderStep(Next) \/ CacheStep(Cache!Next)

\* The fairness of OrderLifecycle and of ExchangeCache: one formula constrains
\* an action of each, because only one of them is ever enabled.
EndsFairness ==
    /\ WF_allVars(OrderStep(EngineGoesOn) \/ CacheStep(Cache!Step(eth)))
    /\ WF_allVars(\/ OrderStep(Accept(o1) \/ Refuse(o1))
                  \/ CacheStep(Cache!Step(btc)))
    /\ WF_allVars(OrderStep(Age(o1)))
    /\ SF_allVars(OrderStep(Tick))
    /\ SF_allVars(OrderStep(BeginCancel /\ asked))

EndsSpec == EndsInit /\ [][EndsNext]_allVars /\ EndsFairness

-----------------------------------------------------------------------------
\* ExchangeCache: critical refreshes do not hold up one another and wait for
\* no reader, and a read ends as soon as no critical refresh replaces entries
\* under it (cache_entries.rs, refresh_critical and get_or_fetch).  The callers
\* are alike, so one of them stands for both.
CallsEnd ==
    (call[eth].pc # "idle") ~>
       \/ call[eth].pc = "idle"
       \/ call[eth].kind # "critical" /\ call[btc].kind = "critical"
=============================================================================
