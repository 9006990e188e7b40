----------------------------- MODULE FreshReads -----------------------------
(***************************************************************************)
(* What the account and position caches promise their callers, whatever     *)
(* they keep: an answer is never older than the last invalidation.  A read   *)
(* through the cache is also never older than an answer a critical refresh   *)
(* has given before, and a forced read or a critical refresh is not older    *)
(* than its own call.                                                        *)
(*                                                                           *)
(* The account at the exchange is abstracted to a version that only grows.   *)
(***************************************************************************)
EXTENDS Naturals

CONSTANT Callers

VARIABLES
    version,  \* the version of the account at the exchange
    invalid,  \* the version at the last invalidation
    seen,     \* the newest version a critical refresh has answered
    reads,    \* the call of each caller
    answer    \* the last answer given

vars == <<version, invalid, seen, reads, answer>>

Kinds == {"shared", "forced", "critical"}
Idle == [kind |-> "none", began |-> 1]

Init ==
    /\ version = 1 /\ invalid = 1 /\ seen = 1 /\ answer = 1
    /\ reads = [c \in Callers |-> Idle]

Change == version' = version + 1 /\ UNCHANGED <<invalid, seen, reads, answer>>

Invalidate == invalid' = version /\ UNCHANGED <<version, seen, reads, answer>>

\* A shared read may be answered with what was known before its call.
Since(kind) == IF kind = "shared" THEN 1 ELSE version

Begin(c, kind) ==
    /\ reads[c].kind = "none"
    /\ reads' = [reads EXCEPT ![c] = [kind |-> kind, began |-> Since(kind)]]
    /\ UNCHANGED <<version, invalid, seen, answer>>

\* An answer that may be given to the call of c.
Fresh(c, value) ==
    /\ value >= invalid /\ value <= version
    /\ value >= reads[c].began
    /\ reads[c].kind # "critical" => value >= seen

Answer(c, value) ==
    /\ reads[c].kind # "none"
    /\ Fresh(c, value)
    /\ reads' = [reads EXCEPT ![c] = Idle]
    /\ answer' = value
    /\ seen' = IF reads[c].kind = "critical" /\ value > seen THEN value
                                                             ELSE seen
    /\ UNCHANGED <<version, invalid>>

Fail(c) ==
    /\ reads[c].kind # "none"
    /\ reads' = [reads EXCEPT ![c] = Idle]
    /\ UNCHANGED <<version, invalid, seen, answer>>

Next ==
    \/ Change \/ Invalidate
    \/ \E c \in Callers :
         \/ Fail(c)
         \/ \E kind \in Kinds : Begin(c, kind)
         \/ \E value \in 1..version : Answer(c, value)

Spec == Init /\ [][Next]_vars
=============================================================================
