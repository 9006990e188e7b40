----------------------- MODULE GlobalRiskGate_proofs -----------------------
(***************************************************************************)
(* Proofs about GlobalRiskGate for any number of strategies, any limit and  *)
(* any bounds: the types, and the four safety properties of the gate.       *)
(*                                                                          *)
(* None of the four is inductive.  UnreconciledFillCloses needs to know     *)
(* what a check that is running has seen (FillInv), the exclusion of        *)
(* requests needs the permit and the lock each request holds (PermitInv),   *)
(* TrippedMeansStopped needs what holds between the steps of a check        *)
(* (StopInv), and NoSubmissionOverLimit needs which positions a check that  *)
(* is reading, and the last one that ended, have counted (SumInv).          *)
(***************************************************************************)
EXTENDS GlobalRiskGate, SumTheorems

-----------------------------------------------------------------------------
(* Types.                                                                   *)

\* The initial state has the right types.
LEMMA InitTyped == ASSUME Init PROVE TypeOK
<1>1. gate \in Gates
  <2>1. PICK enabled \in Starts :
          gate = [enabled |-> enabled, blocked |-> FALSE, triggered |-> FALSE,
                  failed |-> 0, recovered |-> 0, published |-> {},
                  readers |-> {}, writer |-> "none"]
    BY DEF Init
  <2>2. enabled \in BOOLEAN
    BY GateAssumption
  <2> QED
    BY <2>1, <2>2 DEF Gates
<1>2. check \in Checks
  BY DEF Init, NoCheck, Checks
<1>3. pc \in [Members -> EnginePcs]
  BY DEF Init, EnginePcs
<1>4. flag \in Flags
  BY DEF Init, Flags
<1>5. used \in [faults : 0 .. MaxFaults, toggles : 0 .. MaxToggles]
  BY GateAssumption DEF Init
<1>6. Typed
  BY <1>1, <1>2, <1>3, <1>4, <1>5 DEF Init, Typed
<1>7. Holders
  BY GateAssumption DEF Init, NoCheck, Reconciling, Holders
<1> QED
  BY <1>6, <1>7 DEF TypeOK

\* A check begins with a well-formed record and leaves the gate well formed.
LEMMA BeginsTyped ==
    ASSUME TypeOK,
           \/ TimerCheck \/ CommitConfig
           \/ \E m \in Members : EngineCheck(m) \/ ResumeCheck(m)
    PROVE  gate' \in Gates /\ check' \in Checks
<1>0. gate.enabled \in BOOLEAN
  BY DEF TypeOK, Typed, Gates
<1> PICK who \in Members \cup {"timer", "config"}, resume \in SUBSET Members,
         enabled \in BOOLEAN : CheckBegins(who, resume, enabled)
  <2>1. ASSUME TimerCheck PROVE CheckBegins("timer", {}, gate.enabled)
    BY <2>1 DEF TimerCheck
  <2>2. ASSUME CommitConfig PROVE CheckBegins("config", {}, ~gate.enabled)
    BY <2>2 DEF CommitConfig
  <2>3. ASSUME NEW m \in Members, EngineCheck(m)
        PROVE  CheckBegins(m, {}, gate.enabled)
    BY <2>3 DEF EngineCheck
  <2>4. ASSUME NEW m \in Members, ResumeCheck(m)
        PROVE  CheckBegins("timer", {m}, gate.enabled)
    BY <2>4 DEF ResumeCheck
  <2> QED
    BY <1>0, <2>1, <2>2, <2>3, <2>4
<1> DEFINE start == IF enabled THEN "read" ELSE "act"
<1>1. check' = [pc |-> start, who |-> who, resume |-> resume,
                gen |-> gate.failed, left |-> Members, incomplete |-> FALSE,
                unsafe |-> FALSE, first |-> FALSE, total |-> 0]
  BY DEF CheckBegins, NoCheck
<1>2. gate.failed \in Nat /\ start \in {"free", "read", "act"}
  BY DEF TypeOK, Typed, Gates
<1>3. check' \in Checks
  BY <1>1, <1>2 DEF Checks
<1>4. gate' \in Gates
  BY DEF CheckBegins, TypeOK, Typed, Gates
<1> QED
  BY <1>3, <1>4

\* What reading one strategy makes of the record of the check.
LEMMA ReadTyped ==
    ASSUME TypeOK, NEW m \in Members, CheckRead(m)
    PROVE  /\ check' \in Checks
           /\ check'.pc = "read" /\ check'.gen = check.gen
           /\ check'.left = check.left \ {m}
           /\ check.incomplete => check'.incomplete
           /\ m \notin flag.ready => check'.incomplete
<1>1. check \in Checks /\ pos[m] \in Nat
  BY DEF TypeOK, Typed
<1>2. check' = [pc |-> check.pc, who |-> check.who,
                resume |-> check.resume, gen |-> check.gen,
                left |-> check.left \ {m},
                incomplete |-> \/ check.incomplete
                               \/ m \notin flag.initialized
                               \/ m \notin flag.ready,
                unsafe |-> \/ check.unsafe
                           \/ m \in flag.initialized /\ m \notin flag.ready,
                first |-> check.first, total |-> check.total + pos[m]]
  BY <1>1 DEF Checks, CheckRead
<1>3. check' \in Checks
  BY <1>1, <1>2 DEF Checks
<1>4. check.pc = "read"
  BY DEF CheckRead
<1> QED
  BY <1>2, <1>3, <1>4

\* Every step keeps the types.
LEMMA TypedStep == ASSUME TypeOK, [Next]_vars PROVE Typed'
<1> USE GateAssumption DEF TypeOK, Typed, Gates, Checks, EnginePcs, Flags,
                           AwaitsCheck
<1>1. ASSUME TimerCheck PROVE Typed'
  <2>1. gate' \in Gates /\ check' \in Checks
    BY <1>1, BeginsTyped
  <2> QED
    BY <1>1, <2>1 DEF TimerCheck, CheckBegins
<1>2. ASSUME NEW m \in Members, EngineCheck(m) PROVE Typed'
  <2>1. gate' \in Gates /\ check' \in Checks
    BY <1>2, BeginsTyped
  <2> QED
    BY <1>2, <2>1 DEF EngineCheck, CheckBegins
<1>3. ASSUME NEW m \in Members, ResumeCheck(m) PROVE Typed'
  <2>1. gate' \in Gates /\ check' \in Checks
    BY <1>3, BeginsTyped
  <2> QED
    BY <1>3, <2>1 DEF ResumeCheck, CheckBegins
<1>4. ASSUME NEW m \in Members, CheckRead(m) PROVE Typed'
  <2>1. check \in Checks /\ pos[m] \in Nat
    BY DEF TypeOK, Typed
  <2>2. check' \in Checks
    BY <1>4, <2>1, ReadTyped
  <2> QED
    BY <1>4, <2>2 DEF CheckRead
<1>5. ASSUME CheckStore PROVE Typed'
  <2> DEFINE blocked == check.incomplete \/ Reached
             unsafe == check.unsafe \/ Reached
             recovered == IF check.incomplete THEN gate.recovered ELSE check.gen
  <2>1. gate' = [gate EXCEPT !.blocked = blocked, !.recovered = recovered,
                             !.triggered = unsafe]
    BY <1>5 DEF CheckStore, Generation
  <2>2. blocked \in BOOLEAN /\ unsafe \in BOOLEAN
    BY DEF TypeOK, Typed, Checks, Reached
  <2>3. gate \in Gates /\ recovered \in Nat
    BY DEF TypeOK, Typed, Gates, Checks
  <2>4. gate' \in Gates
    <3> HIDE DEF blocked, unsafe, recovered
    <3> QED
      BY <2>1, <2>2, <2>3 DEF Gates
  <2>5. check' \in Checks
    BY <1>5, GateAssumption DEF TypeOK, Typed, Checks, CheckStore, NoCheck
  <2>6. flag' \in Flags
    BY <1>5 DEF TypeOK, Typed, Flags, CheckStore, ToCancel
  <2> QED
    BY <1>5, <2>4, <2>5, <2>6 DEF TypeOK, Typed, CheckStore
<1>6. ASSUME NEW m \in Members, CheckAct(m) PROVE Typed'
  <2>1. check' \in Checks
    BY <1>6 DEF TypeOK, Typed, Checks, CheckAct
  <2>2. flag' \in Flags
    BY <1>6 DEF TypeOK, Typed, Flags, CheckAct, ToCancel
  <2> QED
    BY <1>6, <2>1, <2>2 DEF TypeOK, Typed, CheckAct
<1>7. ASSUME CheckEnd PROVE Typed'
  BY <1>7 DEF CheckEnd, NoCheck, AfterCheck
<1>8. ASSUME CommitConfig PROVE Typed'
  <2>1. gate' \in Gates /\ check' \in Checks
    BY <1>8, BeginsTyped
  <2> QED
    BY <1>8, <2>1 DEF CommitConfig, CheckBegins
<1>9. ASSUME NEW m \in Members, Boot(m) PROVE Typed'
  <2>1. PICK ready \in BOOLEAN :
          flag' = [flag EXCEPT !.initialized = @ \cup {m},
                               !.ready = IF ready THEN @ \cup {m} ELSE @ \ {m}]
    BY <1>9 DEF Boot
  <2>2. flag' \in Flags
    BY <2>1 DEF TypeOK, Typed, Flags
  <2>3. pc' \in [Members -> EnginePcs]
    BY <1>9 DEF TypeOK, Typed, EnginePcs, Boot, Goto
  <2>4. used' \in [faults : 0 .. MaxFaults, toggles : 0 .. MaxToggles]
    BY <1>9, GateAssumption DEF TypeOK, Typed, Boot, Fault
  <2> QED
    BY <1>9, <2>2, <2>3, <2>4 DEF TypeOK, Typed, Boot
<1>10. ASSUME NEW m \in Members, Submit(m) PROVE Typed'
  BY <1>10 DEF Submit, Goto
<1>11. ASSUME NEW m \in Members, PostResting(m) PROVE Typed'
  BY <1>11 DEF PostResting, Goto
<1>12. ASSUME NEW m \in Members, PostUncertain(m) PROVE Typed'
  <2>1. gate' \in Gates
    BY <1>12, GateAssumption DEF TypeOK, Typed, Gates, PostUncertain, Goto, Fill
  <2>2. pc' \in [Members -> EnginePcs]
    BY <1>12, GateAssumption DEF TypeOK, Typed, EnginePcs, PostUncertain, Goto, Fill
  <2>3. real' \in [Members -> Nat]
    BY <1>12, GateAssumption DEF TypeOK, Typed, PostUncertain, Goto, Fill
  <2>4. orders' \subseteq Members /\ owes' \subseteq Members
    BY <1>12, GateAssumption DEF TypeOK, Typed, PostUncertain, Goto, Fill
  <2> QED
    BY <1>12, <2>1, <2>2, <2>3, <2>4 DEF TypeOK, Typed, PostUncertain
<1>13. ASSUME NEW m \in Members, PostAborted(m) PROVE Typed'
  <2>1. gate' = [enabled |-> gate.enabled, blocked |-> gate.blocked,
                 triggered |-> gate.triggered, failed |-> gate.failed + 1,
                 recovered |-> gate.recovered, published |-> gate.published,
                 readers |-> gate.readers \ {m}, writer |-> gate.writer]
    BY <1>13 DEF TypeOK, Typed, Gates, PostAborted
  <2>2. gate' \in Gates
    BY <2>1 DEF TypeOK, Typed, Gates
  <2>3. pc' \in [Members -> EnginePcs]
    BY <1>13 DEF TypeOK, Typed, EnginePcs, PostAborted, Goto
  <2>4. flag' \in Flags
    BY <1>13 DEF TypeOK, Typed, Flags, PostAborted
  <2>5. real' \in [Members -> Nat] /\ owes' \subseteq Members
    BY <1>13 DEF TypeOK, Typed, PostAborted, Fill
  <2>6. used' \in [faults : 0 .. MaxFaults, toggles : 0 .. MaxToggles]
    BY <1>13, GateAssumption DEF TypeOK, Typed, PostAborted, Fault
  <2>7. orders' \subseteq Members
    BY <1>13 DEF TypeOK, Typed, PostAborted
  <2> QED
    BY <1>13, <2>2, <2>3, <2>4, <2>5, <2>6, <2>7
       DEF TypeOK, Typed, PostAborted
<1>14. ASSUME NEW m \in Members, Acquire(m) PROVE Typed'
  BY <1>14 DEF Acquire, Goto, WriterMayEnter
<1>15. ASSUME NEW m \in Members, SyncOk(m) PROVE Typed'
  BY <1>15 DEF SyncOk, Goto
<1>16. ASSUME NEW m \in Members, SyncFails(m) PROVE Typed'
  BY <1>16 DEF SyncFails, Goto, Fault
<1>17. ASSUME NEW m \in Members, Resolve(m) PROVE Typed'
  <2>1. gate' \in Gates
    BY <1>17, GateAssumption DEF TypeOK, Typed, Gates, Resolve, Leave, Goto
  <2>2. pc' \in [Members -> EnginePcs]
    BY <1>17, GateAssumption DEF TypeOK, Typed, EnginePcs, Resolve, Leave, Goto
  <2>3. flag' \in Flags
    BY <1>17, GateAssumption DEF TypeOK, Typed, Flags, Resolve, Leave, Goto
  <2>4. orders' \subseteq Members /\ owes' \subseteq Members
    BY <1>17, GateAssumption DEF TypeOK, Typed, Resolve, Leave, Goto
  <2> QED
    BY <1>17, <2>1, <2>2, <2>3, <2>4 DEF TypeOK, Typed, Resolve
<1>18. ASSUME NEW m \in Members, CommitFails(m) PROVE Typed'
  BY <1>18 DEF CommitFails, Goto, Fault
<1>19. ASSUME NEW m \in Members, Fail(m) PROVE Typed'
  BY <1>19 DEF Fail, Goto
<1>20. ASSUME NEW m \in Members, Withdraw(m) PROVE Typed'
  <2>1. gate' \in Gates
    BY <1>20, GateAssumption DEF TypeOK, Typed, Gates, Withdraw, Leave, Goto
  <2>2. pc' \in [Members -> EnginePcs]
    BY <1>20, GateAssumption DEF TypeOK, Typed, EnginePcs, Withdraw, Leave, Goto
  <2>3. flag' \in Flags
    BY <1>20, GateAssumption DEF TypeOK, Typed, Flags, Withdraw, Leave, Goto
  <2> QED
    BY <1>20, <2>1, <2>2, <2>3 DEF TypeOK, Typed, Withdraw
<1>21. ASSUME NEW m \in Members, ExchangeFill(m) PROVE Typed'
  BY <1>21 DEF ExchangeFill, Fill
<1>22. ASSUME NEW m \in Members, Pause(m) PROVE Typed'
  BY <1>22 DEF Pause
<1>23. ASSUME NEW m \in Members, SnapshotFill(m) PROVE Typed'
  BY <1>23 DEF SnapshotFill, Goto
<1>24. ASSUME NEW m \in Members, SnapshotClean(m) PROVE Typed'
  BY <1>24 DEF SnapshotClean, Goto
<1>25. ASSUME NEW m \in Members, SnapshotFails(m) PROVE Typed'
  BY <1>25 DEF SnapshotFails, Goto, Fault
<1>26. ASSUME NEW m \in Members, CancelStart(m) PROVE Typed'
  BY <1>26 DEF CancelStart, Goto
<1>27. ASSUME NEW m \in Members, CancelEnds(m) PROVE Typed'
  BY <1>27 DEF CancelEnds, Goto, Fault
<1>28. ASSUME NEW m \in Members, CancelDone(m) PROVE Typed'
  BY <1>28 DEF CancelDone, Goto, ClearsQueued
<1>29. CASE UNCHANGED vars
  BY <1>29 DEF vars
<1> QED
  BY <1>1, <1>2, <1>3, <1>4, <1>5, <1>6, <1>7, <1>8, <1>9, <1>10, <1>11,
     <1>12, <1>13, <1>14, <1>15, <1>16, <1>17, <1>18, <1>19, <1>20,
     <1>21, <1>22, <1>23, <1>24, <1>25, <1>26, <1>27, <1>28, <1>29
     DEF Next, EngineStep, CheckStep

\* Every step keeps who holds what.
LEMMA HoldersStep == ASSUME TypeOK, [Next]_vars PROVE Holders'
<1> USE GateAssumption DEF TypeOK, Typed, Holders, Gates, Checks, EnginePcs,
                           Flags, AwaitsCheck, Reconciling
<1>1. ASSUME TimerCheck PROVE Holders'
  BY <1>1 DEF TimerCheck, CheckBegins, NoCheck
<1>2. ASSUME NEW m \in Members, EngineCheck(m) PROVE Holders'
  BY <1>2 DEF EngineCheck, CheckBegins, NoCheck
<1>3. ASSUME NEW m \in Members, ResumeCheck(m) PROVE Holders'
  BY <1>3 DEF ResumeCheck, CheckBegins, NoCheck
<1>4. ASSUME NEW m \in Members, CheckRead(m) PROVE Holders'
  BY <1>4 DEF CheckRead
<1>5. ASSUME CheckStore PROVE Holders'
  BY <1>5 DEF CheckStore, ToCancel, Generation, NoCheck
<1>6. ASSUME NEW m \in Members, CheckAct(m) PROVE Holders'
  BY <1>6 DEF CheckAct, ToCancel
<1>7. ASSUME CheckEnd PROVE Holders'
  BY <1>7 DEF CheckEnd, NoCheck, AfterCheck
<1>8. ASSUME CommitConfig PROVE Holders'
  BY <1>8 DEF CommitConfig, CheckBegins, NoCheck
<1>9. ASSUME NEW m \in Members, Boot(m) PROVE Holders'
  BY <1>9 DEF Boot, Goto, Fault
<1>10. ASSUME NEW m \in Members, Submit(m) PROVE Holders'
  BY <1>10 DEF Submit, Goto
<1>11. ASSUME NEW m \in Members, PostResting(m) PROVE Holders'
  BY <1>11 DEF PostResting, Goto
<1>12. ASSUME NEW m \in Members, PostUncertain(m) PROVE Holders'
  BY <1>12 DEF PostUncertain, Goto, Fill
<1>13. ASSUME NEW m \in Members, PostAborted(m) PROVE Holders'
  BY <1>13 DEF PostAborted, Goto, Fault, Fill
<1>14. ASSUME NEW m \in Members, Acquire(m) PROVE Holders'
  BY <1>14 DEF Acquire, Goto, WriterMayEnter
<1>15. ASSUME NEW m \in Members, SyncOk(m) PROVE Holders'
  BY <1>15 DEF SyncOk, Goto
<1>16. ASSUME NEW m \in Members, SyncFails(m) PROVE Holders'
  BY <1>16 DEF SyncFails, Goto, Fault
<1>17. ASSUME NEW m \in Members, Resolve(m) PROVE Holders'
  BY <1>17 DEF Resolve, Leave, Goto
<1>18. ASSUME NEW m \in Members, CommitFails(m) PROVE Holders'
  BY <1>18 DEF CommitFails, Goto, Fault
<1>19. ASSUME NEW m \in Members, Fail(m) PROVE Holders'
  BY <1>19 DEF Fail, Goto
<1>20. ASSUME NEW m \in Members, Withdraw(m) PROVE Holders'
  BY <1>20 DEF Withdraw, Leave, Goto
<1>21. ASSUME NEW m \in Members, ExchangeFill(m) PROVE Holders'
  BY <1>21 DEF ExchangeFill, Fill
<1>22. ASSUME NEW m \in Members, Pause(m) PROVE Holders'
  BY <1>22 DEF Pause
<1>23. ASSUME NEW m \in Members, SnapshotFill(m) PROVE Holders'
  BY <1>23 DEF SnapshotFill, Goto
<1>24. ASSUME NEW m \in Members, SnapshotClean(m) PROVE Holders'
  BY <1>24 DEF SnapshotClean, Goto
<1>25. ASSUME NEW m \in Members, SnapshotFails(m) PROVE Holders'
  BY <1>25 DEF SnapshotFails, Goto, Fault
<1>26. ASSUME NEW m \in Members, CancelStart(m) PROVE Holders'
  BY <1>26 DEF CancelStart, Goto
<1>27. ASSUME NEW m \in Members, CancelEnds(m) PROVE Holders'
  BY <1>27 DEF CancelEnds, Goto, Fault
<1>28. ASSUME NEW m \in Members, CancelDone(m) PROVE Holders'
  BY <1>28 DEF CancelDone, Goto, ClearsQueued
<1>29. CASE UNCHANGED vars
  BY <1>29 DEF vars
<1> QED
  BY <1>1, <1>2, <1>3, <1>4, <1>5, <1>6, <1>7, <1>8, <1>9, <1>10, <1>11,
     <1>12, <1>13, <1>14, <1>15, <1>16, <1>17, <1>18, <1>19, <1>20,
     <1>21, <1>22, <1>23, <1>24, <1>25, <1>26, <1>27, <1>28, <1>29
     DEF Next, EngineStep, CheckStep

(* In every state the variables have their types, and permits, barrier,     *)
(* published fills and running checks belong to engines that are at the     *)
(* matching place of their code.                                            *)
THEOREM TypeCorrect == Spec => []TypeOK
<1>1. Init => TypeOK
  BY InitTyped
<1>2. TypeOK /\ [Next]_vars => TypeOK'
  BY TypedStep, HoldersStep DEF TypeOK
<1> QED
  BY <1>1, <1>2, PTL DEF Spec

-----------------------------------------------------------------------------
(* The failure generation.                                                  *)

\* The gate is shut for as long as strategy n owes a fill that is no longer
\* published: the running check will not recover the current generation.
ClosedFor(n) ==
    /\ gate.recovered < gate.failed
    /\ n \notin flag.ready
    /\ check.pc = "read" /\ check.gen = gate.failed /\ n \notin check.left
          => check.incomplete

FillInv ==
    \A n \in owes :
       /\ pc[n] # "boot"
       /\ n \notin gate.published \/ pc[n] = "withdraw" => ClosedFor(n)

\* A step that reads, fails, withdraws or recovers keeps FillInv.
LEMMA FillStep == ASSUME TypeOK, FillInv, [Next]_vars PROVE FillInv'
<1> USE GateAssumption DEF FillInv, ClosedFor, TypeOK, Typed, Holders, Gates,
                           Checks, EnginePcs, Flags, AwaitsCheck, Reconciling
<1>1. ASSUME TimerCheck PROVE FillInv'
  BY <1>1 DEF TimerCheck, CheckBegins, NoCheck
<1>2. ASSUME NEW m \in Members, EngineCheck(m) PROVE FillInv'
  BY <1>2 DEF EngineCheck, CheckBegins, NoCheck
<1>3. ASSUME NEW m \in Members, ResumeCheck(m) PROVE FillInv'
  BY <1>3 DEF ResumeCheck, CheckBegins, NoCheck
<1>4. ASSUME NEW m \in Members, CheckRead(m) PROVE FillInv'
  <2>1. /\ check'.gen = check.gen /\ check'.left = check.left \ {m}
        /\ check.incomplete => check'.incomplete
        /\ m \notin flag.ready => check'.incomplete
    BY <1>4, ReadTyped, Zenon
  <2> QED
    BY <1>4, <2>1 DEF CheckRead
<1>5. ASSUME CheckStore PROVE FillInv'
  BY <1>5 DEF CheckStore, ToCancel, Generation, NoCheck
<1>6. ASSUME NEW m \in Members, CheckAct(m) PROVE FillInv'
  BY <1>6 DEF CheckAct, ToCancel
<1>7. ASSUME CheckEnd PROVE FillInv'
  BY <1>7 DEF CheckEnd, NoCheck, AfterCheck
<1>8. ASSUME CommitConfig PROVE FillInv'
  BY <1>8 DEF CommitConfig, CheckBegins, NoCheck, PlacementsDrained
<1>9. ASSUME NEW m \in Members, Boot(m) PROVE FillInv'
  BY <1>9 DEF Boot, Goto, Fault
<1>10. ASSUME NEW m \in Members, Submit(m) PROVE FillInv'
  BY <1>10 DEF Submit, Goto
<1>11. ASSUME NEW m \in Members, PostResting(m) PROVE FillInv'
  BY <1>11 DEF PostResting, Goto
<1>12. ASSUME NEW m \in Members, PostUncertain(m) PROVE FillInv'
  BY <1>12 DEF PostUncertain, Goto, Fill
<1>13. ASSUME NEW m \in Members, PostAborted(m) PROVE FillInv'
  BY <1>13 DEF PostAborted, Goto, Fault, Fill
<1>14. ASSUME NEW m \in Members, Acquire(m) PROVE FillInv'
  BY <1>14 DEF Acquire, Goto, WriterMayEnter
<1>15. ASSUME NEW m \in Members, SyncOk(m) PROVE FillInv'
  BY <1>15 DEF SyncOk, Goto
<1>16. ASSUME NEW m \in Members, SyncFails(m) PROVE FillInv'
  BY <1>16 DEF SyncFails, Goto, Fault
<1>17. ASSUME NEW m \in Members, Resolve(m) PROVE FillInv'
  BY <1>17 DEF Resolve, Leave, Goto
<1>18. ASSUME NEW m \in Members, CommitFails(m) PROVE FillInv'
  BY <1>18 DEF CommitFails, Goto, Fault
<1>19. ASSUME NEW m \in Members, Fail(m) PROVE FillInv'
  BY <1>19 DEF Fail, Goto
<1>20. ASSUME NEW m \in Members, Withdraw(m) PROVE FillInv'
  BY <1>20 DEF Withdraw, Leave, Goto
<1>21. ASSUME NEW m \in Members, ExchangeFill(m) PROVE FillInv'
  BY <1>21 DEF ExchangeFill, Fill
<1>22. ASSUME NEW m \in Members, Pause(m) PROVE FillInv'
  BY <1>22 DEF Pause
<1>23. ASSUME NEW m \in Members, SnapshotFill(m) PROVE FillInv'
  BY <1>23 DEF SnapshotFill, Goto
<1>24. ASSUME NEW m \in Members, SnapshotClean(m) PROVE FillInv'
  BY <1>24 DEF SnapshotClean, Goto, SnapshotIsClean
<1>25. ASSUME NEW m \in Members, SnapshotFails(m) PROVE FillInv'
  BY <1>25 DEF SnapshotFails, Goto, Fault
<1>26. ASSUME NEW m \in Members, CancelStart(m) PROVE FillInv'
  BY <1>26 DEF CancelStart, Goto
<1>27. ASSUME NEW m \in Members, CancelEnds(m) PROVE FillInv'
  BY <1>27 DEF CancelEnds, Goto, Fault
<1>28. ASSUME NEW m \in Members, CancelDone(m) PROVE FillInv'
  BY <1>28 DEF CancelDone, Goto, ClearsQueued
<1>29. CASE UNCHANGED vars
  BY <1>29 DEF vars
<1> QED
  BY <1>1, <1>2, <1>3, <1>4, <1>5, <1>6, <1>7, <1>8, <1>9, <1>10, <1>11,
     <1>12, <1>13, <1>14, <1>15, <1>16, <1>17, <1>18, <1>19, <1>20,
     <1>21, <1>22, <1>23, <1>24, <1>25, <1>26, <1>27, <1>28, <1>29
     DEF Next, EngineStep, CheckStep

(* A fill nobody has accounted for keeps the gate shut, whatever failed and *)
(* whichever check was running when it failed.                              *)
THEOREM FillCloses == Spec => []UnreconciledFillCloses
<1>1. Init => FillInv
  BY DEF Init, FillInv
<1>2. TypeOK /\ FillInv /\ [Next]_vars => FillInv'
  BY FillStep
<1>3. TypeOK /\ FillInv => UnreconciledFillCloses
  BY DEF TypeOK, Typed, Gates, FillInv, ClosedFor, UnreconciledFillCloses,
         BlocksSubmission
<1> QED
  BY <1>1, <1>2, <1>3, TypeCorrect, PTL DEF Spec

-----------------------------------------------------------------------------
(* The submission barrier.                                                  *)

\* A request on its way holds the order submission lock of its strategy, and
\* a permit of the barrier if the protection is on.
PermitInv ==
    \A n \in Members :
       pc[n] = "posting" => /\ n \in flag.placing
                            /\ gate.enabled => n \in gate.readers

\* Requests get their permit at the start and keep it to the end, also when
\* the switch is changed.
LEMMA PermitStep ==
    ASSUME TypeOK, PermitInv, NoPostDuringReconciliation, [Next]_vars
    PROVE  PermitInv' /\ NoPostDuringReconciliation'
<1> USE GateAssumption DEF PermitInv, NoPostDuringReconciliation, TypeOK, Typed,
                           Holders, Gates, Checks, EnginePcs, Flags,
                           AwaitsCheck, Reconciling
<1>1. ASSUME TimerCheck PROVE PermitInv' /\ NoPostDuringReconciliation'
  BY <1>1 DEF TimerCheck, CheckBegins, NoCheck
<1>2. ASSUME NEW m \in Members, EngineCheck(m) PROVE PermitInv' /\ NoPostDuringReconciliation'
  BY <1>2 DEF EngineCheck, CheckBegins, NoCheck
<1>3. ASSUME NEW m \in Members, ResumeCheck(m) PROVE PermitInv' /\ NoPostDuringReconciliation'
  BY <1>3 DEF ResumeCheck, CheckBegins, NoCheck
<1>4. ASSUME NEW m \in Members, CheckRead(m) PROVE PermitInv' /\ NoPostDuringReconciliation'
  BY <1>4 DEF CheckRead
<1>5. ASSUME CheckStore PROVE PermitInv' /\ NoPostDuringReconciliation'
  BY <1>5 DEF CheckStore, ToCancel, Generation, NoCheck
<1>6. ASSUME NEW m \in Members, CheckAct(m) PROVE PermitInv' /\ NoPostDuringReconciliation'
  BY <1>6 DEF CheckAct, ToCancel
<1>7. ASSUME CheckEnd PROVE PermitInv' /\ NoPostDuringReconciliation'
  BY <1>7 DEF CheckEnd, NoCheck, AfterCheck
<1>8. ASSUME CommitConfig PROVE PermitInv' /\ NoPostDuringReconciliation'
  BY <1>8 DEF CommitConfig, CheckBegins, NoCheck, PlacementsDrained
<1>9. ASSUME NEW m \in Members, Boot(m) PROVE PermitInv' /\ NoPostDuringReconciliation'
  BY <1>9 DEF Boot, Goto, Fault
<1>10. ASSUME NEW m \in Members, Submit(m) PROVE PermitInv' /\ NoPostDuringReconciliation'
  BY <1>10 DEF Submit, Goto, BarrierReadable
<1>11. ASSUME NEW m \in Members, PostResting(m) PROVE PermitInv' /\ NoPostDuringReconciliation'
  BY <1>11 DEF PostResting, Goto
<1>12. ASSUME NEW m \in Members, PostUncertain(m) PROVE PermitInv' /\ NoPostDuringReconciliation'
  BY <1>12 DEF PostUncertain, Goto, Fill
<1>13. ASSUME NEW m \in Members, PostAborted(m) PROVE PermitInv' /\ NoPostDuringReconciliation'
  BY <1>13 DEF PostAborted, Goto, Fault, Fill
<1>14. ASSUME NEW m \in Members, Acquire(m) PROVE PermitInv' /\ NoPostDuringReconciliation'
  BY <1>14 DEF Acquire, Goto, WriterMayEnter
<1>15. ASSUME NEW m \in Members, SyncOk(m) PROVE PermitInv' /\ NoPostDuringReconciliation'
  BY <1>15 DEF SyncOk, Goto
<1>16. ASSUME NEW m \in Members, SyncFails(m) PROVE PermitInv' /\ NoPostDuringReconciliation'
  BY <1>16 DEF SyncFails, Goto, Fault
<1>17. ASSUME NEW m \in Members, Resolve(m) PROVE PermitInv' /\ NoPostDuringReconciliation'
  BY <1>17 DEF Resolve, Leave, Goto
<1>18. ASSUME NEW m \in Members, CommitFails(m) PROVE PermitInv' /\ NoPostDuringReconciliation'
  BY <1>18 DEF CommitFails, Goto, Fault
<1>19. ASSUME NEW m \in Members, Fail(m) PROVE PermitInv' /\ NoPostDuringReconciliation'
  BY <1>19 DEF Fail, Goto
<1>20. ASSUME NEW m \in Members, Withdraw(m) PROVE PermitInv' /\ NoPostDuringReconciliation'
  BY <1>20 DEF Withdraw, Leave, Goto
<1>21. ASSUME NEW m \in Members, ExchangeFill(m) PROVE PermitInv' /\ NoPostDuringReconciliation'
  BY <1>21 DEF ExchangeFill, Fill
<1>22. ASSUME NEW m \in Members, Pause(m) PROVE PermitInv' /\ NoPostDuringReconciliation'
  BY <1>22 DEF Pause
<1>23. ASSUME NEW m \in Members, SnapshotFill(m) PROVE PermitInv' /\ NoPostDuringReconciliation'
  BY <1>23 DEF SnapshotFill, Goto
<1>24. ASSUME NEW m \in Members, SnapshotClean(m) PROVE PermitInv' /\ NoPostDuringReconciliation'
  BY <1>24 DEF SnapshotClean, Goto
<1>25. ASSUME NEW m \in Members, SnapshotFails(m) PROVE PermitInv' /\ NoPostDuringReconciliation'
  BY <1>25 DEF SnapshotFails, Goto, Fault
<1>26. ASSUME NEW m \in Members, CancelStart(m) PROVE PermitInv' /\ NoPostDuringReconciliation'
  BY <1>26 DEF CancelStart, Goto
<1>27. ASSUME NEW m \in Members, CancelEnds(m) PROVE PermitInv' /\ NoPostDuringReconciliation'
  BY <1>27 DEF CancelEnds, Goto, Fault
<1>28. ASSUME NEW m \in Members, CancelDone(m) PROVE PermitInv' /\ NoPostDuringReconciliation'
  BY <1>28 DEF CancelDone, Goto, ClearsQueued
<1>29. CASE UNCHANGED vars
  BY <1>29 DEF vars
<1> QED
  BY <1>1, <1>2, <1>3, <1>4, <1>5, <1>6, <1>7, <1>8, <1>9, <1>10, <1>11,
     <1>12, <1>13, <1>14, <1>15, <1>16, <1>17, <1>18, <1>19, <1>20,
     <1>21, <1>22, <1>23, <1>24, <1>25, <1>26, <1>27, <1>28, <1>29
     DEF Next, EngineStep, CheckStep

(* No request is between its checks and its answer while a strategy          *)
(* reconciles a fill behind the barrier.                                     *)
THEOREM BarrierExcludes == Spec => []NoPostDuringReconciliation
<1> DEFINE Inv == PermitInv /\ NoPostDuringReconciliation
<1>1. Init => Inv
  BY DEF Init, PermitInv, NoPostDuringReconciliation
<1>2. TypeOK /\ Inv /\ [Next]_vars => Inv'
  BY PermitStep
<1> QED
  BY <1>1, <1>2, TypeCorrect, PTL DEF Spec

-----------------------------------------------------------------------------
(* The stop.                                                                *)

\* While the gate is tripped, every strategy is stopped except those that the
\* check which tripped it has yet to pause; the gate admits nothing until a
\* later check finds it safe.
StopInv ==
    /\ check.pc = "read" => gate.enabled /\ (check.unsafe => check.incomplete)
    /\ gate.triggered =>
          /\ gate.enabled /\ gate.blocked
          /\ check.pc = "act" => check.unsafe
          /\ \A n \in Members :
                /\ n \in flag.pending \/ (n \notin orders /\ pc[n] # "posting")
                /\ \/ n \notin flag.running
                   \/ check.pc = "act" /\ check.first /\ n \in check.left

\* Neither a resume nor a completed cancellation starts a strategy again.
LEMMA StopStep == ASSUME TypeOK, StopInv, [Next]_vars PROVE StopInv'
<1> USE GateAssumption DEF StopInv, TypeOK, Typed, Gates, Checks, EnginePcs,
                           Flags, AwaitsCheck
<1>1. ASSUME TimerCheck PROVE StopInv'
  BY <1>1 DEF TimerCheck, CheckBegins, NoCheck
<1>2. ASSUME NEW m \in Members, EngineCheck(m) PROVE StopInv'
  BY <1>2 DEF EngineCheck, CheckBegins, NoCheck
<1>3. ASSUME NEW m \in Members, ResumeCheck(m) PROVE StopInv'
  BY <1>3 DEF ResumeCheck, CheckBegins, NoCheck
<1>4. ASSUME NEW m \in Members, CheckRead(m) PROVE StopInv'
  BY <1>4 DEF CheckRead
<1>5. ASSUME CheckStore PROVE StopInv'
  BY <1>5 DEF CheckStore, ToCancel, Generation, NoCheck, Reached
<1>6. ASSUME NEW m \in Members, CheckAct(m) PROVE StopInv'
  BY <1>6 DEF CheckAct, ToCancel
<1>7. ASSUME CheckEnd PROVE StopInv'
  BY <1>7 DEF CheckEnd, NoCheck, AfterCheck
<1>8. ASSUME CommitConfig PROVE StopInv'
  <2>1. gate.triggered => gate.enabled
    OBVIOUS
  <2>2. CASE gate.enabled
    <3>1. gate'.triggered = FALSE /\ check'.pc = "act"
      BY <1>8, <2>2 DEF CommitConfig, CheckBegins, NoCheck
    <3> QED
      BY <3>1
  <2>3. CASE ~gate.enabled
    <3>1. gate'.triggered = FALSE /\ gate'.enabled = TRUE
      BY <1>8, <2>1, <2>3 DEF CommitConfig, CheckBegins
    <3>2. check'.unsafe = FALSE
      BY <1>8 DEF CommitConfig, CheckBegins, NoCheck
    <3> QED
      BY <3>1, <3>2
  <2> QED
    BY <2>2, <2>3
<1>9. ASSUME NEW m \in Members, Boot(m) PROVE StopInv'
  BY <1>9 DEF Boot, Goto, Fault
<1>10. ASSUME NEW m \in Members, Submit(m) PROVE StopInv'
  BY <1>10 DEF Submit, Goto, BlocksSubmission
<1>11. ASSUME NEW m \in Members, PostResting(m) PROVE StopInv'
  BY <1>11 DEF PostResting, Goto
<1>12. ASSUME NEW m \in Members, PostUncertain(m) PROVE StopInv'
  BY <1>12 DEF PostUncertain, Goto, Fill
<1>13. ASSUME NEW m \in Members, PostAborted(m) PROVE StopInv'
  BY <1>13 DEF PostAborted, Goto, Fault, Fill
<1>14. ASSUME NEW m \in Members, Acquire(m) PROVE StopInv'
  BY <1>14 DEF Acquire, Goto, WriterMayEnter
<1>15. ASSUME NEW m \in Members, SyncOk(m) PROVE StopInv'
  BY <1>15 DEF SyncOk, Goto
<1>16. ASSUME NEW m \in Members, SyncFails(m) PROVE StopInv'
  BY <1>16 DEF SyncFails, Goto, Fault
<1>17. ASSUME NEW m \in Members, Resolve(m) PROVE StopInv'
  BY <1>17 DEF Resolve, Leave, Goto
<1>18. ASSUME NEW m \in Members, CommitFails(m) PROVE StopInv'
  BY <1>18 DEF CommitFails, Goto, Fault
<1>19. ASSUME NEW m \in Members, Fail(m) PROVE StopInv'
  BY <1>19 DEF Fail, Goto
<1>20. ASSUME NEW m \in Members, Withdraw(m) PROVE StopInv'
  BY <1>20 DEF Withdraw, Leave, Goto
<1>21. ASSUME NEW m \in Members, ExchangeFill(m) PROVE StopInv'
  BY <1>21 DEF ExchangeFill, Fill
<1>22. ASSUME NEW m \in Members, Pause(m) PROVE StopInv'
  BY <1>22 DEF Pause
<1>23. ASSUME NEW m \in Members, SnapshotFill(m) PROVE StopInv'
  BY <1>23 DEF SnapshotFill, Goto
<1>24. ASSUME NEW m \in Members, SnapshotClean(m) PROVE StopInv'
  BY <1>24 DEF SnapshotClean, Goto
<1>25. ASSUME NEW m \in Members, SnapshotFails(m) PROVE StopInv'
  BY <1>25 DEF SnapshotFails, Goto, Fault
<1>26. ASSUME NEW m \in Members, CancelStart(m) PROVE StopInv'
  BY <1>26 DEF CancelStart, Goto
<1>27. ASSUME NEW m \in Members, CancelEnds(m) PROVE StopInv'
  BY <1>27 DEF CancelEnds, Goto, Fault
<1>28. ASSUME NEW m \in Members, CancelDone(m) PROVE StopInv'
  BY <1>28 DEF CancelDone, Goto, ClearsQueued
<1>29. CASE UNCHANGED vars
  BY <1>29 DEF vars
<1> QED
  BY <1>1, <1>2, <1>3, <1>4, <1>5, <1>6, <1>7, <1>8, <1>9, <1>10, <1>11,
     <1>12, <1>13, <1>14, <1>15, <1>16, <1>17, <1>18, <1>19, <1>20,
     <1>21, <1>22, <1>23, <1>24, <1>25, <1>26, <1>27, <1>28, <1>29
     DEF Next, EngineStep, CheckStep

(* Once the gate has tripped and the check has ended, no strategy trades,    *)
(* and one without a cancellation to do has no order and no request.         *)
THEOREM TrippedStops == Spec => []TrippedMeansStopped
<1>1. Init => StopInv
  BY DEF Init, StopInv, NoCheck
<1>2. TypeOK /\ StopInv /\ [Next]_vars => StopInv'
  BY StopStep
<1>3. StopInv => TrippedMeansStopped
  BY DEF StopInv, TrippedMeansStopped
<1> QED
  BY <1>1, <1>2, <1>3, TypeCorrect, PTL DEF Spec

-----------------------------------------------------------------------------
(* The sum of the positions.                                                *)

\* An engine that has synced its position and waits for the total.
Untold(n) == pc[n] \in {"syncCheck", "readyCheck"}

\* What a check that is reading has counted, or should have: not the position
\* of an engine that synced meanwhile, for it has a check of its own to come.
Counted ==
    [n \in Members |->
       IF n \in check.left \/ (Untold(n) /\ check.who # n) THEN 0 ELSE pos[n]]

\* What the last check that ended its reading has counted.
Told ==
    [n \in Members |->
       IF Untold(n) /\ ~(check.pc = "act" /\ check.who = n) THEN 0 ELSE pos[n]]

\* The switch is being changed and its first check has not read everything.
Switching == check.pc = "read" /\ check.who = "config"

SumInv ==
    /\ check.pc = "read" => Sum(Counted) <= check.total
    /\ gate.enabled /\ ~gate.blocked /\ ~Switching => Sum(Told) < Limit

\* The sum of the model is the total of the lemmas.
LEMMA SumIsTotal == \A f : Sum(f) = Total(f, Members)
BY DEF Sum, Total

LEMMA Positions ==
  ASSUME Typed
  PROVE  /\ \A n \in Members : Counted[n] \in Nat /\ Told[n] \in Nat
         /\ Sum(Counted) \in Nat /\ Sum(Told) \in Nat
<1>1. \A n \in Members : Counted[n] \in Nat /\ Told[n] \in Nat
  BY DEF Typed, Counted, Told
<1> QED
  BY <1>1, SumIsTotal, TotalNat, GateAssumption

\* Counting less keeps the sum within the same bound.
LEMMA SumShrinks ==
  ASSUME NEW f, NEW g, \A n \in Members : f[n] \in Nat /\ g[n] \in Nat /\ g[n] <= f[n]
  PROVE  Sum(g) <= Sum(f) /\ Sum(f) \in Nat /\ Sum(g) \in Nat
<1>1. Total(g, Members) <= Total(f, Members)
  BY TotalGrows, GateAssumption
<1>2. Total(f, Members) \in Nat /\ Total(g, Members) \in Nat
  BY TotalNat, GateAssumption
<1> QED
  BY <1>1, <1>2, SumIsTotal

\* A step that only sends engines to wait for a check.
LEMMA SumKept ==
  ASSUME TypeOK, SumInv, Typed', UNCHANGED check,
         gate'.enabled = gate.enabled, gate'.blocked = gate.blocked,
         \A n \in Members :
           /\ Untold(n) => Untold(n)'
           /\ \/ pos'[n] = pos[n]
              \/ Untold(n)' /\ check.who # n
  PROVE  SumInv'
<1>0. /\ \A n \in Members : pos[n] \in Nat /\ pos'[n] \in Nat
      /\ check.total \in Nat /\ Limit \in Nat
  BY GateAssumption DEF TypeOK, Typed, Checks
<1> DEFINE counted == Counted'
           told == Told'
<1>1. \A n \in Members : Counted[n] \in Nat /\ counted[n] \in Nat
                         /\ counted[n] <= Counted[n]
  BY <1>0 DEF Counted, Untold
<1>2. \A n \in Members : Told[n] \in Nat /\ told[n] \in Nat /\ told[n] <= Told[n]
  BY <1>0 DEF Told, Untold
<1> HIDE DEF counted, told
<1>3. /\ Sum(counted) <= Sum(Counted)
      /\ Sum(counted) \in Nat /\ Sum(Counted) \in Nat
  BY <1>1, SumShrinks
<1>4. Sum(told) <= Sum(Told) /\ Sum(told) \in Nat /\ Sum(Told) \in Nat
  BY <1>2, SumShrinks
<1>5. Sum(Counted)' = Sum(counted) /\ Sum(Told)' = Sum(told)
  BY DEF counted, told
<1> QED
  BY <1>0, <1>3, <1>4, <1>5 DEF SumInv, Switching

\* A check begins with nothing counted.
LEMMA SumBegins ==
  ASSUME TypeOK, SumInv, Typed', NEW who, NEW resume, NEW enabled \in BOOLEAN,
         CheckBegins(who, resume, enabled),
         enabled = gate.enabled \/ who = "config"
  PROVE  SumInv'
<1>0. /\ \A n \in Members : pos[n] \in Nat
      /\ Sum(Told) \in Nat /\ Limit \in Nat
      /\ gate.enabled \in BOOLEAN /\ gate.blocked \in BOOLEAN
  BY Positions, GateAssumption DEF TypeOK, Typed, Gates
<1>1. /\ check.pc = "free" /\ UNCHANGED <<pc, pos>>
      /\ check'.pc = IF enabled THEN "read" ELSE "act"
      /\ check'.who = who /\ check'.left = Members /\ check'.total = 0
      /\ gate'.enabled = enabled
      /\ gate'.blocked = (gate.blocked /\ enabled)
  BY DEF CheckBegins, NoCheck, TypeOK, Typed, Gates
<1>2. CASE enabled
  <2> DEFINE counted == Counted'
  <2>1. Sum(Counted)' = 0
    <3>1. \A n \in Members : counted[n] = 0
      BY <1>1, <1>2 DEF Counted
    <3> HIDE DEF counted
    <3>2. Sum(counted) = 0
      BY <3>1, SumIsTotal, TotalZero, GateAssumption
    <3> QED
      BY <3>2 DEF counted
  <2>2. Told' = Told
    BY <1>1, <1>2 DEF Told, Untold
  <2>3. check'.pc = "read" => (Sum(Counted) <= check.total)'
    BY <1>1, <2>1
  <2>4. Sum(Told)' = Sum(Told)
    BY <2>2
  <2>5. gate'.enabled /\ ~gate'.blocked /\ ~Switching' => Sum(Told) < Limit
    BY <1>0, <1>1, <1>2 DEF SumInv, Switching
  <2> QED
    BY <2>3, <2>4, <2>5 DEF SumInv
<1>3. CASE ~enabled
  BY <1>1, <1>3 DEF SumInv
<1> QED
  BY <1>2, <1>3


\* What a check reads it adds, and no more than that becomes counted.
LEMMA SumReads ==
  ASSUME TypeOK, SumInv, Typed', NEW m \in Members, CheckRead(m)
  PROVE  SumInv'
<1>0. /\ \A n \in Members : pos[n] \in Nat /\ Counted[n] \in Nat
      /\ Sum(Counted) \in Nat /\ check.total \in Nat
  BY Positions DEF TypeOK, Typed, Checks
<1>1. /\ check.pc = "read" /\ m \in check.left
      /\ UNCHANGED <<gate, pc, pos>>
      /\ check'.pc = check.pc /\ check'.who = check.who
      /\ check'.left = check.left \ {m} /\ check'.total = check.total + pos[m]
  BY DEF CheckRead, TypeOK, Typed, Checks
<1> DEFINE counted == Counted'
<1>2. /\ \A n \in Members : counted[n] \in Nat
      /\ \A n \in Members \ {m} : counted[n] = Counted[n]
      /\ Counted[m] = 0 /\ counted[m] <= pos[m]
  BY <1>0, <1>1 DEF Counted, Untold
<1> HIDE DEF counted
<1>3. Sum(counted) = Sum(Counted) - Counted[m] + counted[m]
  <2>1. /\ IsFiniteSet(Members)
        /\ \A n \in Members : Counted[n] \in Int /\ counted[n] \in Int
    BY <1>0, <1>2, GateAssumption
  <2> QED
    BY <2>1, <1>2, TotalChanges, SumIsTotal
<1>4. Sum(counted) <= check.total + pos[m]
  BY <1>0, <1>1, <1>2, <1>3 DEF SumInv
<1>5. Sum(Counted)' = Sum(counted)
  BY DEF counted
<1>6. Told' = Told
  BY <1>1 DEF Told, Untold
<1>7. Sum(Told)' = Sum(Told) /\ Switching' = Switching
  BY <1>1, <1>6 DEF Switching
<1> QED
  BY <1>1, <1>4, <1>5, <1>7 DEF SumInv

\* The gate opens only if what was counted is below the limit.
LEMMA SumStored ==
  ASSUME TypeOK, SumInv, CheckStore
  PROVE  SumInv'
<1>1. /\ check.pc = "read" /\ check.left = {} /\ UNCHANGED <<pc, pos>>
      /\ check'.pc = "act" /\ check'.who = check.who
      /\ gate'.blocked = (check.incomplete \/ Reached)
  BY DEF CheckStore, TypeOK, Typed, Gates, NoCheck
<1>2. Told' = Counted
  BY <1>1 DEF Told, Counted, Untold
<1>3. Sum(Told)' = Sum(Counted)
  BY <1>2
<1>4. Sum(Counted) \in Nat /\ check.total \in Nat /\ Limit \in Nat
  BY Positions, GateAssumption DEF TypeOK, Typed, Checks
<1>5. ~gate'.blocked => check.total < Limit
  <2>1. ~gate'.blocked => ~Reached
    BY <1>1
  <2> QED
    BY <2>1, <1>4 DEF Reached
<1>6. Sum(Counted) <= check.total
  BY <1>1 DEF SumInv
<1>7. ~gate'.blocked => Sum(Counted) < Limit
  BY <1>4, <1>5, <1>6
<1> QED
  BY <1>1, <1>3, <1>7 DEF SumInv

\* Nothing is told anew while a check acts or ends: the engine it was run for
\* goes on with a position that was counted.
LEMMA SumActs ==
  ASSUME TypeOK, SumInv, (\E m \in Members : CheckAct(m)) \/ CheckEnd
  PROVE  SumInv'
<1>1. /\ check.pc = "act" /\ UNCHANGED <<gate, pos>>
      /\ check'.pc # "read"
  <2>1. ASSUME NEW m \in Members, CheckAct(m)
        PROVE  /\ check.pc = "act" /\ UNCHANGED <<gate, pos>>
               /\ check'.pc # "read"
    <3>1. check' = [check EXCEPT !.left = @ \ {m}]
      BY <2>1 DEF CheckAct
    <3> QED
      BY <2>1, <3>1 DEF CheckAct, TypeOK, Typed, Checks
  <2>2. ASSUME CheckEnd
        PROVE  /\ check.pc = "act" /\ UNCHANGED <<gate, pos>>
               /\ check'.pc # "read"
    BY <2>2 DEF CheckEnd, NoCheck
  <2> QED
    BY <2>1, <2>2
<1>2. Told' = Told
  <2>1. ASSUME NEW m \in Members, CheckAct(m) PROVE Told' = Told
    BY <2>1 DEF CheckAct, TypeOK, Typed, Checks, Told, Untold
  <2>2. ASSUME CheckEnd PROVE Told' = Told
    <3>1. \A n \in Members :
            IF check.who = n THEN ~Untold(n)' ELSE pc'[n] = pc[n]
      BY <2>2 DEF CheckEnd, AfterCheck, TypeOK, Typed, Holders, AwaitsCheck, Untold
    <3>2. check'.pc = "free" /\ UNCHANGED pos
      BY <2>2 DEF CheckEnd, NoCheck
    <3> QED
      BY <1>1, <3>1, <3>2 DEF Told, Untold
  <2> QED
    BY <2>1, <2>2
<1>3. Sum(Told)' = Sum(Told)
  BY <1>2
<1> QED
  BY <1>1, <1>3 DEF SumInv, Switching

\* Every step keeps what the sums promise.
LEMMA SumStep == ASSUME TypeOK, SumInv, [Next]_vars, Typed' PROVE SumInv'
<1> DEFINE Kept == /\ UNCHANGED check
                   /\ gate'.enabled = gate.enabled /\ gate'.blocked = gate.blocked
                   /\ \A n \in Members :
                         /\ Untold(n) => Untold(n)'
                         /\ \/ pos'[n] = pos[n]
                            \/ Untold(n)' /\ check.who # n
<1>0. Kept => SumInv'
  BY SumKept
<1>1. ASSUME TimerCheck PROVE SumInv'
  BY <1>1, SumBegins DEF TimerCheck, TypeOK, Typed, Gates
<1>2. ASSUME NEW m \in Members, EngineCheck(m) PROVE SumInv'
  BY <1>2, SumBegins DEF EngineCheck, TypeOK, Typed, Gates
<1>3. ASSUME NEW m \in Members, ResumeCheck(m) PROVE SumInv'
  BY <1>3, SumBegins DEF ResumeCheck, TypeOK, Typed, Gates
<1>4. ASSUME NEW m \in Members, CheckRead(m) PROVE SumInv'
  BY <1>4, SumReads
<1>5. ASSUME CheckStore PROVE SumInv'
  BY <1>5, SumStored
<1>6. ASSUME NEW m \in Members, CheckAct(m) PROVE SumInv'
  BY <1>6, SumActs
<1>7. ASSUME CheckEnd PROVE SumInv'
  BY <1>7, SumActs
<1>8. ASSUME CommitConfig PROVE SumInv'
  BY <1>8, SumBegins DEF CommitConfig, TypeOK, Typed, Gates
<1> USE DEF TypeOK, Typed, Gates, Untold
<1>9. ASSUME NEW m \in Members, Boot(m) PROVE SumInv'
  BY <1>9, <1>0 DEF Boot, Goto
<1>10. ASSUME NEW m \in Members, Submit(m) PROVE SumInv'
  BY <1>10, <1>0 DEF Submit, Goto
<1>11. ASSUME NEW m \in Members, PostResting(m) PROVE SumInv'
  BY <1>11, <1>0 DEF PostResting, Goto
<1>12. ASSUME NEW m \in Members, PostUncertain(m) PROVE SumInv'
  BY <1>12, <1>0 DEF PostUncertain, Goto
<1>13. ASSUME NEW m \in Members, PostAborted(m) PROVE SumInv'
  BY <1>13, <1>0 DEF PostAborted, Goto
<1>14. ASSUME NEW m \in Members, Acquire(m) PROVE SumInv'
  BY <1>14, <1>0 DEF Acquire, Goto
<1>15. ASSUME NEW m \in Members, SyncOk(m) PROVE SumInv'
  BY <1>15, <1>0 DEF SyncOk, Goto, Holders, AwaitsCheck
<1>16. ASSUME NEW m \in Members, SyncFails(m) PROVE SumInv'
  BY <1>16, <1>0 DEF SyncFails, Goto
<1>17. ASSUME NEW m \in Members, Resolve(m) PROVE SumInv'
  BY <1>17, <1>0 DEF Resolve, Leave, Goto
<1>18. ASSUME NEW m \in Members, CommitFails(m) PROVE SumInv'
  BY <1>18, <1>0 DEF CommitFails, Goto
<1>19. ASSUME NEW m \in Members, Fail(m) PROVE SumInv'
  BY <1>19, <1>0 DEF Fail, Goto
<1>20. ASSUME NEW m \in Members, Withdraw(m) PROVE SumInv'
  BY <1>20, <1>0 DEF Withdraw, Leave, Goto
<1>21. ASSUME NEW m \in Members, ExchangeFill(m) PROVE SumInv'
  BY <1>21, <1>0 DEF ExchangeFill
<1>22. ASSUME NEW m \in Members, Pause(m) PROVE SumInv'
  BY <1>22, <1>0 DEF Pause
<1>23. ASSUME NEW m \in Members, SnapshotFill(m) PROVE SumInv'
  BY <1>23, <1>0 DEF SnapshotFill, Goto
<1>24. ASSUME NEW m \in Members, SnapshotClean(m) PROVE SumInv'
  BY <1>24, <1>0 DEF SnapshotClean, Goto, Holders, AwaitsCheck
<1>25. ASSUME NEW m \in Members, SnapshotFails(m) PROVE SumInv'
  BY <1>25, <1>0 DEF SnapshotFails, Goto
<1>26. ASSUME NEW m \in Members, CancelStart(m) PROVE SumInv'
  BY <1>26, <1>0 DEF CancelStart, Goto
<1>27. ASSUME NEW m \in Members, CancelEnds(m) PROVE SumInv'
  BY <1>27, <1>0 DEF CancelEnds, Goto
<1>28. ASSUME NEW m \in Members, CancelDone(m) PROVE SumInv'
  BY <1>28, <1>0 DEF CancelDone, Goto
<1>29. CASE UNCHANGED vars
  BY <1>29, <1>0 DEF vars
<1> QED
  BY <1>1, <1>2, <1>3, <1>4, <1>5, <1>6, <1>7, <1>8, <1>9, <1>10, <1>11,
     <1>12, <1>13, <1>14, <1>15, <1>16, <1>17, <1>18, <1>19, <1>20,
     <1>21, <1>22, <1>23, <1>24, <1>25, <1>26, <1>27, <1>28, <1>29
     DEF Next, EngineStep, CheckStep

\* Only Submit sends a request.
LEMMA OnlySubmitSends ==
  ASSUME TypeOK, Next, NEW m \in Members, pc[m] # "posting", pc'[m] = "posting"
  PROVE  Submit(m)
<1> USE DEF TypeOK, Typed, Goto
<1>1. ASSUME NEW n \in Members, Submit(n) PROVE Submit(m)
  BY <1>1 DEF Submit
<1>2. ASSUME TimerCheck \/ CheckStep \/ CommitConfig PROVE FALSE
  BY <1>2 DEF TimerCheck, CheckStep, CommitConfig, CheckBegins, CheckRead,
              CheckAct, CheckStore, CheckEnd, AfterCheck
<1>3. ASSUME NEW n \in Members, EngineCheck(n) \/ ResumeCheck(n) PROVE FALSE
  BY <1>3 DEF EngineCheck, ResumeCheck, CheckBegins
<1>4. ASSUME NEW n \in Members, EngineStep(n) PROVE FALSE
  BY <1>4 DEF EngineStep, Boot, PostResting, PostUncertain, Acquire, SyncOk,
              Resolve, Fail, Withdraw, CancelStart, CancelEnds, CancelDone
<1>5. ASSUME NEW n \in Members,
             \/ PostAborted(n) \/ SyncFails(n) \/ CommitFails(n)
             \/ ExchangeFill(n) \/ Pause(n)
             \/ SnapshotFill(n) \/ SnapshotClean(n) \/ SnapshotFails(n)
      PROVE  FALSE
  BY <1>5 DEF PostAborted, SyncFails, CommitFails, ExchangeFill, Pause,
              SnapshotFill, SnapshotClean, SnapshotFails
<1> QED
  BY <1>1, <1>2, <1>3, <1>4, <1>5 DEF Next

\* When a request passes the gate, all positions but those of a periodic sync
\* have been counted by a check that found them below the limit.
LEMMA SubmitCounted ==
  ASSUME TypeOK, FillInv, SumInv, [Next]_vars
  PROVE  SubmitsWithinLimit
<1> SUFFICES ASSUME NEW m \in Members, gate.enabled,
                    pc[m] # "posting", pc'[m] = "posting"
             PROVE  owes = {} /\ Sum([n \in Members |-> Checked(n)]) < Limit
  BY DEF SubmitsWithinLimit
<1>1. Submit(m)
  BY OnlySubmitSends DEF vars
<1>2. ~gate.blocked /\ gate.published = {} /\ gate.failed = gate.recovered
  BY <1>1 DEF Submit, BlocksSubmission
<1>3. owes = {}
  BY <1>2 DEF FillInv, ClosedFor, TypeOK, Typed, Gates
<1>4. Sum(Told) < Limit
  BY <1>1, <1>2 DEF Submit, SumInv, Switching
<1> DEFINE checked == [n \in Members |-> Checked(n)]
<1>5. \A n \in Members : pc[n] # "syncCheck"
  BY <1>2 DEF TypeOK, Holders, Reconciling
<1>6. \A n \in Members : /\ Told[n] \in Nat /\ checked[n] \in Nat
                         /\ checked[n] <= Told[n]
  BY <1>5 DEF Told, Checked, Untold, TypeOK, Typed
<1> HIDE DEF checked
<1>7. /\ Sum(checked) <= Sum(Told)
      /\ Sum(checked) \in Nat /\ Sum(Told) \in Nat
  BY <1>6, SumShrinks
<1>8. Sum(checked) < Limit
  BY <1>4, <1>7, GateAssumption
<1> QED
  BY <1>3, <1>8 DEF checked

(* Whatever fills, syncs and checks of other strategies run between the       *)
(* reading of the positions and the request: it is sent only with every fill  *)
(* accounted for and the checked positions below the limit.                   *)
THEOREM StaysWithinLimit == Spec => NoSubmissionOverLimit
<1>1. Init => FillInv /\ SumInv
  <2>1. ASSUME Init PROVE FillInv
    BY <2>1 DEF Init, FillInv
  <2>2. ASSUME Init PROVE SumInv
    <3>1. \A n \in Members : Told[n] = 0
      BY <2>2 DEF Init, Told, Untold
    <3>2. Sum(Told) = 0
      BY <3>1, SumIsTotal, TotalZero, GateAssumption
    <3> QED
      BY <2>2, <3>2, GateAssumption DEF Init, SumInv, NoCheck
  <2> QED
    BY <2>1, <2>2
<1>2. TypeOK /\ FillInv /\ [Next]_vars => FillInv'
  BY FillStep
<1>3. TypeOK /\ TypeOK' /\ SumInv /\ [Next]_vars => SumInv'
  BY SumStep DEF TypeOK
<1>4. TypeOK /\ FillInv /\ SumInv /\ [Next]_vars => SubmitsWithinLimit
  BY SubmitCounted
<1> QED
  BY <1>1, <1>2, <1>3, <1>4, TypeCorrect, PTL DEF Spec, NoSubmissionOverLimit
=============================================================================
