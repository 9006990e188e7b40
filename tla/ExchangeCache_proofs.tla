------------------------- MODULE ExchangeCache_proofs -------------------------
(***************************************************************************)
(* ExchangeCache keeps its types and locks, and implements FreshReads, for  *)
(* any number of callers, entries and versions, as long as the generation   *)
(* does not wrap around.                                                    *)
(***************************************************************************)
EXTENDS ExchangeCache, TLAPS

-----------------------------------------------------------------------------
(* Types and locks.                                                         *)

LEMMA InitTyped == ASSUME Init PROVE TypeOK
<1>1. 1 \in Entries /\ 0 \in 0..MaxEpoch /\ 0 \in 0..MaxRetires
  BY CacheAssumption DEF CacheAssumption, Entries
<1>2. Idle \in CallType
  BY <1>1 DEF Init, CallType, Idle, Pcs, Kinds, NoEntry, NoAnswer
<1>3. NewEntry \in EntryType
  BY DEF Init, EntryType, NewEntry, NoAnswer
<1>4. Typed
  BY <1>1, <1>2, <1>3 DEF Init, Typed
<1> QED
  BY <1>4, CacheAssumption
     DEF CacheAssumption, Init, TypeOK, Locks, NewEntry, Idle, Holding, Apart

LEMMA IdleTyped == ASSUME TypeOK PROVE Idle \in CallType
  BY CacheAssumption DEF CacheAssumption, TypeOK, Typed, CallType, Idle, Pcs,
                         Kinds, NoEntry, NoAnswer

\* A new entry is one no call refers to, so nobody holds its lock.
LEMMA ReplaceTyped ==
    ASSUME TypeOK, NEW epoch \in 0..MaxEpoch, Replace(epoch)
    PROVE  /\ cache' \in [epoch : 0..MaxEpoch, current : Entries]
           /\ cache'.epoch = epoch
           /\ \A c \in Callers : call[c].entry # cache'.current
           /\ entry'[cache'.current].snapshot = NoAnswer
           /\ entry' \in [Entries -> EntryType]
           /\ \A c \in Callers, e \in Entries :
                entry'[e].lock = c <=> entry[e].lock = c
<1>1. PICK e \in Unused :
        /\ cache' = [epoch |-> epoch, current |-> e]
        /\ entry' = [f \in Entries |-> IF f \in Unused THEN NewEntry
                                                      ELSE entry[f]]
  BY DEF Replace
<1>2. e \in Entries /\ \A c \in Callers : call[c].entry # e
  BY DEF Unused
<1>3. NewEntry \in EntryType
  BY DEF TypeOK, Typed, EntryType, NewEntry, NoAnswer
<1>4. \A c \in Callers, f \in Unused : f \in Entries /\ entry[f].lock # c
  BY DEF Unused, TypeOK, Locks
<1>5. \A c \in Callers : NewEntry.lock # c
  BY CacheAssumption DEF CacheAssumption, NewEntry
<1>6. entry' \in [Entries -> EntryType]
  BY <1>1, <1>3 DEF TypeOK, Typed
<1>7. ASSUME NEW c \in Callers, NEW f \in Entries
      PROVE  entry'[f].lock = c <=> entry[f].lock = c
  BY <1>1, <1>4, <1>5
<1> QED
  BY <1>1, <1>2, <1>6, <1>7 DEF NewEntry

LEMMA EpochTyped == ASSUME TypeOK PROVE NextEpoch \in 0..MaxEpoch
  BY CacheAssumption DEF CacheAssumption, TypeOK, Typed, NextEpoch

\* What a step that gives one caller a new record has to respect.
Fits(c, r) ==
    /\ r.entry = NoEntry <=> r.pc \in Apart
    /\ \A e \in Entries :
         /\ entry'[e].lock = c <=> r.pc \in Holding /\ r.entry = e
         /\ \A d \in Callers \ {c} : entry'[e].lock = d <=> entry[e].lock = d

LEMMA MoveTyped ==
    ASSUME TypeOK, NEW c \in Callers, NEW r \in CallType, Becomes(c, r),
           Fits(c, r), version' = version
    PROVE  call' \in [Callers -> CallType'] /\ Locks'
<1>1. call' \in [Callers -> CallType] /\ CallType' = CallType
  BY DEF TypeOK, Typed, Becomes, CallType
<1>2. call'[c] = r /\ \A d \in Callers \ {c} : call'[d] = call[d]
  BY DEF TypeOK, Typed, Becomes
<1>3. ASSUME NEW d \in Callers
      PROVE  /\ call'[d].entry = NoEntry <=> call'[d].pc \in Apart
             /\ \A e \in Entries :
                  entry'[e].lock = d <=> call'[d].pc \in Holding
                                         /\ call'[d].entry = e
  <2>1. CASE d = c
    BY <1>2, <2>1 DEF Fits
  <2>2. CASE d # c
    BY <1>2, <2>2 DEF Fits, TypeOK, Locks
  <2> QED
    BY <2>1, <2>2
<1> QED
  BY <1>1, <1>3 DEF Locks

\* Dropping the lock of the own entry, whatever else becomes of that entry.
LEMMA UnlockFits ==
    ASSUME TypeOK, NEW c \in Callers, call[c].pc \in Holding,
           NEW x \in EntryType, x.lock = "free",
           entry' = [entry EXCEPT ![call[c].entry] = x]
    PROVE  /\ call[c].entry \in Entries /\ entry' \in [Entries -> EntryType]
           /\ \A e \in Entries :
                /\ entry'[e].lock # c
                /\ \A d \in Callers \ {c} :
                     entry'[e].lock = d <=> entry[e].lock = d
<1>1. call[c].entry \in Entries
  BY DEF TypeOK, Typed, Locks, CallType, Holding, Apart
<1>2. entry' \in [Entries -> EntryType]
  BY <1>1 DEF TypeOK, Typed
<1>3. \A e \in Entries : entry'[e] = IF e = call[c].entry THEN x ELSE entry[e]
  BY <1>1 DEF TypeOK, Typed
<1>4. entry[call[c].entry].lock = c
  BY <1>1 DEF TypeOK, Locks
<1>5. \A e \in Entries : e # call[c].entry => entry[e].lock # c
  BY DEF TypeOK, Locks
<1> QED
  BY <1>1, <1>2, <1>3, <1>4, <1>5, CacheAssumption DEF CacheAssumption

LEMMA UnlockTyped ==
    ASSUME TypeOK, NEW c \in Callers, call[c].pc \in Holding
    PROVE  Unlocked(c) \in EntryType /\ Unlocked(c).lock = "free"
<1>1. entry[call[c].entry] \in EntryType
  BY DEF TypeOK, Typed, Locks, CallType, Holding, Apart
<1> QED
  BY <1>1 DEF Unlocked, EntryType

\* A step of a caller that leaves the rest typed keeps TypeOK.
LEMMA CallerTyped ==
    ASSUME TypeOK, NEW c \in Callers, NEW r \in CallType, Becomes(c, r),
           Fits(c, r), version' = version, invalid' = invalid,
           retires' = retires, seen' \in 1..version, answer' \in 1..version,
           cache' \in [epoch : 0..MaxEpoch, current : Entries],
           entry' \in [Entries -> EntryType]
    PROVE  TypeOK'
<1>1. call' \in [Callers -> CallType'] /\ Locks'
  BY MoveTyped
<1>2. EntryType' = EntryType
  BY DEF EntryType
<1> QED
  BY <1>1, <1>2 DEF TypeOK, Typed

\* What the record of a call and its entry are made of.
LEMMA CallFields ==
    ASSUME TypeOK, NEW c \in Callers
    PROVE  /\ call[c].pc \in Pcs /\ call[c].kind \in Kinds
           /\ call[c].epoch \in 0..MaxEpoch
           /\ call[c].entry \in Entries \cup {NoEntry}
           /\ call[c].began \in 1..version /\ call[c].value \in 0..version
           /\ call[c] \in CallType
  BY DEF TypeOK, Typed, CallType

LEMMA StateFields ==
    ASSUME TypeOK
    PROVE  /\ version \in Nat /\ version \in 1..version
           /\ seen \in 1..version /\ answer \in 1..version
           /\ entry \in [Entries -> EntryType]
           /\ cache \in [epoch : 0..MaxEpoch, current : Entries]
           /\ cache.epoch \in 0..MaxEpoch /\ cache.current \in Entries
           /\ NoEntry \notin Entries
  BY DEF TypeOK, Typed, NoEntry, Entries

\* A caller that neither takes nor drops a lock.
LEMMA PlainFits ==
    ASSUME TypeOK, NEW c \in Callers, NEW r \in CallType, UNCHANGED entry,
           r.entry = NoEntry <=> r.pc \in Apart,
           r.pc \in Holding <=> call[c].pc \in Holding,
           r.pc \in Holding => r.entry = call[c].entry
    PROVE  Fits(c, r)
  BY DEF Fits, TypeOK, Locks

\* A caller that drops the lock it held.
LEMMA FreeFits ==
    ASSUME TypeOK, NEW c \in Callers, NEW r \in CallType,
           r.entry = NoEntry <=> r.pc \in Apart, r.pc \notin Holding,
           \A e \in Entries :
              /\ entry'[e].lock # c
              /\ \A d \in Callers \ {c} :
                   entry'[e].lock = d <=> entry[e].lock = d
    PROVE  Fits(c, r)
  BY DEF Fits

LEMMA ContinueTyped ==
    ASSUME TypeOK, NEW c \in Callers
    PROVE  [Idle EXCEPT !.pc = "look", !.kind = call[c].kind,
                        !.began = call[c].began] \in CallType
<1>1. /\ Idle \in CallType /\ call[c].kind \in Kinds
      /\ call[c].began \in 1..version
  BY IdleTyped, CallFields
<1> QED
  BY <1>1 DEF CallType, Pcs, Idle

\* The records that the calls move to.
LEMMA RecordsTyped ==
    ASSUME TypeOK, NEW c \in Callers
    PROVE  /\ \A pc \in Pcs : [call[c] EXCEPT !.pc = pc] \in CallType
           /\ \A pc \in Pcs, v \in 0..version :
                [call[c] EXCEPT !.pc = pc, !.value = v] \in CallType
           /\ version \in 0..version
<1>1. call[c] \in CallType /\ version \in 0..version
  BY CallFields, StateFields
<1>2. ASSUME NEW pc \in Pcs PROVE [call[c] EXCEPT !.pc = pc] \in CallType
  BY <1>1 DEF CallType
<1>3. ASSUME NEW pc \in Pcs, NEW v \in 0..version
      PROVE  [call[c] EXCEPT !.pc = pc, !.value = v] \in CallType
  BY <1>1 DEF CallType
<1> QED
  BY <1>1, <1>2, <1>3

\* A caller that leaves the lock, and the typed entry x behind.
LEMMA DropTyped ==
    ASSUME TypeOK, NEW c \in Callers, call[c].pc \in Holding,
           NEW x \in EntryType, x.lock = "free",
           entry' = [entry EXCEPT ![call[c].entry] = x],
           NEW r \in CallType, Becomes(c, r), r.pc \notin Holding,
           r.entry = NoEntry <=> r.pc \in Apart,
           UNCHANGED <<version, cache, invalid, seen, answer, retires>>
    PROVE  TypeOK'
<1>1. /\ entry' \in [Entries -> EntryType]
      /\ \A e \in Entries :
           /\ entry'[e].lock # c
           /\ \A d \in Callers \ {c} :
                entry'[e].lock = d <=> entry[e].lock = d
  BY UnlockFits
<1>2. Fits(c, r)
  BY <1>1, FreeFits
<1> QED
  BY <1>1, <1>2, CallerTyped, StateFields

\* A caller that holds no lock, neither before nor after.
LEMMA OpenTyped ==
    ASSUME TypeOK, NEW c \in Callers, NEW r \in CallType, Becomes(c, r),
           r.entry = NoEntry <=> r.pc \in Apart,
           r.pc \in Holding <=> call[c].pc \in Holding,
           r.pc \in Holding => r.entry = call[c].entry,
           UNCHANGED <<version, cache, entry, invalid, retires>>,
           seen' \in 1..version, answer' \in 1..version
    PROVE  TypeOK'
<1>1. Fits(c, r)
  BY PlainFits
<1> QED
  BY <1>1, CallerTyped, StateFields

LEMMA ReturnTyped ==
    ASSUME TypeOK, NEW c \in Callers, Return(c)
    PROVE  Becomes(c, Idle) /\ answer' \in 1..version
<1>1. call[c].value \in 0..version /\ version \in Nat /\ answer \in 1..version
  BY CallFields, StateFields
<1> QED
  BY <1>1 DEF Return, NoAnswer

\* The checks after the lock was dropped.
LEMMA CheckTyped ==
    ASSUME TypeOK, NEW c \in Callers, call[c].pc \notin Holding,
           \/ Continue(c) /\ UNCHANGED answer
           \/ Return(c)
           \/ Fails(c) /\ UNCHANGED answer,
           UNCHANGED <<version, cache, entry, invalid, seen, retires>>
    PROVE  TypeOK'
<1> DEFINE again == [Idle EXCEPT !.pc = "look", !.kind = call[c].kind,
                                 !.began = call[c].began]
<1>1. CASE Continue(c) /\ UNCHANGED answer
  <2>1. again \in CallType /\ again.pc = "look" /\ again.entry = NoEntry
    BY ContinueTyped DEF Idle
  <2> QED
    BY <1>1, <2>1, OpenTyped, StateFields DEF Continue, Holding, Apart
<1>2. ASSUME Becomes(c, Idle), answer' \in 1..version PROVE TypeOK'
  <2>1. Idle \in CallType /\ Idle.pc = "idle" /\ Idle.entry = NoEntry
    BY IdleTyped DEF Idle
  <2> QED
    BY <1>2, <2>1, OpenTyped, StateFields DEF Holding, Apart
<1>3. CASE Return(c)
  BY <1>2, <1>3, ReturnTyped
<1>4. CASE Fails(c) /\ UNCHANGED answer
  BY <1>2, <1>4, StateFields DEF Fails
<1> QED
  BY <1>1, <1>3, <1>4

\* A caller that replaces the entry while it refers to none.
LEMMA RefreshTyped ==
    ASSUME TypeOK, NEW c \in Callers, NEW epoch \in 0..MaxEpoch, Replace(epoch),
           call[c].pc \notin Holding, NEW r \in CallType, Becomes(c, r),
           r.pc \in Apart, r.entry = NoEntry,
           UNCHANGED <<version, invalid, retires>>,
           seen' \in 1..version, answer' \in 1..version
    PROVE  TypeOK'
<1>1. /\ cache' \in [epoch : 0..MaxEpoch, current : Entries]
      /\ entry' \in [Entries -> EntryType]
      /\ \A d \in Callers, e \in Entries :
           entry'[e].lock = d <=> entry[e].lock = d
  BY ReplaceTyped
<1>2. r.pc \notin Holding
  BY DEF Apart, Holding
<1>3. \A e \in Entries : entry[e].lock # c
  BY DEF TypeOK, Locks
<1>4. Fits(c, r)
  BY <1>1, <1>2, <1>3 DEF Fits
<1> QED
  BY <1>1, <1>4, CallerTyped

LEMMA NextTyped == ASSUME TypeOK, [Next]_vars PROVE TypeOK'
<1>1. ASSUME UNCHANGED vars PROVE TypeOK'
  BY <1>1 DEF vars, TypeOK, Typed, Locks, EntryType, CallType
<1>2. ASSUME NEW c \in Callers, Look(c) PROVE TypeOK'
  <2> DEFINE r == [call[c] EXCEPT !.pc = "wait", !.epoch = cache.epoch,
                                  !.entry = cache.current]
  <2>1. r \in CallType
    BY CallFields, StateFields DEF CallType, Pcs
  <2>2. r.pc = "wait" /\ r.entry = cache.current
    BY CallFields DEF CallType
  <2>3. Fits(c, r)
    BY <1>2, <2>1, <2>2, PlainFits, StateFields DEF Look, Apart, Holding
  <2> QED
    BY <1>2, <2>1, <2>3, CallerTyped, StateFields DEF Look
<1>3. ASSUME NEW c \in Callers, Lock(c) PROVE TypeOK'
  <2> DEFINE r == [call[c] EXCEPT !.pc = "held"]
  <2>1. r \in CallType
    BY CallFields DEF CallType, Pcs
  <2>2. r.pc = "held" /\ r.entry = call[c].entry
    BY CallFields DEF CallType
  <2>3. call[c].entry \in Entries
    BY <1>3, CallFields DEF Lock, TypeOK, Locks, Apart
  <2>4. entry[call[c].entry].lock = "free"
        /\ entry' = [entry EXCEPT ![call[c].entry].lock = c]
    BY <1>3 DEF Lock
  <2>5. entry' \in [Entries -> EntryType]
    BY <2>3, <2>4, StateFields DEF EntryType
  <2>6. \A e \in Entries : entry'[e].lock =
          IF e = call[c].entry THEN c ELSE entry[e].lock
    BY <2>3, <2>4, StateFields DEF EntryType
  <2>7. \A e \in Entries : entry[e].lock # c
    BY <1>3 DEF Lock, TypeOK, Locks, Holding
  <2>8. Fits(c, r)
    BY <2>2, <2>3, <2>4, <2>6, <2>7, StateFields, CacheAssumption
       DEF Fits, Apart, Holding, CacheAssumption
  <2> QED
    BY <1>3, <2>1, <2>5, <2>8, CallerTyped, StateFields DEF Lock, Goto
<1>4. ASSUME NEW c \in Callers, TimeOut(c) PROVE TypeOK'
  <2>1. Fits(c, Idle)
    BY <1>4, IdleTyped, PlainFits DEF TimeOut, Idle, Apart, Holding
  <2> QED
    BY <1>4, <2>1, IdleTyped, CallerTyped, StateFields DEF TimeOut, Fails
<1>5. ASSUME NEW c \in Callers, Hold(c) PROVE TypeOK'
  <2> DEFINE e == entry[call[c].entry]
             again == [Idle EXCEPT !.pc = "look", !.kind = call[c].kind,
                                   !.began = call[c].began]
  <2>1. /\ call[c].pc \in Holding
        /\ UNCHANGED <<version, cache, invalid, seen, answer, retires>>
    BY <1>5 DEF Hold, Holding
  <2>2. call[c].entry \in Entries /\ e \in EntryType
    BY <2>1, CallFields, StateFields DEF TypeOK, Locks, Apart, Holding
  <2>3. CASE Continue(c) /\ Unlock(c)
    <3>1. again \in CallType /\ again.pc = "look" /\ again.entry = NoEntry
      BY ContinueTyped DEF Idle
    <3> QED
      BY <2>1, <2>3, <3>1, UnlockTyped, DropTyped
         DEF Continue, Unlock, Holding, Apart
  <2>4. CASE Fails(c) /\ Unlock(c)
    BY <2>1, <2>4, IdleTyped, UnlockTyped, DropTyped
       DEF Fails, Unlock, Holding, Apart, Idle
  <2>5. CASE Becomes(c, [call[c] EXCEPT !.pc = "last", !.value = e.snapshot])
             /\ Unlock(c)
    <3> DEFINE r == [call[c] EXCEPT !.pc = "last", !.value = e.snapshot]
    <3>1. r \in CallType
      BY <2>2, RecordsTyped DEF EntryType, Pcs
    <3>2. r.pc = "last" /\ r.entry = call[c].entry
      BY CallFields DEF CallType
    <3> QED
      BY <2>1, <2>2, <2>5, <3>1, <3>2, UnlockTyped, DropTyped, StateFields
         DEF Unlock, Holding, Apart
  <2>6. CASE /\ Becomes(c, [call[c] EXCEPT !.pc = "load", !.value = version])
             /\ entry' = [entry EXCEPT ![call[c].entry].snapshot = NoAnswer]
    <3> DEFINE r == [call[c] EXCEPT !.pc = "load", !.value = version]
    <3>1. r \in CallType
      BY RecordsTyped DEF Pcs
    <3>2. r.pc = "load" /\ r.entry = call[c].entry
      BY CallFields DEF CallType
    <3>3. entry' \in [Entries -> EntryType]
          /\ \A f \in Entries : entry'[f].lock = entry[f].lock
      BY <2>2, <2>6, StateFields DEF EntryType, NoAnswer
    <3>4. Fits(c, r)
      BY <2>1, <2>2, <3>2, <3>3, StateFields
         DEF Fits, TypeOK, Locks, Apart, Holding
    <3> QED
      BY <2>1, <2>6, <3>1, <3>3, <3>4, CallerTyped, StateFields
  <2> QED
    BY <1>5, <2>3, <2>4, <2>5, <2>6 DEF Hold
<1>6. ASSUME NEW c \in Callers, NEW from \in Pcs, NEW to \in Pcs,
             Respond(c, from, to), from \in Holding <=> to \in Holding,
             from \in Apart <=> to \in Apart
      PROVE  TypeOK'
  <2>1. PICK v \in {NoAnswer} \cup (call[c].value .. version) :
          Becomes(c, [call[c] EXCEPT !.pc = to, !.value = v])
    BY <1>6 DEF Respond
  <2> DEFINE r == [call[c] EXCEPT !.pc = to, !.value = v]
  <2>2. v \in 0..version
    BY CallFields, StateFields DEF NoAnswer
  <2>3. r \in CallType
    BY <2>2, RecordsTyped
  <2>4. r.pc = to /\ r.entry = call[c].entry
    BY CallFields DEF CallType
  <2>5. call[c].entry = NoEntry <=> from \in Apart
    BY <1>6 DEF Respond, TypeOK, Locks
  <2> QED
    BY <1>6, <2>1, <2>3, <2>4, <2>5, OpenTyped, StateFields DEF Respond
<1>7. ASSUME NEW c \in Callers, Loaded(c) PROVE TypeOK'
  <2> DEFINE again == [Idle EXCEPT !.pc = "look", !.kind = call[c].kind,
                                   !.began = call[c].began]
             done == [call[c] EXCEPT !.pc = "last"]
  <2>1. /\ call[c].pc \in Holding
        /\ UNCHANGED <<version, cache, invalid, seen, answer, retires>>
    BY <1>7 DEF Loaded, Holding
  <2>2. Unlocked(c) \in EntryType /\ Unlocked(c).lock = "free"
    BY <2>1, UnlockTyped
  <2>3. CASE Continue(c) /\ Unlock(c)
    <3>1. again \in CallType /\ again.pc = "look" /\ again.entry = NoEntry
      BY ContinueTyped DEF Idle
    <3> QED
      BY <2>1, <2>2, <2>3, <3>1, DropTyped DEF Continue, Unlock, Holding, Apart
  <2>4. CASE /\ Fails(c)
             /\ entry' = [entry EXCEPT ![call[c].entry] =
                            [Unlocked(c) EXCEPT !.cooling = TRUE]]
    <3>1. /\ [Unlocked(c) EXCEPT !.cooling = TRUE] \in EntryType
          /\ [Unlocked(c) EXCEPT !.cooling = TRUE].lock = "free"
      BY <2>2 DEF EntryType
    <3> QED
      BY <2>1, <2>4, <3>1, IdleTyped, DropTyped DEF Fails, Holding, Apart, Idle
  <2>5. CASE /\ Goto(c, "last")
             /\ entry' = [entry EXCEPT ![call[c].entry] =
                            [Unlocked(c) EXCEPT !.snapshot = call[c].value]]
    <3>1. /\ [Unlocked(c) EXCEPT !.snapshot = call[c].value] \in EntryType
          /\ [Unlocked(c) EXCEPT !.snapshot = call[c].value].lock = "free"
      BY <2>2, CallFields DEF EntryType
    <3>2. done \in CallType
      BY RecordsTyped DEF Pcs
    <3>3. done.pc = "last" /\ done.entry = call[c].entry
      BY CallFields DEF CallType
    <3>4. call[c].entry # NoEntry
      BY <2>1 DEF TypeOK, Locks, Holding, Apart
    <3> QED
      BY <2>1, <2>5, <3>1, <3>2, <3>3, <3>4, DropTyped DEF Goto, Holding, Apart
  <2> QED
    BY <1>7, <2>3, <2>4, <2>5 DEF Loaded
<1>8. ASSUME NEW c \in Callers, Last(c) PROVE TypeOK'
  <2> DEFINE r == [call[c] EXCEPT !.pc = "single", !.value = version]
  <2>1. /\ call[c].pc = "last" /\ call[c].pc \notin Holding
        /\ UNCHANGED <<version, cache, entry, invalid, seen, retires>>
    BY <1>8 DEF Last, Holding
  <2>2. CASE \/ Continue(c) /\ UNCHANGED answer
             \/ Return(c)
             \/ Fails(c) /\ UNCHANGED answer
    BY <2>1, <2>2, CheckTyped
  <2>3. CASE Becomes(c, r) /\ UNCHANGED answer
    <3>1. r \in CallType
      BY RecordsTyped DEF Pcs
    <3>2. r.pc = "single" /\ r.entry = call[c].entry
      BY CallFields DEF CallType
    <3>3. call[c].entry # NoEntry
      BY <2>1 DEF TypeOK, Locks, Apart
    <3> QED
      BY <2>1, <2>3, <3>1, <3>2, <3>3, OpenTyped, StateFields DEF Holding, Apart
  <2> QED
    BY <1>8, <2>2, <2>3 DEF Last
<1>9. ASSUME NEW c \in Callers, Singled(c) PROVE TypeOK'
  <2>1. /\ call[c].pc \notin Holding
        /\ UNCHANGED <<version, cache, entry, invalid, seen, retires>>
        /\ \/ Continue(c) /\ UNCHANGED answer
           \/ Return(c)
    BY <1>9 DEF Singled, Holding
  <2> QED
    BY <2>1, CheckTyped
<1>10. ASSUME NEW c \in Callers, Detach(c) PROVE TypeOK'
  <2> DEFINE r == [call[c] EXCEPT !.pc = "ask", !.epoch = cache.epoch,
                                  !.value = version]
  <2>1. /\ call[c].pc = "detach" /\ Replace(cache.epoch) /\ Becomes(c, r)
        /\ UNCHANGED <<version, invalid, seen, answer, retires>>
    BY <1>10 DEF Detach, DetachedEpoch
  <2>2. r \in CallType
    <3>1. "ask" \in Pcs /\ cache.epoch \in 0..MaxEpoch /\ version \in 0..version
      BY StateFields DEF Pcs
    <3> QED
      BY <3>1, CallFields DEF CallType
  <2>3. r.pc = "ask" /\ r.entry = call[c].entry /\ call[c].entry = NoEntry
    BY <2>1, CallFields DEF CallType, TypeOK, Locks, Apart
  <2> QED
    BY <2>1, <2>2, <2>3, RefreshTyped, StateFields DEF Holding, Apart
<1>11. ASSUME NEW c \in Callers, Asked(c) PROVE TypeOK'
  <2> DEFINE r == [call[c] EXCEPT !.pc = "detach"]
  <2>1. /\ call[c].pc = "asked" /\ call[c].pc \notin Holding
        /\ UNCHANGED <<version, invalid, retires>>
    BY <1>11 DEF Asked, Holding
  <2>2. call[c].entry = NoEntry
    BY <2>1 DEF TypeOK, Locks, Apart
  <2>3. CASE Goto(c, "detach") /\ UNCHANGED <<cache, entry, seen, answer>>
    <3>1. r \in CallType
      BY RecordsTyped DEF Pcs
    <3>2. r.pc = "detach" /\ r.entry = NoEntry
      BY <2>2, CallFields DEF CallType
    <3> QED
      BY <2>1, <2>3, <3>1, <3>2, OpenTyped, StateFields DEF Goto, Holding, Apart
  <2>4. CASE Fails(c) /\ UNCHANGED <<cache, entry, seen, answer>>
    <3>1. Idle \in CallType /\ Idle.pc = "idle" /\ Idle.entry = NoEntry
      BY IdleTyped DEF Idle
    <3> QED
      BY <2>1, <2>4, <3>1, OpenTyped, StateFields DEF Fails, Holding, Apart
  <2>5. CASE /\ Replace(cache.epoch) /\ Return(c)
             /\ seen' = IF call[c].value > seen THEN call[c].value ELSE seen
    <3>1. Idle \in CallType /\ Idle.pc = "idle" /\ Idle.entry = NoEntry
      BY IdleTyped DEF Idle
    <3>2. seen' \in 1..version
      BY <2>5, CallFields, StateFields
    <3> QED
      BY <2>1, <2>5, <3>1, <3>2, ReturnTyped, RefreshTyped, StateFields
         DEF Apart
  <2> QED
    BY <1>11, <2>3, <2>4, <2>5 DEF Asked
<1>12. ASSUME NEW c \in Callers, NEW kind \in Kinds, Begin(c, kind)
      PROVE  TypeOK'
  <2> DEFINE pc == IF kind = "critical" THEN "detach" ELSE "look"
             r == [Idle EXCEPT !.pc = pc, !.kind = kind, !.began = Since(kind)]
  <2>1. Since(kind) \in 1..version
    BY StateFields DEF Since
  <2>2. r \in CallType
    BY <2>1, IdleTyped DEF CallType, Idle, Pcs
  <2>3. r.pc \in {"detach", "look"} /\ r.entry = NoEntry
    BY DEF Idle
  <2>4. /\ call[c].pc = "idle" /\ Becomes(c, r)
        /\ UNCHANGED <<version, cache, entry, invalid, seen, answer, retires>>
    BY <1>12 DEF Begin
  <2>5. Fits(c, Idle)
    BY <2>4, IdleTyped, PlainFits DEF Idle, Apart, Holding
  <2>6. Fits(c, r)
    BY <2>3, <2>5 DEF Fits, Holding, Apart, Idle, NoEntry
  <2> QED
    BY <2>2, <2>4, <2>6, CallerTyped, StateFields
<1>13. ASSUME NEW c \in Callers, Abort(c) PROVE TypeOK'
  <2>1. /\ Idle \in CallType /\ Idle.pc = "idle" /\ Idle.entry = NoEntry
        /\ Becomes(c, Idle)
        /\ UNCHANGED <<version, cache, invalid, seen, answer, retires>>
    BY <1>13, IdleTyped DEF Idle, Abort, Fails
  <2>2. CASE call[c].pc \in Holding
    BY <1>13, <2>1, <2>2, UnlockTyped, DropTyped
       DEF Abort, Unlock, Holding, Apart
  <2>3. CASE call[c].pc \notin Holding
    BY <1>13, <2>1, <2>3, OpenTyped, StateFields DEF Abort, Holding, Apart
  <2> QED
    BY <2>2, <2>3
<1>14. ASSUME Retire PROVE TypeOK'
  <2>1. /\ retires < MaxRetires
        /\ Replace(NextEpoch) /\ NextEpoch \in 0..MaxEpoch
        /\ UNCHANGED <<version, call, seen, answer>>
        /\ invalid' = version /\ retires' = retires + 1
    BY <1>14, EpochTyped DEF Retire
  <2>2. /\ cache' \in [epoch : 0..MaxEpoch, current : Entries]
        /\ entry' \in [Entries -> EntryType]
        /\ \A d \in Callers, e \in Entries :
             entry'[e].lock = d <=> entry[e].lock = d
    BY <2>1, ReplaceTyped
  <2>3. EntryType' = EntryType /\ CallType' = CallType
    BY <2>1 DEF EntryType, CallType
  <2>4. retires' \in 0..MaxRetires
    BY <2>1, CacheAssumption DEF CacheAssumption, TypeOK, Typed
  <2>5. Typed'
    BY <2>1, <2>2, <2>3, <2>4, StateFields DEF TypeOK, Typed
  <2>6. Locks'
    BY <2>1, <2>2 DEF TypeOK, Locks
  <2> QED
    BY <2>5, <2>6 DEF TypeOK
<1>15. ASSUME Change PROVE TypeOK'
  <2>1. /\ version' = version + 1 /\ version \in Nat
        /\ UNCHANGED <<cache, entry, call, invalid, seen, answer, retires>>
    BY <1>15, StateFields DEF Change
  <2>2. EntryType \subseteq EntryType' /\ CallType \subseteq CallType'
    BY <2>1 DEF EntryType, CallType
  <2>3. entry' \in [Entries -> EntryType'] /\ call' \in [Callers -> CallType']
    BY <2>1, <2>2 DEF TypeOK, Typed
  <2>4. Typed'
    BY <2>1, <2>3 DEF TypeOK, Typed
  <2> QED
    BY <2>1, <2>4 DEF TypeOK, Locks
<1>16. ASSUME Expire PROVE TypeOK'
  <2> DEFINE e == cache.current
  <2>1. /\ e \in Entries /\ entry[e] \in EntryType
        /\ entry \in [Entries -> EntryType]
    BY StateFields
  <2>2. PICK x \in EntryType :
          x.lock = entry[e].lock /\ entry' = [entry EXCEPT ![e] = x]
    <3>1. CASE entry' = [entry EXCEPT ![e].snapshot = NoAnswer]
      <4>1. [entry[e] EXCEPT !.snapshot = NoAnswer] \in EntryType
        BY <2>1, StateFields DEF EntryType, NoAnswer
      <4> QED
        BY <2>1, <3>1, <4>1 DEF EntryType
    <3>2. CASE entry' = [entry EXCEPT ![e].cooling = FALSE]
      <4>1. [entry[e] EXCEPT !.cooling = FALSE] \in EntryType
        BY <2>1 DEF EntryType
      <4> QED
        BY <2>1, <3>2, <4>1 DEF EntryType
    <3> QED
      BY <1>16, <3>1, <3>2 DEF Expire
  <2>3. /\ entry' \in [Entries -> EntryType]
        /\ \A f \in Entries : entry'[f].lock = entry[f].lock
    BY <2>1, <2>2
  <2>4. EntryType' = EntryType /\ CallType' = CallType
    BY <1>16 DEF Expire, EntryType, CallType
  <2> QED
    BY <1>16, <2>3, <2>4 DEF Expire, TypeOK, Typed, Locks
<1>17. ASSUME NEW c \in Callers, Step(c) PROVE TypeOK'
  <2>1. ASSUME Respond(c, "load", "loaded") PROVE TypeOK'
    BY <1>6, <2>1 DEF Pcs, Holding, Apart
  <2>2. ASSUME Respond(c, "single", "singled") PROVE TypeOK'
    BY <1>6, <2>2 DEF Pcs, Holding, Apart
  <2>3. ASSUME Respond(c, "ask", "asked") PROVE TypeOK'
    BY <1>6, <2>3 DEF Pcs, Holding, Apart
  <2> QED
    BY <1>2, <1>3, <1>4, <1>5, <1>7, <1>8, <1>9, <1>10, <1>11, <1>17, <2>1,
       <2>2, <2>3 DEF Step
<1> QED
  BY <1>1, <1>12, <1>13, <1>14, <1>15, <1>16, <1>17 DEF Next

\* Whatever calls wait, fail, are aborted or are overtaken: the lock of an
\* entry is held by exactly the call that loads or inspects it
\* (get_or_fetch, cache_entries.rs:114).
THEOREM TypeCorrect == Spec => []TypeOK
<1> QED
  BY InitTyped, NextTyped, PTL DEF Spec

-----------------------------------------------------------------------------
(* No stale answer.                                                         *)

LEMMA InitFresh == ASSUME Init PROVE FreshInv
<1>1. 1 \in Entries /\ entry[1].snapshot = NoAnswer
  BY CacheAssumption DEF CacheAssumption, Init, Entries, NewEntry
<1>2. \A c \in Callers : call[c] = Idle
  BY DEF Init
<1>3. Phases
  BY <1>2 DEF Init, Phases, Idle, Refreshing, Requesting
<1>4. NothingStale
  BY <1>1, <1>2 DEF Init, NothingStale, Idle
<1> QED
  BY <1>3, <1>4 DEF FreshInv

\* What FreshInv says of the next record of a call.
Good(r) ==
    /\ r.epoch <= retires'
    /\ r.kind = "critical" <=> r.pc \in Refreshing
    /\ r.kind = "shared" => r.began = 1
    /\ r.pc \in Requesting => r.value # NoAnswer
    /\ r.pc \in {"look", "wait", "held"} => r.value = NoAnswer
    /\ r.value # NoAnswer =>
         /\ r.value >= r.began
         /\ r.entry = cache'.current => r.value >= invalid' /\ r.value >= seen'
         /\ r.pc \in {"ask", "asked"} /\ r.epoch = cache'.epoch =>
              r.value >= invalid'

\* What FreshInv says of the next snapshot.
GoodSnapshot ==
    LET v == entry'[cache'.current].snapshot IN
      v # NoAnswer => v >= invalid' /\ v >= seen'

LEMMA CallerFresh ==
    ASSUME TypeOK, FreshInv, NEW c \in Callers, NEW r \in CallType,
           Becomes(c, r), Good(r), GoodSnapshot,
           \/ UNCHANGED <<cache, seen>>
           \/ Replace(cache.epoch),
           UNCHANGED <<invalid, retires>>
    PROVE  FreshInv'
<1>1. call'[c] = r /\ \A d \in Callers \ {c} : call'[d] = call[d]
  BY DEF TypeOK, Typed, Becomes
<1>2. cache'.epoch = retires'
  BY StateFields, ReplaceTyped DEF FreshInv, Phases
<1>3. ASSUME NEW d \in Callers \ {c} PROVE Good(call[d])
  <2>1. CASE UNCHANGED <<cache, seen>>
    BY <2>1 DEF Good, FreshInv, Phases, NothingStale
  <2>2. CASE Replace(cache.epoch)
    <3>1. cache'.epoch = cache.epoch /\ call[d].entry # cache'.current
      BY <2>2, StateFields, ReplaceTyped
    <3> QED
      BY <3>1 DEF Good, FreshInv, Phases, NothingStale
  <2> QED
    BY <2>1, <2>2
<1>4. \A d \in Callers : Good(call'[d])
  BY <1>1, <1>3
<1>5. Phases'
  BY <1>2, <1>4 DEF Phases, Good
<1>6. NothingStale'
  BY <1>4 DEF NothingStale, Good, GoodSnapshot
<1> QED
  BY <1>5, <1>6 DEF FreshInv

LEMMA GoodNow ==
    ASSUME TypeOK, FreshInv, NEW c \in Callers,
           UNCHANGED <<cache, invalid, seen, retires>>
    PROVE  /\ Good(call[c]) /\ Good(Idle)
           /\ call[c].kind # "critical" =>
                Good([Idle EXCEPT !.pc = "look", !.kind = call[c].kind,
                                  !.began = call[c].began])
<1>1. Good(call[c])
  BY DEF Good, FreshInv, Phases, NothingStale
<1>2. Good(Idle)
  BY CacheAssumption
     DEF Good, Idle, Refreshing, Requesting, TypeOK, Typed, CacheAssumption
<1> QED
  BY <1>1, <1>2 DEF Good, Idle, Refreshing, Requesting

LEMMA UnlockFresh ==
    ASSUME TypeOK, FreshInv, NEW c \in Callers, call[c].pc \in Holding,
           Unlock(c), UNCHANGED <<cache, invalid, seen>>
    PROVE  GoodSnapshot
<1>1. call[c].entry \in Entries /\ cache.current \in Entries
  BY StateFields, CallFields DEF TypeOK, Locks, Holding, Apart
<1>2. entry'[cache.current].snapshot = entry[cache.current].snapshot
  BY <1>1, StateFields DEF Unlock, Unlocked, EntryType
<1> QED
  BY <1>2 DEF GoodSnapshot, FreshInv, NothingStale

LEMMA SameFresh ==
    ASSUME FreshInv, UNCHANGED <<cache, entry, invalid, seen>>
    PROVE  GoodSnapshot
  BY DEF GoodSnapshot, FreshInv, NothingStale

LEMMA NextFresh == ASSUME TypeOK, FreshInv, [Next]_vars PROVE FreshInv'
<1>1. ASSUME UNCHANGED vars PROVE FreshInv'
  BY <1>1 DEF vars, FreshInv, Phases, NothingStale
<1>2. ASSUME NEW c \in Callers, Look(c) PROVE FreshInv'
  <2> DEFINE r == [call[c] EXCEPT !.pc = "wait", !.epoch = cache.epoch,
                                  !.entry = cache.current]
  <2>1. /\ call[c].pc = "look" /\ Becomes(c, r)
        /\ UNCHANGED <<version, cache, entry, invalid, seen, answer, retires>>
    BY <1>2 DEF Look
  <2>2. r \in CallType
    BY CallFields, StateFields DEF CallType, Pcs
  <2>3. /\ r.pc = "wait" /\ r.epoch = cache.epoch /\ r.value = call[c].value
        /\ r.kind = call[c].kind /\ r.began = call[c].began
    BY CallFields DEF CallType
  <2>4. Good(r)
    BY <2>1, <2>3, StateFields
       DEF Good, FreshInv, Phases, Refreshing, Requesting, TypeOK, Typed
  <2> QED
    BY <2>1, <2>2, <2>4, CallerFresh, SameFresh
<1>3. ASSUME NEW c \in Callers, Lock(c) PROVE FreshInv'
  <2> DEFINE r == [call[c] EXCEPT !.pc = "held"]
  <2>1. /\ call[c].pc = "wait" /\ Becomes(c, r)
        /\ entry' = [entry EXCEPT ![call[c].entry].lock = c]
        /\ UNCHANGED <<version, cache, invalid, seen, answer, retires>>
    BY <1>3 DEF Lock, Goto
  <2>2. r \in CallType
    BY RecordsTyped DEF Pcs
  <2>3. /\ r.pc = "held" /\ r.epoch = call[c].epoch /\ r.value = call[c].value
        /\ r.kind = call[c].kind /\ r.began = call[c].began
    BY CallFields DEF CallType
  <2>4. Good(r)
    BY <2>1, <2>3 DEF Good, FreshInv, Phases, Refreshing, Requesting
  <2>5. entry'[cache.current].snapshot = entry[cache.current].snapshot
    BY <2>1, StateFields DEF EntryType
  <2>6. GoodSnapshot
    BY <2>1, <2>5 DEF GoodSnapshot, FreshInv, NothingStale
  <2> QED
    BY <2>1, <2>2, <2>4, <2>6, CallerFresh
<1>4. ASSUME NEW c \in Callers, TimeOut(c) PROVE FreshInv'
  BY <1>4, IdleTyped, GoodNow, CallerFresh, SameFresh DEF TimeOut, Fails
<1>5. ASSUME NEW c \in Callers, Continue(c), call[c].pc \notin Refreshing,
             GoodSnapshot, UNCHANGED <<cache, invalid, seen, retires>>
      PROVE  FreshInv'
  <2>1. call[c].kind # "critical"
    BY <1>5 DEF FreshInv, Phases
  <2> QED
    BY <1>5, <2>1, ContinueTyped, GoodNow, CallerFresh DEF Continue
<1>6. ASSUME NEW c \in Callers, Hold(c) PROVE FreshInv'
  <2> DEFINE e == entry[call[c].entry]
  <2>1. /\ call[c].pc = "held" /\ call[c].pc \in Holding
        /\ call[c].pc \notin Refreshing
        /\ UNCHANGED <<version, cache, invalid, seen, answer, retires>>
    BY <1>6 DEF Hold, Holding, Refreshing
  <2>2. call[c].entry \in Entries /\ e \in EntryType
    BY <2>1, CallFields, StateFields DEF TypeOK, Locks, Apart, Holding
  <2>3. CASE Continue(c) /\ Unlock(c)
    BY <1>5, <2>1, <2>3, UnlockFresh
  <2>4. CASE Fails(c) /\ Unlock(c)
    BY <2>1, <2>4, IdleTyped, GoodNow, UnlockFresh, CallerFresh DEF Fails
  <2>5. CASE /\ IsCurrent(c) /\ Servable(c, e) /\ Unlock(c)
             /\ Becomes(c, [call[c] EXCEPT !.pc = "last", !.value = e.snapshot])
    <3> DEFINE r == [call[c] EXCEPT !.pc = "last", !.value = e.snapshot]
    <3>1. e.snapshot \in 0..version /\ "last" \in Pcs
      BY <2>2 DEF EntryType, Pcs
    <3>2. r \in CallType
      BY <3>1, RecordsTyped
    <3>3. /\ r.pc = "last" /\ r.epoch = call[c].epoch /\ r.value = e.snapshot
          /\ r.kind = call[c].kind /\ r.began = call[c].began
          /\ r.entry = call[c].entry
      BY CallFields DEF CallType
    <3>4. call[c].kind = "shared" /\ call[c].began = 1
      BY <2>1, <2>5, CallFields
         DEF FreshInv, Phases, Servable, Kinds
    <3>5. Good(r)
      BY <2>1, <2>5, <3>1, <3>3, <3>4
         DEF Good, FreshInv, Phases, NothingStale, Refreshing, Requesting,
             IsCurrent, NoAnswer
    <3> QED
      BY <2>1, <2>5, <3>2, <3>5, UnlockFresh, CallerFresh
  <2>6. CASE /\ Becomes(c, [call[c] EXCEPT !.pc = "load", !.value = version])
             /\ entry' = [entry EXCEPT ![call[c].entry].snapshot = NoAnswer]
    <3> DEFINE r == [call[c] EXCEPT !.pc = "load", !.value = version]
    <3>1. r \in CallType
      BY RecordsTyped DEF Pcs
    <3>2. /\ r.pc = "load" /\ r.epoch = call[c].epoch /\ r.value = version
          /\ r.kind = call[c].kind /\ r.began = call[c].began
      BY CallFields DEF CallType
    <3>3. Good(r)
      BY <2>1, <3>2, CallFields, StateFields
         DEF Good, FreshInv, Phases, Refreshing, Requesting, TypeOK, Typed,
             NoAnswer
    <3>4. entry'[cache.current].snapshot \in
            {NoAnswer, entry[cache.current].snapshot}
      BY <2>2, <2>6, StateFields DEF EntryType
    <3>5. GoodSnapshot
      BY <2>1, <3>4 DEF GoodSnapshot, FreshInv, NothingStale
    <3> QED
      BY <2>1, <2>6, <3>1, <3>3, <3>5, CallerFresh
  <2> QED
    BY <1>6, <2>3, <2>4, <2>5, <2>6 DEF Hold
<1>7. ASSUME NEW c \in Callers, NEW from \in Pcs, NEW to \in Pcs,
             Respond(c, from, to), from \in Requesting,
             to \in {"loaded", "singled", "asked"},
             from \in {"ask", "asked"} <=> to \in {"ask", "asked"}
      PROVE  FreshInv'
  <2>1. PICK v \in {NoAnswer} \cup (call[c].value .. version) :
          Becomes(c, [call[c] EXCEPT !.pc = to, !.value = v])
    BY <1>7 DEF Respond
  <2> DEFINE r == [call[c] EXCEPT !.pc = to, !.value = v]
  <2>2. /\ v \in 0..version /\ call[c].value \in 0..version
        /\ v # NoAnswer => v >= call[c].value
    BY CallFields, StateFields DEF NoAnswer
  <2>3. r \in CallType
    BY <2>2, RecordsTyped
  <2>4. /\ r.pc = to /\ r.epoch = call[c].epoch /\ r.value = v
        /\ r.kind = call[c].kind /\ r.began = call[c].began
        /\ r.entry = call[c].entry
    BY CallFields DEF CallType
  <2>5. /\ call[c].pc = from /\ call[c].value # NoAnswer
        /\ UNCHANGED <<version, cache, entry, invalid, seen, answer, retires>>
    BY <1>7 DEF Respond, FreshInv, Phases
  <2>6. /\ invalid \in Nat /\ seen \in Nat /\ call[c].began \in Nat
        /\ version \in Nat
    BY CallFields, StateFields DEF TypeOK, Typed
  <2>7. Good(call[c])
    BY <2>5, GoodNow
  <2>8. Good(r)
    BY <1>7, <2>2, <2>4, <2>5, <2>6, <2>7 DEF Good, Refreshing, Requesting
  <2> QED
    BY <2>1, <2>3, <2>5, <2>8, CallerFresh, SameFresh
<1>8. ASSUME NEW c \in Callers, Loaded(c) PROVE FreshInv'
  <2>1. /\ call[c].pc = "loaded" /\ call[c].pc \in Holding
        /\ call[c].pc \notin Refreshing
        /\ UNCHANGED <<version, cache, invalid, seen, answer, retires>>
    BY <1>8 DEF Loaded, Holding, Refreshing
  <2>2. /\ call[c].entry \in Entries /\ Unlocked(c) \in EntryType
        /\ Unlocked(c).snapshot = entry[call[c].entry].snapshot
    BY <2>1, UnlockTyped, CallFields, StateFields
       DEF TypeOK, Locks, Apart, Holding, Unlocked, EntryType
  <2>3. CASE Continue(c) /\ Unlock(c)
    BY <1>5, <2>1, <2>3, UnlockFresh
  <2>4. CASE /\ Fails(c)
             /\ entry' = [entry EXCEPT ![call[c].entry] =
                            [Unlocked(c) EXCEPT !.cooling = TRUE]]
    <3>1. entry'[cache.current].snapshot = entry[cache.current].snapshot
      BY <2>2, <2>4, StateFields DEF EntryType
    <3>2. GoodSnapshot
      BY <2>1, <3>1 DEF GoodSnapshot, FreshInv, NothingStale
    <3> QED
      BY <2>1, <2>4, <3>2, IdleTyped, GoodNow, CallerFresh DEF Fails
  <2>5. CASE /\ IsCurrent(c) /\ Goto(c, "last")
             /\ entry' = [entry EXCEPT ![call[c].entry] =
                            [Unlocked(c) EXCEPT !.snapshot = call[c].value]]
    <3> DEFINE r == [call[c] EXCEPT !.pc = "last"]
    <3>1. r \in CallType
      BY RecordsTyped DEF Pcs
    <3>2. /\ r.pc = "last" /\ r.epoch = call[c].epoch
          /\ r.value = call[c].value /\ r.kind = call[c].kind
          /\ r.began = call[c].began /\ r.entry = call[c].entry
      BY CallFields DEF CallType
    <3>3. Good(call[c])
      BY <2>1, GoodNow
    <3>4. Good(r)
      BY <2>1, <3>2, <3>3 DEF Good, Refreshing, Requesting
    <3>5. entry'[cache.current].snapshot = call[c].value
      BY <2>2, <2>5, StateFields DEF EntryType, IsCurrent
    <3>6. GoodSnapshot
      BY <2>1, <2>5, <3>5 DEF GoodSnapshot, FreshInv, NothingStale, IsCurrent
    <3> QED
      BY <2>1, <2>5, <3>1, <3>4, <3>6, CallerFresh DEF Goto
  <2> QED
    BY <1>8, <2>3, <2>4, <2>5 DEF Loaded
<1>9. ASSUME NEW c \in Callers, Return(c),
             UNCHANGED <<cache, entry, invalid, seen, retires>>
      PROVE  FreshInv'
  BY <1>9, IdleTyped, GoodNow, CallerFresh, SameFresh DEF Return
<1>10. ASSUME NEW c \in Callers, Last(c) PROVE FreshInv'
  <2> DEFINE r == [call[c] EXCEPT !.pc = "single", !.value = version]
  <2>1. /\ call[c].pc = "last" /\ call[c].pc \notin Refreshing
        /\ UNCHANGED <<version, cache, entry, invalid, seen, retires>>
    BY <1>10 DEF Last, Refreshing
  <2>2. ASSUME Continue(c) PROVE FreshInv'
    BY <1>5, <2>1, <2>2, SameFresh
  <2>3. ASSUME Return(c) PROVE FreshInv'
    BY <1>9, <2>1, <2>3
  <2>4. ASSUME Fails(c) PROVE FreshInv'
    BY <2>1, <2>4, IdleTyped, GoodNow, CallerFresh, SameFresh DEF Fails
  <2>5. ASSUME Becomes(c, r) PROVE FreshInv'
    <3>1. r \in CallType
      BY RecordsTyped DEF Pcs
    <3>2. /\ r.pc = "single" /\ r.epoch = call[c].epoch /\ r.value = version
          /\ r.kind = call[c].kind /\ r.began = call[c].began
      BY CallFields DEF CallType
    <3>3. Good(r)
      BY <2>1, <3>2, CallFields, StateFields
         DEF Good, FreshInv, Phases, Refreshing, Requesting, TypeOK, Typed,
             NoAnswer
    <3> QED
      BY <2>1, <2>5, <3>1, <3>3, CallerFresh, SameFresh
  <2> QED
    BY <1>10, <2>2, <2>3, <2>4, <2>5 DEF Last
<1>11. ASSUME NEW c \in Callers, Singled(c) PROVE FreshInv'
  <2>1. /\ call[c].pc \notin Refreshing
        /\ UNCHANGED <<version, cache, entry, invalid, seen, retires>>
        /\ Continue(c) \/ Return(c)
    BY <1>11 DEF Singled, Refreshing
  <2> QED
    BY <1>5, <1>9, <2>1, SameFresh
\* A replaced entry is empty.
<1>12. ASSUME NEW epoch \in 0..MaxEpoch, Replace(epoch) PROVE GoodSnapshot
  BY <1>12, ReplaceTyped DEF GoodSnapshot
<1>13. ASSUME NEW c \in Callers, Detach(c) PROVE FreshInv'
  <2> DEFINE r == [call[c] EXCEPT !.pc = "ask", !.epoch = cache.epoch,
                                  !.value = version]
  <2>1. /\ call[c].pc = "detach" /\ Replace(cache.epoch) /\ Becomes(c, r)
        /\ UNCHANGED <<version, invalid, seen, answer, retires>>
    BY <1>13 DEF Detach, DetachedEpoch
  <2>2. "ask" \in Pcs /\ cache.epoch \in 0..MaxEpoch /\ version \in 0..version
    BY StateFields DEF Pcs
  <2>3. r \in CallType
    BY <2>2, CallFields DEF CallType
  <2>4. /\ r.pc = "ask" /\ r.epoch = cache.epoch /\ r.value = version
        /\ r.kind = call[c].kind /\ r.began = call[c].began
        /\ r.entry = call[c].entry
    BY CallFields DEF CallType
  <2>5. call[c].entry # cache'.current
    BY <2>1, StateFields, ReplaceTyped
  <2>6. Good(r)
    BY <2>1, <2>4, <2>5, CallFields, StateFields
       DEF Good, FreshInv, Phases, Refreshing, Requesting, TypeOK, Typed,
           NoAnswer
  <2> QED
    BY <1>12, <2>1, <2>3, <2>6, CallerFresh, StateFields
<1>14. ASSUME NEW c \in Callers, Asked(c) PROVE FreshInv'
  <2> DEFINE r == [call[c] EXCEPT !.pc = "detach"]
  <2>1. call[c].pc = "asked" /\ UNCHANGED <<version, invalid, retires>>
    BY <1>14 DEF Asked
  <2>2. CASE Goto(c, "detach") /\ UNCHANGED <<cache, entry, seen, answer>>
    <3>1. r \in CallType
      BY RecordsTyped DEF Pcs
    <3>2. /\ r.pc = "detach" /\ r.epoch = call[c].epoch
          /\ r.value = call[c].value /\ r.kind = call[c].kind
          /\ r.began = call[c].began /\ r.entry = call[c].entry
      BY CallFields DEF CallType
    <3>3. Good(call[c])
      BY <2>1, <2>2, GoodNow
    <3>4. Good(r)
      BY <2>1, <3>2, <3>3 DEF Good, Refreshing, Requesting
    <3> QED
      BY <2>1, <2>2, <3>1, <3>4, CallerFresh, SameFresh DEF Goto
  <2>3. CASE Fails(c) /\ UNCHANGED <<cache, entry, seen, answer>>
    BY <2>1, <2>3, IdleTyped, GoodNow, CallerFresh, SameFresh DEF Fails
  <2>4. CASE Replace(cache.epoch) /\ Return(c)
    <3>1. Good(Idle)
      BY <2>1, StateFields, CacheAssumption
         DEF Good, Idle, Refreshing, Requesting, TypeOK, Typed, CacheAssumption
    <3> QED
      BY <1>12, <2>1, <2>4, <3>1, IdleTyped, CallerFresh, StateFields DEF Return
  <2> QED
    BY <1>14, <2>2, <2>3, <2>4 DEF Asked
<1>15. ASSUME NEW c \in Callers, NEW kind \in Kinds, Begin(c, kind)
       PROVE  FreshInv'
  <2> DEFINE pc == IF kind = "critical" THEN "detach" ELSE "look"
             r == [Idle EXCEPT !.pc = pc, !.kind = kind, !.began = Since(kind)]
  <2>1. /\ Becomes(c, r)
        /\ UNCHANGED <<version, cache, entry, invalid, seen, answer, retires>>
    BY <1>15 DEF Begin
  <2>2. Since(kind) \in 1..version /\ (kind = "shared" => Since(kind) = 1)
    BY StateFields DEF Since
  <2>3. r \in CallType
    BY <2>2, IdleTyped DEF CallType, Idle, Pcs
  <2>4. /\ r.pc = pc /\ r.kind = kind /\ r.began = Since(kind)
        /\ r.epoch = 0 /\ r.value = NoAnswer
    BY DEF Idle
  <2>5. 0 <= retires'
    BY <2>1 DEF TypeOK, Typed
  <2>6. Good(r)
    BY <2>2, <2>4, <2>5 DEF Good, Refreshing, Requesting
  <2> QED
    BY <2>1, <2>3, <2>6, CallerFresh, SameFresh
<1>16. ASSUME NEW c \in Callers, Abort(c) PROVE FreshInv'
  <2>1. Fails(c) /\ UNCHANGED <<version, cache, invalid, seen, answer, retires>>
    BY <1>16 DEF Abort
  <2>2. GoodSnapshot
    BY <1>16, <2>1, UnlockFresh, SameFresh DEF Abort
  <2> QED
    BY <2>1, <2>2, IdleTyped, GoodNow, CallerFresh DEF Fails
<1>17. ASSUME Retire PROVE FreshInv'
  <2>1. /\ Replace(NextEpoch) /\ NextEpoch \in 0..MaxEpoch
        /\ UNCHANGED <<version, call, seen, answer>>
        /\ invalid' = version /\ retires' = retires + 1
    BY <1>17, EpochTyped DEF Retire
  <2>2. NextEpoch = retires + 1 /\ retires \in Nat
    BY <1>17, CacheAssumption
       DEF CacheAssumption, Retire, NextEpoch, TypeOK, Typed, FreshInv, Phases
  <2>3. /\ cache'.epoch = retires + 1
        /\ \A c \in Callers : call[c].entry # cache'.current
        /\ entry'[cache'.current].snapshot = NoAnswer
    BY <2>1, <2>2, ReplaceTyped
  <2>4. \A c \in Callers : call[c].epoch <= retires /\ call[c].epoch \in Nat
    BY CallFields DEF FreshInv, Phases
  <2>5. Phases'
    BY <2>1, <2>2, <2>3, <2>4 DEF FreshInv, Phases
  <2>6. NothingStale'
    BY <2>1, <2>2, <2>3, <2>4 DEF FreshInv, NothingStale
  <2> QED
    BY <2>5, <2>6 DEF FreshInv
<1>18. ASSUME Change PROVE FreshInv'
  BY <1>18 DEF Change, FreshInv, Phases, NothingStale
<1>19. ASSUME Expire PROVE FreshInv'
  <2>1. entry'[cache.current].snapshot \in
          {NoAnswer, entry[cache.current].snapshot}
    BY <1>19, StateFields DEF Expire, EntryType
  <2> QED
    BY <1>19, <2>1 DEF Expire, FreshInv, Phases, NothingStale
<1>20. ASSUME NEW c \in Callers, Step(c) PROVE FreshInv'
  <2>1. ASSUME Respond(c, "load", "loaded") PROVE FreshInv'
    BY <1>7, <2>1 DEF Pcs, Requesting
  <2>2. ASSUME Respond(c, "single", "singled") PROVE FreshInv'
    BY <1>7, <2>2 DEF Pcs, Requesting
  <2>3. ASSUME Respond(c, "ask", "asked") PROVE FreshInv'
    BY <1>7, <2>3 DEF Pcs, Requesting
  <2> QED
    BY <1>2, <1>3, <1>4, <1>6, <1>8, <1>10, <1>11, <1>13, <1>14, <1>20, <2>1,
       <2>2, <2>3 DEF Step
<1> QED
  BY <1>1, <1>15, <1>16, <1>17, <1>18, <1>19, <1>20 DEF Next

\* However loads, waits, invalidations and critical refreshes interleave: the
\* current entry and the calls that refer to it hold no answer from before the
\* last invalidation or a critical refresh (is_current, cache_entries.rs:92).
THEOREM StaleNever == Spec => [](TypeOK /\ FreshInv)
<1>1. Init => TypeOK /\ FreshInv
  BY InitTyped, InitFresh
<1>2. TypeOK /\ FreshInv /\ [Next]_vars => TypeOK' /\ FreshInv'
  BY NextTyped, NextFresh
<1> QED
  BY <1>1, <1>2, PTL DEF Spec

-----------------------------------------------------------------------------
(* The cache implements FreshReads.                                         *)

Shows == [c \in Callers |-> Shown(call[c])]

\* A step of a call, as FreshReads sees it.
LEMMA MoveShown ==
    ASSUME TypeOK, NEW c \in Callers, NEW r \in CallType, Becomes(c, r),
           UNCHANGED <<version, invalid>>
    PROVE  /\ Shows' = [Shows EXCEPT ![c] = Shown(r)]
           /\ Shows[c] = Shown(call[c])
           /\ Shown(r) = Shown(call[c]) /\ UNCHANGED <<seen, answer>> =>
                UNCHANGED Reads!vars
           /\ r = Idle /\ call[c].pc # "idle" /\ UNCHANGED <<seen, answer>> =>
                Reads!Fail(c)
<1>1. \A d \in Callers : call'[d] = IF d = c THEN r ELSE call[d]
  BY DEF TypeOK, Typed, Becomes
<1>2. Shows' = [Shows EXCEPT ![c] = Shown(r)] /\ Shows[c] = Shown(call[c])
  BY <1>1 DEF Shows
<1>3. ASSUME Shown(r) = Shown(call[c]), UNCHANGED <<seen, answer>>
      PROVE  UNCHANGED Reads!vars
  BY <1>2, <1>3 DEF Shows, Reads!vars
<1>4. ASSUME r = Idle, call[c].pc # "idle", UNCHANGED <<seen, answer>>
      PROVE  Reads!Fail(c)
  <2>1. Shows[c].kind # "none"
    BY <1>2, <1>4, CallFields DEF Shown, Kinds
  <2>2. Shown(r) = Reads!Idle
    BY <1>4 DEF Shown, Idle, Reads!Idle
  <2> QED
    BY <1>2, <1>4, <2>1, <2>2 DEF Shows, Reads!Fail
<1> QED
  BY <1>2, <1>3, <1>4

LEMMA ReturnReads ==
    ASSUME TypeOK, FreshInv, NEW c \in Callers, Return(c),
           call[c].pc # "idle", UNCHANGED <<version, invalid>>,
           call[c].value # NoAnswer =>
             /\ call[c].value >= invalid
             /\ call[c].kind # "critical" => call[c].value >= seen,
           seen' = IF call[c].kind = "critical" /\ call[c].value > seen
                   THEN call[c].value ELSE seen
    PROVE  \/ Reads!Fail(c)
           \/ \E value \in 1..version : Reads!Answer(c, value)
<1> DEFINE value == call[c].value
<1>1. Becomes(c, Idle) /\ Idle \in CallType
  BY IdleTyped DEF Return
<1>2. CASE value = NoAnswer
  <2>1. answer' = answer /\ seen' = seen
    BY <1>2, StateFields DEF Return, NoAnswer
  <2> QED
    BY <1>1, <2>1, MoveShown
<1>3. CASE value # NoAnswer
  <2>1. value \in 1..version /\ version \in Nat /\ value >= call[c].began
    BY <1>3, CallFields, StateFields DEF NoAnswer, FreshInv, NothingStale
  <2>2. /\ Shows' = [Shows EXCEPT ![c] = Shown(Idle)]
        /\ Shows[c] = [kind |-> call[c].kind, began |-> call[c].began]
    BY <1>1, MoveShown DEF Shown
  <2>3. Shown(Idle) = Reads!Idle /\ answer' = value
    BY <1>3 DEF Shown, Idle, Reads!Idle, Return
  <2>4. Shows[c].kind = call[c].kind /\ Shows[c].began = call[c].began
    BY <2>2
  <2>5. Shows[c].kind # "none"
    BY <2>4, CallFields DEF Kinds
  <2>6. Reads!Fresh(c, value)
    BY <1>3, <2>1, <2>4 DEF Reads!Fresh, Shows
  <2>7. Reads!Answer(c, value)
    BY <2>2, <2>3, <2>4, <2>5, <2>6 DEF Reads!Answer, Shows
  <2> QED
    BY <2>1, <2>7
<1> QED
  BY <1>2, <1>3

LEMMA InitReads == ASSUME Init PROVE Reads!Init
  BY DEF Init, Idle, Shown, Reads!Init, Reads!Idle

LEMMA NextReads ==
    ASSUME TypeOK, FreshInv, [Next]_vars PROVE [Reads!Next]_(Reads!vars)
<1> DEFINE Goal == [Reads!Next]_(Reads!vars)
           Answers(c) == \/ Reads!Fail(c)
                         \/ \E value \in 1..version : Reads!Answer(c, value)
<1>1. ASSUME UNCHANGED vars PROVE Goal
  BY <1>1 DEF vars, Reads!vars
<1>2. ASSUME NEW c \in Callers, Answers(c) PROVE Goal
  BY <1>2 DEF Reads!Next
\* A step that leaves the kind of the call alone is a stutter.
<1>3. ASSUME NEW c \in Callers, NEW r \in CallType, Becomes(c, r),
             r.kind = call[c].kind, r.began = call[c].began,
             r.pc # "idle", call[c].pc # "idle",
             UNCHANGED <<version, invalid, seen, answer>>
      PROVE  Goal
  <2>1. Shown(r) = Shown(call[c])
    BY <1>3 DEF Shown
  <2> QED
    BY <1>3, <2>1, MoveShown
<1>4. ASSUME NEW c \in Callers, Fails(c), call[c].pc # "idle",
             UNCHANGED <<version, invalid, seen, answer>>
      PROVE  Goal
  BY <1>2, <1>4, IdleTyped, MoveShown DEF Fails
<1>5. ASSUME NEW c \in Callers, Continue(c), call[c].pc # "idle",
             UNCHANGED <<version, invalid, seen, answer>>
      PROVE  Goal
  <2> DEFINE r == [Idle EXCEPT !.pc = "look", !.kind = call[c].kind,
                               !.began = call[c].began]
  <2>1. r \in CallType /\ r.pc = "look" /\ Becomes(c, r)
        /\ r.kind = call[c].kind /\ r.began = call[c].began
    BY <1>5, ContinueTyped DEF Continue, Idle
  <2> QED
    BY <1>3, <1>5, <2>1
<1>6. ASSUME NEW c \in Callers, NEW pc \in Pcs \ {"idle"}, Goto(c, pc),
             call[c].pc # "idle", UNCHANGED <<version, invalid, seen, answer>>
      PROVE  Goal
  <2> DEFINE r == [call[c] EXCEPT !.pc = pc]
  <2>1. r \in CallType
    BY RecordsTyped
  <2>2. r.pc = pc /\ r.kind = call[c].kind /\ r.began = call[c].began
    BY CallFields DEF CallType
  <2> QED
    BY <1>3, <1>6, <2>1, <2>2 DEF Goto
<1>7. ASSUME NEW c \in Callers, NEW pc \in Pcs \ {"idle"},
             NEW v \in 0..version, call[c].pc # "idle",
             Becomes(c, [call[c] EXCEPT !.pc = pc, !.value = v]),
             UNCHANGED <<version, invalid, seen, answer>>
      PROVE  Goal
  <2> DEFINE r == [call[c] EXCEPT !.pc = pc, !.value = v]
  <2>1. r \in CallType
    BY RecordsTyped
  <2>2. r.pc = pc /\ r.kind = call[c].kind /\ r.began = call[c].began
    BY CallFields DEF CallType
  <2> QED
    BY <1>3, <1>7, <2>1, <2>2
<1>8. ASSUME NEW c \in Callers, Return(c), IsCurrent(c), call[c].pc # "idle",
             call[c].pc \notin Refreshing, UNCHANGED <<version, invalid, seen>>
      PROVE  Goal
  <2>1. /\ call[c].kind # "critical"
        /\ call[c].value # NoAnswer =>
             call[c].value >= invalid /\ call[c].value >= seen
    BY <1>8 DEF IsCurrent, FreshInv, Phases, NothingStale
  <2>2. Answers(c)
    BY <1>8, <2>1, ReturnReads
  <2> QED
    BY <1>2, <2>2
<1>9. ASSUME NEW c \in Callers, Look(c) PROVE Goal
  <2> DEFINE r == [call[c] EXCEPT !.pc = "wait", !.epoch = cache.epoch,
                                  !.entry = cache.current]
  <2>1. r \in CallType
    BY CallFields, StateFields DEF CallType, Pcs
  <2>2. r.pc = "wait" /\ r.kind = call[c].kind /\ r.began = call[c].began
    BY CallFields DEF CallType
  <2> QED
    BY <1>3, <1>9, <2>1, <2>2 DEF Look
<1>10. ASSUME NEW c \in Callers, Lock(c) PROVE Goal
  BY <1>6, <1>10 DEF Lock, Pcs
<1>11. ASSUME NEW c \in Callers, TimeOut(c) PROVE Goal
  BY <1>4, <1>11 DEF TimeOut
<1>12. ASSUME NEW c \in Callers, Hold(c) PROVE Goal
  <2> DEFINE e == entry[call[c].entry]
  <2>1. call[c].pc = "held" /\ UNCHANGED <<version, invalid, seen, answer>>
    BY <1>12 DEF Hold
  <2>2. call[c].entry \in Entries /\ e.snapshot \in 0..version
    BY <2>1, CallFields, StateFields DEF TypeOK, Locks, Apart, EntryType
  <2>3. CASE Continue(c)
    BY <1>5, <2>1, <2>3
  <2>4. CASE Fails(c)
    BY <1>4, <2>1, <2>4
  <2>5. CASE Becomes(c, [call[c] EXCEPT !.pc = "last", !.value = e.snapshot])
    <3>1. "last" \in Pcs \ {"idle"}
      BY DEF Pcs
    <3> QED
      BY <1>7, <2>1, <2>2, <2>5, <3>1
  <2>6. CASE Becomes(c, [call[c] EXCEPT !.pc = "load", !.value = version])
    <3>1. "load" \in Pcs \ {"idle"}
      BY DEF Pcs
    <3> QED
      BY <1>7, <2>1, <2>6, <3>1, RecordsTyped
  <2> QED
    BY <1>12, <2>3, <2>4, <2>5, <2>6 DEF Hold
<1>13. ASSUME NEW c \in Callers, NEW from \in Pcs \ {"idle"},
              NEW to \in Pcs \ {"idle"}, Respond(c, from, to)
       PROVE  Goal
  <2>1. PICK v \in {NoAnswer} \cup (call[c].value .. version) :
          Becomes(c, [call[c] EXCEPT !.pc = to, !.value = v])
    BY <1>13 DEF Respond
  <2>2. v \in 0..version
    BY CallFields, StateFields DEF NoAnswer
  <2> QED
    BY <1>7, <1>13, <2>1, <2>2 DEF Respond
<1>14. ASSUME NEW c \in Callers, Loaded(c) PROVE Goal
  <2>1. call[c].pc = "loaded" /\ UNCHANGED <<version, invalid, seen, answer>>
    BY <1>14 DEF Loaded
  <2>2. Continue(c) \/ Fails(c) \/ Goto(c, "last")
    BY <1>14 DEF Loaded
  <2>3. "last" \in Pcs \ {"idle"}
    BY DEF Pcs
  <2> QED
    BY <1>4, <1>5, <1>6, <2>1, <2>2, <2>3
<1>15. ASSUME NEW c \in Callers, Last(c) PROVE Goal
  <2>1. /\ call[c].pc = "last" /\ call[c].pc \notin Refreshing
        /\ UNCHANGED <<version, invalid, seen>>
    BY <1>15 DEF Last, Refreshing
  <2>2. CASE Continue(c) /\ UNCHANGED answer
    BY <1>5, <2>1, <2>2
  <2>3. CASE IsCurrent(c) /\ Return(c)
    BY <1>8, <2>1, <2>3
  <2>4. CASE /\ Becomes(c, [call[c] EXCEPT !.pc = "single", !.value = version])
             /\ UNCHANGED answer
    <3>1. "single" \in Pcs \ {"idle"}
      BY DEF Pcs
    <3> QED
      BY <1>7, <2>1, <2>4, <3>1, RecordsTyped
  <2>5. CASE Fails(c) /\ UNCHANGED answer
    BY <1>4, <2>1, <2>5
  <2> QED
    BY <1>15, <2>2, <2>3, <2>4, <2>5 DEF Last
<1>16. ASSUME NEW c \in Callers, Singled(c) PROVE Goal
  <2>1. /\ call[c].pc = "singled" /\ call[c].pc \notin Refreshing
        /\ UNCHANGED <<version, invalid, seen>>
        /\ \/ Continue(c) /\ UNCHANGED answer
           \/ IsCurrent(c) /\ Return(c)
    BY <1>16 DEF Singled, Refreshing
  <2> QED
    BY <1>5, <1>8, <2>1
<1>17. ASSUME NEW c \in Callers, Detach(c) PROVE Goal
  <2> DEFINE r == [call[c] EXCEPT !.pc = "ask", !.epoch = cache.epoch,
                                  !.value = version]
  <2>1. "ask" \in Pcs /\ cache.epoch \in 0..MaxEpoch /\ version \in 0..version
    BY StateFields DEF Pcs
  <2>2. r \in CallType
    BY <2>1, CallFields DEF CallType
  <2>3. r.pc = "ask" /\ r.kind = call[c].kind /\ r.began = call[c].began
    BY CallFields DEF CallType
  <2> QED
    BY <1>3, <1>17, <2>2, <2>3 DEF Detach, DetachedEpoch
<1>18. ASSUME NEW c \in Callers, Asked(c) PROVE Goal
  <2>1. call[c].pc = "asked" /\ UNCHANGED <<version, invalid>>
        /\ call[c].kind = "critical"
    BY <1>18 DEF Asked, FreshInv, Phases, Refreshing
  <2>2. CASE Goto(c, "detach") /\ UNCHANGED <<seen, answer>>
    <3>1. "detach" \in Pcs \ {"idle"}
      BY DEF Pcs
    <3> QED
      BY <1>6, <2>1, <2>2, <3>1
  <2>3. CASE Fails(c) /\ UNCHANGED <<seen, answer>>
    BY <1>4, <2>1, <2>3
  <2>4. CASE /\ cache.epoch = call[c].epoch /\ Return(c)
             /\ seen' = IF call[c].value > seen THEN call[c].value ELSE seen
    <3>1. call[c].value # NoAnswer => call[c].value >= invalid
      BY <2>1, <2>4 DEF FreshInv, NothingStale
    <3>2. Answers(c)
      BY <2>1, <2>4, <3>1, ReturnReads
    <3> QED
      BY <1>2, <3>2
  <2> QED
    BY <1>18, <2>2, <2>3, <2>4 DEF Asked
<1>19. ASSUME NEW c \in Callers, NEW kind \in Kinds, Begin(c, kind) PROVE Goal
  <2> DEFINE pc == IF kind = "critical" THEN "detach" ELSE "look"
             r == [Idle EXCEPT !.pc = pc, !.kind = kind, !.began = Since(kind)]
  <2>1. /\ call[c].pc = "idle" /\ Becomes(c, r)
        /\ UNCHANGED <<version, cache, entry, invalid, seen, answer, retires>>
    BY <1>19 DEF Begin
  <2>2. Since(kind) \in 1..version /\ Since(kind) = Reads!Since(kind)
    BY StateFields DEF Since, Reads!Since
  <2>3. r \in CallType
    BY <2>2, IdleTyped DEF CallType, Idle, Pcs
  <2>4. Shown(r) = [kind |-> kind, began |-> Reads!Since(kind)]
    BY <2>2 DEF Shown, Idle
  <2>5. Shows' = [Shows EXCEPT ![c] = Shown(r)]
    BY <2>1, <2>3, MoveShown
  <2>6. Shows[c].kind = "none"
    BY <2>1 DEF Shows, Shown
  <2>7. Reads!Begin(c, kind)
    BY <2>1, <2>4, <2>5, <2>6 DEF Reads!Begin, Shows
  <2>8. kind \in Reads!Kinds
    BY DEF Kinds, Reads!Kinds
  <2> QED
    BY <2>7, <2>8 DEF Reads!Next
<1>20. ASSUME NEW c \in Callers, Abort(c) PROVE Goal
  BY <1>4, <1>20 DEF Abort
<1>21. ASSUME Retire PROVE Goal
  BY <1>21 DEF Retire, Reads!Next, Reads!Invalidate
<1>22. ASSUME Change PROVE Goal
  BY <1>22 DEF Change, Reads!Next, Reads!Change
<1>23. ASSUME Expire PROVE Goal
  BY <1>23 DEF Expire, Reads!vars
<1>24. ASSUME NEW c \in Callers, Step(c) PROVE Goal
  <2>1. ASSUME Respond(c, "load", "loaded") PROVE Goal
    BY <1>13, <2>1 DEF Pcs
  <2>2. ASSUME Respond(c, "single", "singled") PROVE Goal
    BY <1>13, <2>2 DEF Pcs
  <2>3. ASSUME Respond(c, "ask", "asked") PROVE Goal
    BY <1>13, <2>3 DEF Pcs
  <2> QED
    BY <1>9, <1>10, <1>11, <1>12, <1>14, <1>15, <1>16, <1>17, <1>18, <1>24,
       <2>1, <2>2, <2>3 DEF Step
<1> QED
  BY <1>1, <1>19, <1>20, <1>21, <1>22, <1>23, <1>24 DEF Next

\* Every behaviour of the cache is one FreshReads allows: no read returns what
\* was known before the last invalidation, or before an answer of a critical
\* refresh, and no forced read or critical refresh what was known before its
\* call (get_or_fetch and refresh_critical, cache_entries.rs:61, 100).
THEOREM Refines == Spec => ReadsAreFresh
<1>1. Init => Reads!Init
  BY InitReads
<1>2. TypeOK /\ FreshInv /\ [Next]_vars => [Reads!Next]_(Reads!vars)
  BY NextReads
<1> QED
  BY <1>1, <1>2, StaleNever, PTL DEF Spec, ReadsAreFresh, Reads!Spec
=============================================================================
