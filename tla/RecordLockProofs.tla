-------------------------- MODULE RecordLockProofs ---------------------------
(***************************************************************************)
(* No update of the employee file is lost and every total is consistent,   *)
(* for any number of programs of each kind and records.                    *)
(***************************************************************************)
EXTENDS RecordLock, TLAPS

LEMMA SlotsFact == /\ NumRecords \in Nat /\ Records \subseteq Slots
                   /\ NumRecords \in Slots /\ 0 \in Slots /\ NumRecords \notin Records
  BY NumbersAssumption DEF Records, Slots

LEMMA InitLocks == Init => LockInv
<1> SUFFICES ASSUME Init PROVE LockInv
  OBVIOUS
<1>1. TypeOK
  BY SlotsFact, NumbersAssumption DEF Init, TypeOK, LockKinds, Steps, Looping
<1>2. Exclusive /\ LocksHeld /\ NoLostUpdate /\ TotalConsistent /\ UpgradeKeepsRecord /\ VimCurrent
  BY DEF Init, Exclusive, Conflict, LocksHeld, NoLostUpdate, TotalConsistent,
         UpgradeKeepsRecord, VimCurrent, Looping
<1> QED  BY <1>1, <1>2 DEF LockInv

-----------------------------------------------------------------------------
(* A process that leaves its program, or its record, for a step that       *)
(* claims nothing, unlocking everything.                                   *)
LEMMA UnlockKeeps ==
  ASSUME LockInv, NEW p \in Procs, NEW at \in {"menu", "done", "busy", "failed"},
         Goto(p, at), Unlocked(p), UNCHANGED <<file, rec, seen, next, try, raises>>
  PROVE  LockInv'
<1> USE DEF LockInv
<1>1. TypeOK'  BY DEF TypeOK, Goto, Unlocked, Steps, LockKinds
<1>2. /\ pc'[p] = at /\ \A r \in Slots: held'[p][r] = "none"
      /\ \A q \in Procs \ {p}: pc'[q] = pc[q] /\ held'[q] = held[q]
  BY DEF TypeOK, Goto, Unlocked
<1>3. Exclusive'  BY <1>2 DEF Exclusive, Conflict
<1>4. LocksHeld'  BY <1>2 DEF LocksHeld
<1>5. NoLostUpdate' /\ TotalConsistent' /\ UpgradeKeepsRecord' /\ VimCurrent'
  BY <1>2 DEF NoLostUpdate, TotalConsistent, UpgradeKeepsRecord, VimCurrent
<1> QED  BY <1>1, <1>3, <1>4, <1>5

LEMMA ExitKeeps ==
  ASSUME LockInv, NEW p \in Procs,
         SumGiveUp(p) \/ SumDone(p) \/ EditRefused(p) \/ EditDone(p) \/ Quit(p)
           \/ Deadlocked(p) \/ NotFound(p) \/ AnswerNo(p) \/ Unlock(p)
  PROVE  LockInv'
  BY UnlockKeeps DEF SumGiveUp, SumDone, EditRefused, EditDone, Quit, Deadlocked,
                     NotFound, AnswerNo, Unlock, Exit, Release

(* A granted lock conflicts with none. *)
LEMMA LockedExclusive ==
  ASSUME LockInv, NEW p \in Procs, NEW kind \in LockKinds, NEW slots \in SUBSET Slots,
         Blockers(p, kind, slots) = {}, Locked(p, kind, slots)
  PROVE  /\ held' \in [Procs -> [Slots -> LockKinds]]
         /\ Exclusive'
         /\ \A r \in slots: held'[p][r] = kind
         /\ \A q \in Procs \ {p}: held'[q] = held[q]
<1> USE DEF LockInv, TypeOK, Locked
<1>1. held' \in [Procs -> [Slots -> LockKinds]]  OBVIOUS
<1>2. \A r \in Slots: held'[p][r] = IF r \in slots THEN kind ELSE held[p][r]
  OBVIOUS
<1>3. \A q \in Procs \ {p}: held'[q] = held[q]  OBVIOUS
<1>4. \A q \in Procs \ {p}, r \in slots: ~Conflict(kind, held[q][r])
  BY DEF Blockers
<1>5. Exclusive'  BY <1>2, <1>3, <1>4 DEF Exclusive, Conflict
<1> QED  BY <1>1, <1>2, <1>3, <1>5

LEMMA LockedOne ==
  ASSUME LockInv, NEW p \in Procs, NEW kind \in LockKinds, NEW r \in Slots,
         Blockers(p, kind, {r}) = {}, Locked(p, kind, {r})
  PROVE  /\ held' \in [Procs -> [Slots -> LockKinds]]
         /\ Exclusive'
         /\ held'[p][r] = kind
         /\ \A q \in Procs \ {p}: held'[q] = held[q]
<1>1. {r} \in SUBSET Slots  OBVIOUS
<1> QED  BY <1>1, LockedExclusive

LEMMA LockKeeps ==
  ASSUME LockInv, NEW p \in Procs, SumLock(p) \/ EditLock(p) \/ Granted(p)
  PROVE  LockInv'
<1> USE DEF LockInv
<1>1. CASE SumLock(p)
  <2>1. /\ held' \in [Procs -> [Slots -> LockKinds]] /\ Exclusive'
        /\ \A r \in Slots: held'[p][r] = "read"
        /\ \A q \in Procs \ {p}: held'[q] = held[q]
    BY <1>1, LockedExclusive DEF SumLock, LockKinds
  <2>2. TypeOK'  BY <1>1, <2>1 DEF SumLock, TypeOK, Goto, Steps
  <2>3. /\ pc'[p] = "reading" /\ next[p] = 0 /\ UNCHANGED <<file, rec, seen, next, raises>>
        /\ \A q \in Procs \ {p}: pc'[q] = pc[q]
    BY <1>1 DEF SumLock, TypeOK, Goto, LocksHeld
  <2>4. LocksHeld'  BY <2>1, <2>3 DEF LocksHeld
  <2>5. \A r \in Records: ~(r < 0)  BY NumbersAssumption DEF Records
  <2>6. NoLostUpdate' /\ TotalConsistent' /\ UpgradeKeepsRecord' /\ VimCurrent'
    BY <2>3, <2>5 DEF NoLostUpdate, TotalConsistent, UpgradeKeepsRecord, VimCurrent
  <2> QED  BY <2>1, <2>2, <2>4, <2>6
<1>2. CASE EditLock(p)
  <2>1. /\ held' \in [Procs -> [Slots -> LockKinds]] /\ Exclusive'
        /\ \A r \in Slots: held'[p][r] = "write"
        /\ \A q \in Procs \ {p}: held'[q] = held[q]
    BY <1>2, LockedExclusive DEF EditLock, LockKinds
  <2>2. TypeOK'  BY <1>2, <2>1 DEF EditLock, TypeOK, Goto, Steps
  <2>3. /\ pc'[p] = "vim" /\ seen'[p] = file /\ UNCHANGED <<file, rec, next, raises>>
        /\ \A q \in Procs \ {p}: pc'[q] = pc[q] /\ seen'[q] = seen[q]
    BY <1>2 DEF EditLock, TypeOK, Goto
  <2>4. LocksHeld'  BY <2>1, <2>3 DEF LocksHeld
  <2>5. NoLostUpdate' /\ TotalConsistent' /\ UpgradeKeepsRecord' /\ VimCurrent'
    BY <2>3 DEF NoLostUpdate, TotalConsistent, UpgradeKeepsRecord, VimCurrent
  <2> QED  BY <2>1, <2>2, <2>4, <2>5
<1>3. CASE Granted(p)
  <2>1. rec[p] \in Slots /\ Wanted(p) \in LockKinds  BY DEF TypeOK, Wanted, LockKinds
  <2>2. /\ held' \in [Procs -> [Slots -> LockKinds]] /\ Exclusive'
        /\ held'[p][rec[p]] = Wanted(p)
        /\ \A q \in Procs \ {p}: held'[q] = held[q]
    <3>1. Blockers(p, Wanted(p), {rec[p]}) = {} /\ Locked(p, Wanted(p), {rec[p]})
      BY <1>3 DEF Granted, BlockersOf
    <3> QED  BY <2>1, <3>1, LockedOne
  <2>3. TypeOK'  BY <1>3, <2>2 DEF Granted, TypeOK, Goto, Steps
  <2>4. /\ pc[p] \in {"want", "blocked", "upgrade", "upgrading"}
        /\ pc'[p] = IF pc[p] \in {"want", "blocked"} THEN "have" ELSE "edit"
        /\ UNCHANGED <<file, rec, seen, next, raises>>
        /\ \A q \in Procs \ {p}: pc'[q] = pc[q]
    BY <1>3 DEF Granted, Calling, Waiting, TypeOK, Goto
  <2>5. LocksHeld'  BY <2>2, <2>4 DEF LocksHeld, Wanted
  <2>6. NoLostUpdate' /\ TotalConsistent' /\ UpgradeKeepsRecord' /\ VimCurrent'
    BY <2>4 DEF NoLostUpdate, TotalConsistent, UpgradeKeepsRecord, VimCurrent
  <2> QED  BY <2>2, <2>3, <2>5, <2>6
<1> QED  BY <1>1, <1>2, <1>3

-----------------------------------------------------------------------------
(* Steps that lock and write nothing. *)
LEMMA ReadKeeps ==
  ASSUME LockInv, NEW p \in Procs,
         SumRetry(p) \/ SumRead(p) \/ Choose(p) \/ Wait(p) \/ Read(p) \/ AnswerYes(p)
  PROVE  LockInv'
<1> USE DEF LockInv
<1>1. CASE SumRetry(p)
  <2>1. TypeOK'  BY <1>1, NumbersAssumption DEF SumRetry, TypeOK
  <2> QED
    BY <1>1, <2>1 DEF SumRetry, Exclusive, LocksHeld, NoLostUpdate, TotalConsistent,
                      UpgradeKeepsRecord, VimCurrent
<1>2. CASE SumRead(p)
  <2>1. next[p] \in Records /\ next[p] + 1 \in Slots
    <3>1. next[p] \in Slots /\ next[p] < NumRecords  BY <1>2 DEF SumRead, TypeOK
    <3> HIDE DEF LockInv
    <3> QED  BY <3>1, NumbersAssumption DEF Slots, Records
  <2>2. /\ pc[p] = "reading" /\ UNCHANGED <<file, held, pc, rec, raises>>
        /\ next'[p] = next[p] + 1
        /\ seen'[p] = [seen[p] EXCEPT ![next[p]] = file[next[p]]]
        /\ \A q \in Procs \ {p}: seen'[q] = seen[q] /\ next'[q] = next[q]
    BY <1>2 DEF SumRead, TypeOK
  <2>3. TypeOK'
    <3>1. seen[p] \in [Records -> Nat] /\ file[next[p]] \in Nat  BY <2>1 DEF TypeOK
    <3>2. seen' \in [Procs -> [Records -> Nat]]  BY <1>2, <3>1 DEF SumRead, TypeOK
    <3>3. next' \in [Procs -> Slots]  BY <1>2, <2>1 DEF SumRead, TypeOK
    <3> QED  BY <1>2, <3>2, <3>3 DEF SumRead, TypeOK
  <2>4. TotalConsistent'
    <3>1. \A r \in Records: r < next[p] + 1 => r = next[p] \/ r < next[p]
      BY <2>1, NumbersAssumption DEF Records
    <3>2. \A r \in Records: seen'[p][r] = IF r = next[p] THEN file[r] ELSE seen[p][r]
      BY <2>2 DEF TypeOK
    <3>3. \A r \in Records: r < next[p] => seen[p][r] = file[r]
      BY <2>2 DEF TotalConsistent
    <3>4. \A r \in Records: r < next'[p] => seen'[p][r] = file'[r]
      BY <2>2, <3>1, <3>2, <3>3
    <3>5. \A q \in Procs \ {p}: pc'[q] = "reading" =>
            \A r \in Records: r < next'[q] => seen'[q][r] = file'[r]
      <4> SUFFICES ASSUME NEW q \in Procs \ {p}, pc[q] = "reading"
                   PROVE  \A r \in Records: r < next[q] => seen[q][r] = file[r]
        BY <2>2
      <4> QED  BY DEF TotalConsistent
    <3> QED  BY <3>4, <3>5 DEF TotalConsistent
  <2>5. Exclusive' /\ NoLostUpdate'  BY <2>2 DEF Exclusive, NoLostUpdate
  <2>6. LocksHeld'  BY <2>2 DEF LocksHeld
  <2>7. UpgradeKeepsRecord' /\ VimCurrent'  BY <2>2 DEF UpgradeKeepsRecord, VimCurrent
  <2> QED  BY <2>3, <2>4, <2>5, <2>6, <2>7
<1>3. CASE Choose(p)
  <2>1. PICK r \in Slots: rec' = [rec EXCEPT ![p] = r]  BY <1>3 DEF Choose
  <2>2. TypeOK'  BY <1>3, <2>1 DEF Choose, TypeOK, Goto, Steps
  <2>3. /\ pc'[p] = "want" /\ UNCHANGED <<file, held, seen, next, raises>>
        /\ \A q \in Procs \ {p}: pc'[q] = pc[q] /\ rec'[q] = rec[q]
    BY <1>3, <2>1 DEF Choose, TypeOK, Goto
  <2>4. LocksHeld'  BY <2>3 DEF LocksHeld
  <2> QED
    BY <2>2, <2>3, <2>4 DEF Exclusive, NoLostUpdate, TotalConsistent, UpgradeKeepsRecord, VimCurrent
<1>4. CASE Wait(p) \/ AnswerYes(p)
  <2>1. TypeOK'  BY <1>4 DEF Wait, AnswerYes, TypeOK, Goto, Steps
  <2>2. /\ \/ pc[p] = "want" /\ pc'[p] = "blocked"
           \/ pc[p] \in {"ask", "upgrade"} /\ pc'[p] \in {"upgrade", "upgrading"}
        /\ UNCHANGED <<file, held, rec, seen, next, raises>>
        /\ \A q \in Procs \ {p}: pc'[q] = pc[q]
    BY <1>4 DEF Wait, AnswerYes, TypeOK, Goto
  <2>3. LocksHeld'  BY <2>2 DEF LocksHeld
  <2> QED
    BY <2>1, <2>2, <2>3 DEF Exclusive, NoLostUpdate, TotalConsistent, UpgradeKeepsRecord, VimCurrent
<1>5. CASE Read(p)
  <2>1. /\ pc[p] = "have" /\ rec[p] \in Records
        /\ pc'[p] = IF Program[p] = "upgrader" THEN "ask" ELSE "edit"
        /\ seen'[p] = [seen[p] EXCEPT ![rec[p]] = file[rec[p]]]
        /\ UNCHANGED <<file, held, rec, next, raises>>
        /\ \A q \in Procs \ {p}: pc'[q] = pc[q] /\ seen'[q] = seen[q]
    BY <1>5 DEF Read, TypeOK, Goto
  <2>2. TypeOK'
    <3>1. seen[p] \in [Records -> Nat] /\ file[rec[p]] \in Nat  BY <2>1 DEF TypeOK
    <3>2. seen' \in [Procs -> [Records -> Nat]]  BY <1>5, <3>1 DEF Read, TypeOK
    <3> QED  BY <1>5, <3>2 DEF Read, TypeOK, Goto, Steps
  <2>3. seen'[p][rec[p]] = file[rec[p]]  BY <2>1 DEF TypeOK
  <2>4. LocksHeld'  BY <2>1 DEF LocksHeld
  <2>5. UpgradeKeepsRecord'  BY <2>1, <2>3 DEF UpgradeKeepsRecord
  <2> QED
    BY <2>1, <2>2, <2>4, <2>5 DEF Exclusive, NoLostUpdate, TotalConsistent, VimCurrent
<1> QED  BY <1>1, <1>2, <1>3, <1>4, <1>5

-----------------------------------------------------------------------------
(* The three writes.  Whoever holds the write lock on a record is the only *)
(* one with a claim on what it says.                                       *)
LEMMA WriteKeeps ==
  ASSUME LockInv, NEW p \in Procs, EditSave(p) \/ Save(p) \/ SaveSame(p)
  PROVE  LockInv'
<1> USE DEF LockInv
<1>1. ASSUME NEW W \in SUBSET Slots, \A r \in W: held[p][r] = "write",
             \A r \in Records \ W: file'[r] = file[r] /\ raises'[r] = raises[r],
             \A r \in Records: file'[r] = raises'[r],
             file' \in [Records -> Nat], raises' \in [Records -> Nat],
             W # {},
             Goto(p, "written"), UNCHANGED <<held, rec, seen, next, try>>
      PROVE  LockInv'
  <2>1. TypeOK'  BY <1>1 DEF TypeOK, Goto, Steps
  <2>2. pc'[p] = "written" /\ \A q \in Procs \ {p}: pc'[q] = pc[q]
    BY <1>1 DEF Goto, TypeOK
  <2>3. \A q \in Procs \ {p}, r \in W: held[q][r] = "none"
    BY <1>1 DEF Exclusive, Conflict
  <2>4. Exclusive' /\ NoLostUpdate'  BY <1>1 DEF Exclusive, NoLostUpdate
  <2>5. LocksHeld'  BY <1>1, <2>2 DEF LocksHeld
  <2>6. TotalConsistent'
    <3>1. \A q \in Procs \ {p}: pc[q] # "reading"  BY <1>1, <2>3 DEF LocksHeld
    <3> QED  BY <2>2, <3>1 DEF TotalConsistent
  <2>7. UpgradeKeepsRecord'
    <3>1. \A q \in Procs \ {p}: pc[q] \in {"ask", "upgrade", "upgrading", "edit"} =>
             rec[q] \in Records \ W
      BY <2>3 DEF LocksHeld
    <3> QED  BY <1>1, <2>2, <3>1 DEF UpgradeKeepsRecord
  <2>8. VimCurrent'
    <3>1. \A q \in Procs \ {p}: pc[q] # "vim"  BY <1>1, <2>3 DEF LocksHeld
    <3> QED  BY <2>2, <3>1 DEF VimCurrent
  <2> QED  BY <2>1, <2>4, <2>5, <2>6, <2>7, <2>8
<1>2. CASE EditSave(p)
  <2>1. PICK r \in Records: /\ file' = [seen[p] EXCEPT ![r] = @ + 1]
                            /\ raises' = [raises EXCEPT ![r] = @ + 1]
    BY <1>2 DEF EditSave
  <2>2. seen[p] = file /\ \A t \in Slots: held[p][t] = "write"
    BY <1>2 DEF EditSave, VimCurrent, LocksHeld
  <2>3. file' \in [Records -> Nat] /\ raises' \in [Records -> Nat]
    BY <2>1, <2>2 DEF TypeOK
  <2>4. \A t \in Records: file'[t] = raises'[t]
    BY <2>1, <2>2 DEF TypeOK, NoLostUpdate
  <2>5. \A t \in Records \ Slots: file'[t] = file[t] /\ raises'[t] = raises[t]
    BY SlotsFact
  <2>6. Slots # {}  BY SlotsFact
  <2> QED  BY <1>1, <1>2, <2>2, <2>3, <2>4, <2>5, <2>6 DEF EditSave
<1>3. CASE Save(p)
  <2>1. /\ held[p][rec[p]] = "write" /\ rec[p] \in Records
        /\ seen[p][rec[p]] = file[rec[p]]
    BY <1>3 DEF Save, LocksHeld, UpgradeKeepsRecord
  <2>2. /\ file' = [file EXCEPT ![rec[p]] = seen[p][rec[p]] + 1]
        /\ raises' = [raises EXCEPT ![rec[p]] = @ + 1]
    BY <1>3 DEF Save
  <2>3. file' \in [Records -> Nat] /\ raises' \in [Records -> Nat]
    BY <2>1, <2>2 DEF TypeOK
  <2>4. \A t \in Records: file'[t] = raises'[t]
    BY <2>1, <2>2 DEF TypeOK, NoLostUpdate
  <2>5. \A t \in Records \ {rec[p]}: file'[t] = file[t] /\ raises'[t] = raises[t]
    BY <2>2 DEF TypeOK
  <2>6. {rec[p]} \in SUBSET Slots /\ {rec[p]} # {}  BY DEF TypeOK
  <2>7. \A r \in {rec[p]}: held[p][r] = "write"  BY <2>1
  <2>8. Goto(p, "written") /\ UNCHANGED <<held, rec, seen, next, try>>  BY <1>3 DEF Save
  <2> QED  BY <1>1, <2>3, <2>4, <2>5, <2>6, <2>7, <2>8
<1>4. CASE SaveSame(p)
  <2>1. /\ held[p][rec[p]] = "write" /\ rec[p] \in Records
        /\ seen[p][rec[p]] = file[rec[p]]
    BY <1>4 DEF SaveSame, LocksHeld, UpgradeKeepsRecord
  <2>2. file' = file /\ raises' = raises
    <3>1. file \in [Records -> Nat]  BY DEF TypeOK
    <3>2. file' = [file EXCEPT ![rec[p]] = seen[p][rec[p]]] /\ raises' = raises
      BY <1>4 DEF SaveSame
    <3> HIDE DEF LockInv
    <3> QED  BY <2>1, <3>1, <3>2
  <2>3. {rec[p]} \in SUBSET Slots /\ {rec[p]} # {}  BY DEF TypeOK
  <2> QED  BY <1>1, <1>4, <2>1, <2>2, <2>3 DEF SaveSame, TypeOK, NoLostUpdate
<1> QED  BY <1>2, <1>3, <1>4

-----------------------------------------------------------------------------
(* The invariant holds in every state. *)
THEOREM LocksCorrect == Spec => []LockInv
<1>1. LockInv /\ [Next]_vars => LockInv'
  <2> SUFFICES ASSUME LockInv, [Next]_vars PROVE LockInv'
    OBVIOUS
  <2>1. CASE UNCHANGED vars
    BY <2>1 DEF vars, LockInv, TypeOK, Exclusive, LocksHeld, NoLostUpdate, TotalConsistent,
                UpgradeKeepsRecord, VimCurrent
  <2>2. ASSUME NEW p \in Procs, Step(p) \/ Choose(p) \/ Quit(p) PROVE LockInv'
    BY <2>2, ExitKeeps, LockKeeps, ReadKeeps, WriteKeeps DEF Step
  <2> QED  BY <2>1, <2>2 DEF Next
<1> QED  BY <1>1, InitLocks, PTL DEF Spec

(* No change of a salary is lost, whichever of fcntl_lock2, 3 and 4 make   *)
(* changes at the same time.                                               *)
THEOREM NoLostUpdateCorrect == Spec => []NoLostUpdate
<1>1. LockInv => NoLostUpdate  BY DEF LockInv
<1> QED  BY <1>1, LocksCorrect, PTL

(* What fcntl_lock1 totals is the file at one moment. *)
THEOREM TotalConsistentCorrect == Spec => []TotalConsistent
<1>1. LockInv => TotalConsistent  BY DEF LockInv
<1> QED  BY <1>1, LocksCorrect, PTL

(* fcntl_lock4's upgrade never finds the record changed. *)
THEOREM UpgradeKeepsRecordCorrect == Spec => []UpgradeKeepsRecord
<1>1. LockInv => UpgradeKeepsRecord  BY DEF LockInv
<1> QED  BY <1>1, LocksCorrect, PTL
-----------------------------------------------------------------------------
LEMMA InitUpgrades == Init => UpgradeInv
  BY InitLocks DEF Init, UpgradeInv, AtMostOne, UpgradesApart, Looping

(* The lock of p is granted or given back; the others stay as they are. *)
LEMMA OthersStay ==
  ASSUME UpgradeInv, NEW p \in Procs,
         UNCHANGED rec, pc'[p] \notin {"want", "blocked", "upgrading"},
         pc'[p] \in {"menu", "have", "ask", "upgrade"} => Looping(p),
         Looping(p) => \A r \in Slots: held'[p][r] # "none" => r = rec[p] /\ pc'[p] # "menu",
         \A q \in Procs \ {p}: pc'[q] = pc[q] /\ held'[q] = held[q]
  PROVE  AtMostOne' /\ UpgradesApart'
<1>1. AtMostOne'  BY DEF UpgradeInv, AtMostOne, Looping
<1>2. UpgradesApart'  BY DEF UpgradeInv, UpgradesApart
<1> QED  BY <1>1, <1>2

LEMMA UnlockApart ==
  ASSUME UpgradeInv, NEW p \in Procs,
         SumGiveUp(p) \/ SumDone(p) \/ EditRefused(p) \/ EditDone(p) \/ Quit(p)
           \/ Deadlocked(p) \/ NotFound(p) \/ AnswerNo(p) \/ Unlock(p)
  PROVE  AtMostOne' /\ UpgradesApart'
<1> USE DEF UpgradeInv, LockInv, TypeOK
<1>1. PICK at \in {"menu", "done", "busy", "failed"}:
        Goto(p, at) /\ Unlocked(p) /\ UNCHANGED rec /\ (at = "menu" => Looping(p))
  BY DEF SumGiveUp, SumDone, EditRefused, EditDone, Quit, Deadlocked,
         NotFound, AnswerNo, Unlock, Exit, Release, AtMostOne
<1>2. /\ pc'[p] = at /\ \A r \in Slots: held'[p][r] = "none"
      /\ \A q \in Procs \ {p}: pc'[q] = pc[q] /\ held'[q] = held[q]
  BY <1>1 DEF Goto, Unlocked
<1> QED  BY <1>1, <1>2, OthersStay

LEMMA LockApart ==
  ASSUME UpgradeInv, NEW p \in Procs, SumLock(p) \/ EditLock(p) \/ Granted(p)
  PROVE  AtMostOne' /\ UpgradesApart'
<1> USE DEF UpgradeInv, LockInv, TypeOK
<1>1. CASE SumLock(p) \/ EditLock(p)
  <2>1. /\ ~Looping(p) /\ UNCHANGED rec /\ pc'[p] \in {"reading", "vim"}
        /\ \A q \in Procs \ {p}: pc'[q] = pc[q] /\ held'[q] = held[q]
    BY <1>1 DEF SumLock, EditLock, Goto, Locked, Looping
  <2> QED  BY <2>1, OthersStay
<1>2. CASE Granted(p)
  <2>1. /\ Looping(p) /\ UNCHANGED rec /\ pc'[p] \in {"have", "edit"}
        /\ \A q \in Procs \ {p}: pc'[q] = pc[q] /\ held'[q] = held[q]
        /\ \A r \in Slots \ {rec[p]}: held'[p][r] = held[p][r]
    BY <1>2 DEF Granted, Calling, Waiting, AtMostOne, Goto, Locked
  <2>2. \A r \in Slots \ {rec[p]}: held[p][r] = "none"
    BY <2>1 DEF AtMostOne
  <2> QED  BY <2>1, <2>2, OthersStay
<1> QED  BY <1>1, <1>2

LEMMA WriteApart ==
  ASSUME UpgradeInv, NEW p \in Procs,
         SumRetry(p) \/ SumRead(p) \/ EditSave(p) \/ Read(p) \/ AnswerYes(p)
           \/ Save(p) \/ SaveSame(p)
  PROVE  AtMostOne' /\ UpgradesApart'
<1> USE DEF UpgradeInv, LockInv, TypeOK
<1>1. CASE SumRetry(p) \/ SumRead(p)
  BY <1>1 DEF SumRetry, SumRead, AtMostOne, UpgradesApart
<1>2. CASE EditSave(p) \/ Read(p) \/ AnswerYes(p) \/ Save(p) \/ SaveSame(p)
  <2>1. /\ UNCHANGED <<rec, held>> /\ pc'[p] \in {"written", "ask", "edit", "upgrade"}
        /\ \A q \in Procs \ {p}: pc'[q] = pc[q]
    BY <1>2 DEF EditSave, Read, AnswerYes, Save, SaveSame, Goto
  <2>2. /\ pc[p] \notin {"menu", "want", "blocked"}
        /\ pc'[p] \in {"ask", "upgrade"} => Looping(p)
    BY <1>2 DEF EditSave, Read, AnswerYes, Save, SaveSame, Goto, AtMostOne
  <2> QED  BY <2>1, <2>2, OthersStay DEF AtMostOne
<1> QED  BY <1>1, <1>2

LEMMA ChooseApart ==
  ASSUME UpgradeInv, NEW p \in Procs, Choose(p)
  PROVE  AtMostOne' /\ UpgradesApart'
<1> USE DEF UpgradeInv, LockInv, TypeOK
<1>1. /\ pc[p] = "menu" /\ pc'[p] = "want" /\ held' = held
      /\ \A q \in Procs \ {p}: pc'[q] = pc[q] /\ rec'[q] = rec[q]
  BY DEF Choose, Goto
<1>2. AtMostOne'  BY <1>1 DEF AtMostOne, Looping
<1>3. UpgradesApart'  BY <1>1 DEF UpgradesApart
<1> QED  BY <1>2, <1>3

(* Of two who hold read locks on one record and want to change it, the     *)
(* second closes the circle: it does not wait.                             *)
LEMMA MutualIsDeadlock ==
  ASSUME LockInv, NEW p \in Procs, NEW q \in Procs \ {p},
         pc[p] = "upgrade", pc[q] = "upgrading", rec[p] = rec[q]
  PROVE  Deadlock(p)
<1>1. held[p][rec[p]] = "read" /\ held[q][rec[q]] = "read"
  BY DEF LockInv, LocksHeld
<1>2. q \in BlockersOf(p) /\ p \in BlockersOf(q)
  BY <1>1 DEF BlockersOf, Blockers, Wanted, Conflict
<1>3. {p, q} \in SUBSET {r \in Procs: r = p \/ Waiting(r)}
  BY DEF Waiting
<1>4. \A r \in {p, q}: BlockersOf(r) \cap {p, q} # {}
  BY <1>2
<1> QED  BY <1>3, <1>4 DEF Deadlock

LEMMA WaitApart ==
  ASSUME UpgradeInv, NEW p \in Procs, Wait(p)
  PROVE  AtMostOne' /\ UpgradesApart'
<1> USE DEF UpgradeInv
<1>1. /\ UNCHANGED <<rec, held>> /\ ~Deadlock(p)
      /\ \/ pc[p] = "want" /\ pc'[p] = "blocked"
         \/ pc[p] = "upgrade" /\ pc'[p] = "upgrading"
      /\ \A q \in Procs \ {p}: pc'[q] = pc[q]
  BY DEF Wait, Goto, LockInv, TypeOK
<1>2. AtMostOne'  BY <1>1 DEF AtMostOne, Looping
<1>3. \A q \in Procs \ {p}: pc'[p] = "upgrading" /\ pc[q] = "upgrading" => rec[p] # rec[q]
  BY <1>1, MutualIsDeadlock
<1>4. UpgradesApart'  BY <1>1, <1>3 DEF UpgradesApart
<1> QED  BY <1>2, <1>4

LEMMA UpgradesInvariant == Spec => []UpgradeInv
<1>1. UpgradeInv /\ [Next]_vars /\ LockInv' => UpgradeInv'
  <2> SUFFICES ASSUME UpgradeInv, [Next]_vars PROVE AtMostOne' /\ UpgradesApart'
    BY DEF UpgradeInv
  <2>1. CASE UNCHANGED vars
    BY <2>1 DEF vars, UpgradeInv, AtMostOne, UpgradesApart
  <2>2. ASSUME NEW p \in Procs, Step(p) \/ Choose(p) \/ Quit(p)
        PROVE  AtMostOne' /\ UpgradesApart'
    BY <2>2, UnlockApart, LockApart, WriteApart, ChooseApart, WaitApart DEF Step
  <2> QED  BY <2>1, <2>2 DEF Next
<1> QED  BY <1>1, InitUpgrades, LocksCorrect, PTL DEF Spec

(* Who blocks a waiting program and is itself about to wait has the record *)
(* the other wants, and wants to change it.                                *)
LEMMA BlockerUpgrades ==
  ASSUME UpgradeInv, NEW q \in Procs, NEW r \in BlockersOf(q), Calling(r)
  PROVE  r \in Procs \ {q} /\ pc[r] \in {"upgrade", "upgrading"} /\ rec[r] = rec[q]
<1>1. r \in Procs \ {q} /\ held[r][rec[q]] # "none" /\ rec[q] \in Slots
  BY DEF BlockersOf, Blockers, Conflict, UpgradeInv, LockInv, TypeOK
<1>2. Looping(r)  BY <1>1 DEF UpgradeInv, AtMostOne, Calling, Waiting
<1> QED  BY <1>1, <1>2 DEF UpgradeInv, AtMostOne, Calling, Waiting

LEMMA DeadlockIsMutual ==
  ASSUME UpgradeInv, NEW p \in Procs, Calling(p), Deadlock(p)
  PROVE  /\ pc[p] \in {"upgrade", "upgrading"}
         /\ \E q \in Procs \ {p}: pc[q] = "upgrading" /\ rec[q] = rec[p]
<1>1. PICK S \in SUBSET {q \in Procs: q = p \/ Waiting(q)}:
        p \in S /\ \A q \in S: BlockersOf(q) \cap S # {}
  BY DEF Deadlock
<1>2. \A q \in S: q \in Procs /\ Calling(q) /\ (q # p => Waiting(q))
  BY <1>1 DEF Calling
<1>3. PICK q \in BlockersOf(p): q \in S
  BY <1>1
<1>4. q \in Procs \ {p} /\ pc[q] = "upgrading" /\ rec[q] = rec[p]
  BY <1>2, <1>3, BlockerUpgrades DEF Waiting
<1>5. PICK r \in BlockersOf(q): r \in S
  BY <1>1, <1>3
<1>6. r \in Procs \ {q} /\ pc[r] \in {"upgrade", "upgrading"} /\ rec[r] = rec[q]
  BY <1>2, <1>3, <1>5, BlockerUpgrades
<1>7. r = p
  BY <1>2, <1>4, <1>5, <1>6 DEF Waiting, UpgradeInv, UpgradesApart
<1> QED  BY <1>4, <1>6, <1>7

(* EDEADLK ends fcntl_lock3 and fcntl_lock4 only in a mutual upgrade:      *)
(* whatever the number of programs and records.                            *)
THEOREM OnlyMutualUpgradesFailCorrect == Spec => OnlyMutualUpgradesFail
<1> DEFINE Mutual(p) == /\ pc[p] \in {"upgrade", "upgrading"}
                        /\ \E q \in Procs \ {p}: pc[q] = "upgrading" /\ rec[q] = rec[p]
           OnlyThen == \A p \in Procs: Looping(p) /\ pc[p] # "failed" /\ pc'[p] = "failed"
                                         => Mutual(p)
<1>1. UpgradeInv /\ [Next]_vars => [OnlyThen]_vars
  <2> SUFFICES ASSUME UpgradeInv, NEW o \in Procs, Step(o) \/ Choose(o) \/ Quit(o),
                      NEW p \in Procs, Looping(p), pc[p] # "failed", pc'[p] = "failed"
               PROVE  Mutual(p)
    BY DEF Next
  <2>1. Deadlocked(p)
    BY DEF UpgradeInv, LockInv, TypeOK, Step, Choose, Quit, Goto, Exit, Release, Looping,
           SumLock, SumRetry, SumGiveUp, SumRead, SumDone, EditLock, EditRefused, EditSave,
           EditDone, Wait, Granted, Deadlocked, Read, NotFound, AnswerNo, AnswerYes, Save,
           SaveSame, Unlock
  <2> QED  BY <2>1, DeadlockIsMutual DEF Deadlocked
<1> QED  BY <1>1, UpgradesInvariant, PTL DEF Spec, OnlyMutualUpgradesFail
=============================================================================
