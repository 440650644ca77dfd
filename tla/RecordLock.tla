----------------------------- MODULE RecordLock ------------------------------
(***************************************************************************)
(* The employee file of 18_20192403 and the four programs that share it    *)
(* through fcntl record locks:                                             *)
(*   "summer"   fcntl_lock1  totals all salaries under a read lock;        *)
(*   "editor"   fcntl_lock2  edits the whole file under a write lock;      *)
(*   "updater"  fcntl_lock3  changes one record under a write lock;        *)
(*   "upgrader" fcntl_lock4  shows one record under a read lock and turns  *)
(*              it into a write lock if the user wants a change.           *)
(* A new salary is the one shown plus one, so a lost update shows.         *)
(***************************************************************************)
EXTENDS Integers, FiniteSets

CONSTANTS
  Procs,      \* running programs
  Program,    \* which program each one is
  NumRecords, \* the file has records 0 to NumRecords - 1
  BusyErrno,  \* errno of F_SETLK on a locked region: "EACCES" or "EAGAIN"
  MAXTRIES,
  MaxRaises   \* bound: salary changes per record

Records == 0..(NumRecords - 1)
Slots   == 0..NumRecords    \* with the record past the end; l_len = 0 locks all

ASSUME ProgramAssumption == Program \in [Procs -> {"summer", "editor", "updater", "upgrader"}]
ASSUME ErrnoAssumption   == BusyErrno \in {"EACCES", "EAGAIN"}
ASSUME NumbersAssumption == NumRecords \in Nat /\ MAXTRIES \in Nat /\ MaxRaises \in Nat

VARIABLES
  file,    \* the salary in each record
  held,    \* the kernel's record locks, per process and slot
  pc,      \* per process, the next step of its program
  rec,     \* per process, the slot it works on
  seen,    \* per process, the salaries it has read
  next,    \* per process, the record the file offset is at
  try,     \* per process, the retries of fcntl_lock1
  raises   \* history: the changes made to each record

vars == <<file, held, pc, rec, seen, next, try, raises>>

LockKinds == {"none", "read", "write"}
Steps == {"start", "reading", "vim", "menu", "want", "blocked", "have", "ask",
          "upgrade", "upgrading", "edit", "written",
          "done", "busy", "failed"}

TypeOK ==
  /\ file \in [Records -> Nat]
  /\ held \in [Procs -> [Slots -> LockKinds]]
  /\ pc \in [Procs -> Steps]
  /\ rec \in [Procs -> Slots]
  /\ seen \in [Procs -> [Records -> Nat]]
  /\ next \in [Procs -> Slots]
  /\ try \in [Procs -> 0..MAXTRIES]
  /\ raises \in [Records -> Nat]

Looping(p) == Program[p] \in {"updater", "upgrader"}

Init ==
  /\ file = [r \in Records |-> 0]
  /\ held = [p \in Procs |-> [r \in Slots |-> "none"]]
  /\ pc = [p \in Procs |-> IF Looping(p) THEN "menu" ELSE "start"]
  /\ rec = [p \in Procs |-> 0]
  /\ seen = [p \in Procs |-> [r \in Records |-> 0]]
  /\ next = [p \in Procs |-> 0]
  /\ try = [p \in Procs |-> 0]
  /\ raises = [r \in Records |-> 0]

-----------------------------------------------------------------------------
(* fcntl: a lock is granted when no other process holds a conflicting one. *)
(* A process that waits (F_SETLKW) is refused with EDEADLK if its waiting  *)
(* would close a circle of waiting processes.                              *)

Conflict(k1, k2) == (k1 = "write" /\ k2 # "none") \/ (k2 = "write" /\ k1 # "none")

Blockers(p, kind, slots) ==
  {q \in Procs \ {p}: \E r \in slots: Conflict(kind, held[q][r])}

Locked(p, kind, slots) ==
  held' = [held EXCEPT ![p] = [r \in Slots |-> IF r \in slots THEN kind ELSE @[r]]]

Unlocked(p) == held' = [held EXCEPT ![p] = [r \in Slots |-> "none"]]

(* The lock a process in F_SETLKW asks for. *)
Waiting(p) == pc[p] \in {"blocked", "upgrading"}
(* A slip: every program first asks for a read lock. *)
WantedRead(p) == IF pc[p] \in {"want", "blocked"} THEN "read" ELSE "write"

Wanted(p)  == IF pc[p] \in {"want", "blocked"} /\ Program[p] = "upgrader"
                THEN "read" ELSE "write"
BlockersOf(p) == Blockers(p, Wanted(p), {rec[p]})

Deadlock(p) ==
  \E S \in SUBSET {q \in Procs: q = p \/ Waiting(q)}:
    p \in S /\ \A q \in S: BlockersOf(q) \cap S # {}

Goto(p, at) == pc' = [pc EXCEPT ![p] = at]

(* exit() and close() release what the process has locked. *)
Exit(p, how) == /\ Goto(p, how)
                /\ Unlocked(p)
                /\ UNCHANGED <<file, rec, seen, next, try, raises>>

-----------------------------------------------------------------------------
(* fcntl_lock1 *)

SumLock(p) ==
  /\ Program[p] = "summer" /\ pc[p] = "start"
  /\ Blockers(p, "read", Slots) = {}
  /\ Locked(p, "read", Slots)
  /\ Goto(p, "reading")
  /\ UNCHANGED <<file, rec, seen, next, try, raises>>

Refused(p, kind) == pc[p] = "start" /\ Blockers(p, kind, Slots) # {}

SumRetry(p) ==
  /\ Program[p] = "summer" /\ Refused(p, "read")
  /\ BusyErrno = "EACCES" /\ try[p] < MAXTRIES
  /\ try' = [try EXCEPT ![p] = @ + 1]
  /\ UNCHANGED <<file, held, pc, rec, seen, next, raises>>

(* "busy -- try later" (exit 2), or perror for any other errno (exit 3). *)
SumGiveUp(p) ==
  /\ Program[p] = "summer" /\ Refused(p, "read")
  /\ \/ BusyErrno = "EACCES" /\ try[p] = MAXTRIES /\ Exit(p, "busy")
     \/ BusyErrno # "EACCES" /\ Exit(p, "failed")

SumRead(p) ==
  /\ pc[p] = "reading" /\ next[p] < NumRecords
  /\ seen' = [seen EXCEPT ![p][next[p]] = file[next[p]]]
  /\ next' = [next EXCEPT ![p] = @ + 1]
  /\ UNCHANGED <<file, held, pc, rec, try, raises>>

SumDone(p) ==
  /\ pc[p] = "reading" /\ next[p] = NumRecords
  /\ Exit(p, "done")

-----------------------------------------------------------------------------
(* fcntl_lock2 *)

EditLock(p) ==
  /\ Program[p] = "editor" /\ pc[p] = "start"
  /\ Blockers(p, "write", Slots) = {}
  /\ Locked(p, "write", Slots)
  /\ seen' = [seen EXCEPT ![p] = file]
  /\ Goto(p, "vim")
  /\ UNCHANGED <<file, rec, next, try, raises>>

EditRefused(p) ==
  /\ Program[p] = "editor" /\ Refused(p, "write")
  /\ Exit(p, IF BusyErrno = "EACCES" THEN "busy" ELSE "failed")

(* The editor writes back all it has read, with one change. *)
EditSave(p) ==
  /\ pc[p] = "vim"
  /\ \E r \in Records:
       /\ raises[r] < MaxRaises
       /\ file' = [seen[p] EXCEPT ![r] = @ + 1]
       /\ raises' = [raises EXCEPT ![r] = @ + 1]
  /\ Goto(p, "written")
  /\ UNCHANGED <<held, rec, seen, next, try>>

EditDone(p) ==
  /\ Program[p] = "editor" /\ pc[p] \in {"vim", "written"}
  /\ Exit(p, "done")

-----------------------------------------------------------------------------
(* fcntl_lock3 and fcntl_lock4: one record at a time *)

Choose(p) ==
  /\ pc[p] = "menu"
  /\ \E r \in Slots: rec' = [rec EXCEPT ![p] = r]
  /\ Goto(p, "want")
  /\ UNCHANGED <<file, held, seen, next, try, raises>>

Quit(p) == pc[p] = "menu" /\ Exit(p, "done")

Calling(p) == pc[p] \in {"want", "upgrade"} \/ Waiting(p)

(* F_SETLKW waits ... *)
Wait(p) ==
  /\ pc[p] \in {"want", "upgrade"}
  /\ BlockersOf(p) # {} /\ ~Deadlock(p)
  /\ Goto(p, IF pc[p] = "want" THEN "blocked" ELSE "upgrading")
  /\ UNCHANGED <<file, held, rec, seen, next, try, raises>>

(* ... and returns with the lock, ... *)
Granted(p) ==
  /\ Calling(p)
  /\ BlockersOf(p) = {}
  /\ Locked(p, Wanted(p), {rec[p]})
  /\ Goto(p, IF pc[p] \in {"want", "blocked"} THEN "have" ELSE "edit")
  /\ UNCHANGED <<file, rec, seen, next, try, raises>>

(* ... or with EDEADLK: exit(2), or exit(3) in the middle of an upgrade. *)
Deadlocked(p) ==
  /\ Calling(p)
  /\ BlockersOf(p) # {} /\ Deadlock(p)
  /\ Exit(p, "failed")

Read(p) ==
  /\ pc[p] = "have" /\ rec[p] \in Records
  /\ seen' = [seen EXCEPT ![p][rec[p]] = file[rec[p]]]
  /\ Goto(p, IF Program[p] = "upgrader" THEN "ask" ELSE "edit")
  /\ UNCHANGED <<file, held, rec, next, try, raises>>

(* A slip: F_UNLCK is forgotten. *)
ReleaseForgotten(p) ==
  /\ Goto(p, "menu")
  /\ UNCHANGED <<file, held, rec, seen, next, try, raises>>

Release(p) ==
  /\ Goto(p, "menu")
  /\ Unlocked(p)
  /\ UNCHANGED <<file, rec, seen, next, try, raises>>

NotFound(p) == pc[p] = "have" /\ rec[p] = NumRecords /\ Release(p)

AnswerNo(p) == pc[p] = "ask" /\ Release(p)

(* Slips: the record is changed under the read lock; the read lock is      *)
(* given back before the write lock is asked for.                          *)
AnswerYesNoLock(p) ==
  /\ pc[p] = "ask"
  /\ Goto(p, "edit")
  /\ UNCHANGED <<file, held, rec, seen, next, try, raises>>

AnswerYesUnlocked(p) ==
  /\ pc[p] = "ask"
  /\ Goto(p, "upgrade")
  /\ Unlocked(p)
  /\ UNCHANGED <<file, rec, seen, next, try, raises>>

AnswerYes(p) ==
  /\ pc[p] = "ask"
  /\ Goto(p, "upgrade")
  /\ UNCHANGED <<file, held, rec, seen, next, try, raises>>

Save(p) ==
  /\ pc[p] = "edit" /\ raises[rec[p]] < MaxRaises
  /\ file' = [file EXCEPT ![rec[p]] = seen[p][rec[p]] + 1]
  /\ raises' = [raises EXCEPT ![rec[p]] = @ + 1]
  /\ Goto(p, "written")
  /\ UNCHANGED <<held, rec, seen, next, try>>

(* The bound: a user who has no raise left to give enters the same salary. *)
SaveSame(p) ==
  /\ pc[p] = "edit" /\ raises[rec[p]] = MaxRaises
  /\ file' = [file EXCEPT ![rec[p]] = seen[p][rec[p]]]
  /\ Goto(p, "written")
  /\ UNCHANGED <<held, rec, seen, next, try, raises>>

Unlock(p) == Looping(p) /\ pc[p] = "written" /\ Release(p)

-----------------------------------------------------------------------------
Step(p) ==
  \/ SumLock(p) \/ SumRetry(p) \/ SumGiveUp(p) \/ SumRead(p) \/ SumDone(p)
  \/ EditLock(p) \/ EditRefused(p) \/ EditSave(p) \/ EditDone(p)
  \/ Wait(p) \/ Granted(p) \/ Deadlocked(p) \/ Read(p) \/ NotFound(p)
  \/ AnswerNo(p) \/ AnswerYes(p) \/ Save(p) \/ SaveSame(p) \/ Unlock(p)

Next == \E p \in Procs: Step(p) \/ Choose(p) \/ Quit(p)

Spec == Init /\ [][Next]_vars

-----------------------------------------------------------------------------
(* Properties *)

(* No change is lost: every record has had exactly the changes its users   *)
(* made, although each wrote a value derived from what it had been shown.  *)
NoLostUpdate == \A r \in Records: file[r] = raises[r]

(* fcntl_lock1's total is the total of the file at one moment: what it has *)
(* added up is still what the file says.                                   *)
TotalConsistent ==
  \A p \in Procs: pc[p] = "reading" =>
    \A r \in Records: r < next[p] => seen[p][r] = file[r]

(* The user of fcntl_lock4 answers "y" to a salary that is still the       *)
(* record's when the write lock arrives.                                   *)
UpgradeKeepsRecord ==
  \A p \in Procs: pc[p] \in {"ask", "upgrade", "upgrading", "edit"} =>
    seen[p][rec[p]] = file[rec[p]]

(* A loop program is ended by EDEADLK only for being the second who wants  *)
(* to change a record that both are looking at: no program that has no     *)
(* lock yet is ever refused one, and no circle goes over several records.  *)
OnlyMutualUpgradesFail ==
  [][\A p \in Procs: Looping(p) /\ pc[p] # "failed" /\ pc'[p] = "failed" =>
       /\ pc[p] \in {"upgrade", "upgrading"}
       /\ \E q \in Procs \ {p}: pc[q] = "upgrading" /\ rec[q] = rec[p]]_vars

-----------------------------------------------------------------------------
(* Inductive invariant: who has locked what at which step, and that what   *)
(* was read under a lock still is what the file says.                      *)

Exclusive ==
  \A p, q \in Procs: p # q => \A r \in Slots: ~Conflict(held[p][r], held[q][r])

LocksHeld ==
  \A p \in Procs:
    /\ pc[p] = "start" => next[p] = 0
    /\ pc[p] = "reading" => \A r \in Slots: held[p][r] = "read"
    /\ pc[p] = "vim" => \A r \in Slots: held[p][r] = "write"
    /\ pc[p] = "have" => held[p][rec[p]] = (IF Program[p] = "upgrader" THEN "read" ELSE "write")
    /\ pc[p] \in {"ask", "upgrade", "upgrading"} => held[p][rec[p]] = "read"
    /\ pc[p] = "edit" => held[p][rec[p]] = "write"
    /\ pc[p] \in {"ask", "upgrade", "upgrading", "edit"} => rec[p] \in Records

VimCurrent == \A p \in Procs: pc[p] = "vim" => seen[p] = file

LockInv == /\ TypeOK /\ Exclusive /\ LocksHeld
           /\ NoLostUpdate /\ TotalConsistent /\ UpgradeKeepsRecord /\ VimCurrent

(* Why only mutual upgrades fail: who waits for a first lock has none, who *)
(* waits for an upgrade has one record, and no two wait for the same one.  *)
AtMostOne ==
  \A p \in Procs:
    /\ pc[p] \in {"menu", "want", "blocked", "have", "ask", "upgrade", "upgrading"} => Looping(p)
    /\ Looping(p) => \A r \in Slots: held[p][r] # "none" =>
         r = rec[p] /\ pc[p] \notin {"menu", "want", "blocked"}
UpgradesApart ==
  \A p, q \in Procs: p # q /\ pc[p] = "upgrading" /\ pc[q] = "upgrading" => rec[p] # rec[q]
UpgradeInv == LockInv /\ AtMostOne /\ UpgradesApart
=============================================================================
