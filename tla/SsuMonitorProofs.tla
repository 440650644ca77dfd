-------------------------- MODULE SsuMonitorProofs ---------------------------
(***************************************************************************)
(* What SsuMonitor keeps for any number of shells, daemons and paths:      *)
(*                                                                         *)
(*  - its types, in every mode;                                            *)
(*  - with a patient user and no killed shell, whatever fork, fopen of     *)
(*    log.txt or a daemon does (Faults): it never watches overlapping      *)
(*    directories, keeps every daemon findable in the list, loses no line  *)
(*    when it replaces the list, and implements WatchRegistry;             *)
(*  - with one shell, or a patient user, where nothing fails, whenever a   *)
(*    shell is killed: the list has lines of running daemons only.         *)
(***************************************************************************)
EXTENDS SsuMonitor, DirWatch, DataLemmas

-----------------------------------------------------------------------------
(* Types *)

(* Writing new lines over old ones gives a file of lines. *)
LEMMA OverlayType ==
  ASSUME NEW S, NEW top \in Seq(S), NEW under \in Seq(S)
  PROVE  Overlay(top, under) \in Seq(S)
<1>1. /\ Len(top) \in Nat /\ Len(under) \in Nat
      /\ \A i \in 1..Len(under): under[i] \in S
  BY LenProperties
<1>2. SubSeq(under, Len(top) + 1, Len(under)) \in Seq(S)
  BY <1>1, SubSeqProperties
<1> QED  BY <1>2, ConcatProperties DEF Overlay

(* Init establishes the types. *)
LEMMA InitTypes == Init => TypeInv
  BY NoneAssumption, EmptySeq DEF Init, TypeInv, TypeOK, Shape, At, Live, Entry, Steps, Phases

(* A command that ends leaves its shell in a typed state. *)
LEMMA LeaveTypes ==
  ASSUME TypeInv, NEW s \in Shells, NEW at \in {"prompt", "exited"}, Leave(s, at)
  PROVE  /\ pc' \in [Shells -> Steps]
         /\ cmd' \in [Shells -> {"none", "add", "delete", "tree"}]
         /\ path' \in [Shells -> Paths \cup {NoPath}]
         /\ target' \in [Shells -> Pids \cup {NoPid}]
         /\ fp' \in [Shells -> Inodes \cup {NoFile}]
         /\ tfp' \in [Shells -> Inodes \cup {NoFile}]
         /\ lines' \in [Shells -> Seq(Entry)]
         /\ kept' \in [Shells -> Seq(Entry)]
         /\ found' \in [Shells -> BOOLEAN]
         /\ pc'[s] = at
         /\ \A t \in Shells \ {s}: pc'[t] = pc[t] /\ cmd'[t] = cmd[t] /\ path'[t] = path[t]
              /\ target'[t] = target[t] /\ fp'[t] = fp[t] /\ tfp'[t] = tfp[t]
<1>1. << >> \in Seq(Entry)  BY EmptySeq
<1> QED  BY <1>1 DEF Leave, TypeInv, TypeOK, Steps

(* A command that ends and leaves files and daemons alone. *)
LEMMA LeaveOnlyTypes ==
  ASSUME TypeInv, NEW s \in Shells, NEW at \in {"prompt", "exited"}, Leave(s, at),
         UNCHANGED <<fileVars, daemonVars>>
  PROVE  TypeInv'
<1> USE DEF TypeInv, fileVars, daemonVars
<1>1. TypeOK'  BY LeaveTypes DEF TypeOK
<1>2. Shape'  BY LeaveTypes, ZenonT(60) DEF Shape, At, Live
<1> QED  BY <1>1, <1>2

LEMMA UserTypes ==
  ASSUME TypeInv, NEW s \in Shells, UserStep(s)
  PROVE  TypeInv'
<1> USE DEF TypeInv
<1>1. ASSUME NEW d \in Paths, NEW c \in {"add", "tree"}, Access(s, c),
             path' = [path EXCEPT ![s] = d], UNCHANGED target
      PROVE  TypeInv'
  <2> USE <1>1 DEF Access, Goto, fileVars, streamVars, deleteVars, daemonVars
  <2>1. TypeOK'  BY DEF TypeOK, Steps
  <2>2. Shape'  BY DEF TypeOK, Shape, At, Live
  <2> QED  BY <2>1, <2>2
<1>2. ASSUME NEW p \in Pids, DeleteCommand(s, p)
      PROVE  TypeInv'
  <2> USE <1>2 DEF DeleteCommand, Access, Goto, fileVars, streamVars, deleteVars, daemonVars
  <2>1. TypeOK'  BY DEF TypeOK, Steps
  <2>2. Shape'  BY DEF TypeOK, Shape, At, Live
  <2> QED  BY <2>1, <2>2
<1>3. CASE ExitCommand(s)  BY <1>3, LeaveOnlyTypes DEF ExitCommand
<1>4. CASE ShellStart(s)
  <2> USE <1>4 DEF ShellStart, Goto, fileVars, inputVars, streamVars, deleteVars, daemonVars
  <2>1. TypeOK'  BY DEF TypeOK, Steps
  <2>2. Shape'  BY DEF TypeOK, Shape, At, Live
  <2> QED  BY <2>1, <2>2
<1>5. CASE ShellKilled(s)  BY <1>5, LeaveOnlyTypes DEF ShellKilled
<1>6. ASSUME NEW d \in Paths, AddCommand(s, d) \/ TreeCommand(s, d)
      PROVE  TypeInv'
  BY <1>1, <1>6 DEF AddCommand, TreeCommand
<1> QED  BY <1>2, <1>3, <1>4, <1>5, <1>6 DEF UserStep

(* Opening the list, and add and tree up to their ends. *)
LEMMA OpenTypes ==
  ASSUME TypeInv, NEW s \in Shells,
         OpenNew(s) \/ Open(s) \/ OpenFails(s) \/ AddScan(s) \/ AddRefused(s)
           \/ AddFork(s) \/ AddForkFails(s) \/ TreeScan(s)
  PROVE  TypeInv'
<1> USE DEF TypeInv
<1>1. CASE OpenNew(s)
  <2>1. PICK i \in Inodes: /\ list' = i
                           /\ data' = [data EXCEPT ![i] = << >>]
                           /\ fp' = [fp EXCEPT ![s] = i]
    BY <1>1 DEF OpenNew
  <2> USE <1>1, <2>1, EmptySeq
      DEF OpenNew, Goto, Opened, inputVars, deleteVars, daemonVars
  <2>2. TypeOK'  BY DEF TypeOK, Steps
  <2>3. Shape'  BY DEF TypeOK, Shape, At, Live
  <2> QED  BY <2>2, <2>3
<1>2. CASE Open(s)
  <2> USE <1>2 DEF Open, Goto, Opened, fileVars, inputVars, deleteVars, daemonVars
  <2>1. TypeOK'  BY DEF TypeOK, Steps
  <2>2. Shape'  BY DEF TypeOK, Shape, At, Live
  <2> QED  BY <2>1, <2>2
<1>3. CASE AddScan(s)
  <2> USE <1>3 DEF AddScan, Goto, fileVars, inputVars, deleteVars, daemonVars
  <2>1. TypeOK'  BY DEF TypeOK, Steps
  <2>2. Shape'  BY DEF TypeOK, Shape, At, Live
  <2> QED  BY <2>1, <2>2
<1>4. CASE AddFork(s)
  <2>1. path[s] \in Paths  BY <1>4 DEF AddFork, Shape, At
  <2>2. PICK p \in Pids: /\ ~Live(p)
                         /\ st' = [st EXCEPT ![p] = "forked"]
                         /\ dir' = [dir EXCEPT ![p] = path[s]]
    BY <1>4 DEF AddFork
  <2>3. st' \in [Pids -> Phases] /\ dir' \in [Pids -> Paths \cup {NoPath}]
    BY <2>1, <2>2 DEF TypeOK, Phases
  <2>4. Leave(s, "prompt") /\ UNCHANGED <<list, temp, data, dfp>>
    BY <1>4 DEF AddFork, fileVars
  <2>5. TypeOK'  BY <2>3, <2>4, LeaveTypes DEF TypeOK
  <2>6. Shape'  BY <2>1, <2>2, <2>4, LeaveTypes, ZenonT(60) DEF TypeOK, Shape, At, Live
  <2> QED  BY <2>5, <2>6
<1>5. CASE OpenFails(s) \/ AddRefused(s) \/ AddForkFails(s) \/ TreeScan(s)
  BY <1>5, LeaveOnlyTypes DEF OpenFails, AddRefused, AddForkFails, TreeScan
<1> QED  BY <1>1, <1>2, <1>3, <1>4, <1>5

LEMMA DeleteTypes ==
  ASSUME TypeInv, NEW s \in Shells,
         DelOpenTemp(s) \/ DelRead(s) \/ DelLine(s) \/ DelLinesDone(s)
           \/ DelFlush(s) \/ DelUnknown(s) \/ DelRemove(s) \/ DelRename(s) \/ DelKill(s)
  PROVE  TypeInv'
<1> USE DEF TypeInv
<1>1. CASE DelOpenTemp(s)
  <2>1. PICK i \in Inodes: /\ temp' = i
                           /\ data' = [data EXCEPT ![i] = << >>]
                           /\ tfp' = [tfp EXCEPT ![s] = i]
    BY <1>1 DEF DelOpenTemp
  <2> USE <1>1, <2>1, EmptySeq DEF DelOpenTemp, Goto, inputVars, deleteVars, daemonVars
  <2>2. TypeOK'  BY DEF TypeOK, Steps
  <2>3. Shape'  BY DEF TypeOK, Shape, At, Live
  <2> QED  BY <2>2, <2>3
<1>2. CASE DelRead(s)
  <2>1. data[fp[s]] \in Seq(Entry)  BY <1>2 DEF DelRead, TypeOK, Shape, At
  <2> USE <1>2, <2>1 DEF DelRead, Goto, fileVars, inputVars, streamVars, daemonVars
  <2>2. TypeOK'  BY DEF TypeOK, Steps
  <2>3. Shape'  BY DEF TypeOK, Shape, At, Live
  <2> QED  BY <2>2, <2>3
<1>3. CASE DelLine(s)
  <2>1. /\ Head(lines[s]) \in Entry
        /\ Tail(lines[s]) \in Seq(Entry)
        /\ Append(kept[s], Head(lines[s])) \in Seq(Entry)
    BY <1>3, HeadTailProperties, AppendProperties DEF DelLine, TypeOK
  <2> USE <1>3, <2>1 DEF DelLine, fileVars, inputVars, streamVars, daemonVars
  <2>2. kept' \in [Shells -> Seq(Entry)] /\ found' \in [Shells -> BOOLEAN]
    BY DEF TypeOK
  <2>3. TypeOK'  BY <2>2 DEF TypeOK
  <2>4. Shape'  BY DEF TypeOK, Shape, At, Live
  <2> QED  BY <2>3, <2>4
<1>4. CASE DelLinesDone(s)
  <2> USE <1>4 DEF DelLinesDone, Goto, fileVars, inputVars, streamVars, deleteVars, daemonVars
  <2>1. TypeOK'  BY DEF TypeOK, Steps
  <2>2. Shape'  BY DEF TypeOK, Shape, At, Live
  <2> QED  BY <2>1, <2>2
<1>5. ASSUME pc[s] = "del_flush", Flushed(s)
      PROVE  data' \in [Inodes -> Seq(Entry)]
  <2>1. tfp[s] \in Inodes  BY <1>5 DEF Shape, At
  <2>2. kept[s] \in Seq(Entry) /\ data[tfp[s]] \in Seq(Entry)  BY <2>1 DEF TypeOK
  <2>3. Overlay(kept[s], data[tfp[s]]) \in Seq(Entry)  BY <2>2, OverlayType
  <2> QED  BY <1>5, <2>3 DEF Flushed, TypeOK
<1>6. CASE DelFlush(s)
  <2> USE <1>5, <1>6, EmptySeq DEF DelFlush, Goto, inputVars, daemonVars
  <2>1. TypeOK'  BY DEF TypeOK, Steps
  <2>2. Shape'  BY DEF TypeOK, Shape, At, Live
  <2> QED  BY <2>1, <2>2
<1>7. CASE DelUnknown(s)
  <2> USE <1>5, <1>7, LeaveTypes DEF DelUnknown, daemonVars
  <2>1. TypeOK'  BY DEF TypeOK
  <2>2. Shape'  BY ZenonT(60) DEF Shape, At, Live
  <2> QED  BY <2>1, <2>2
<1>8. CASE DelRemove(s)
  <2> USE <1>8 DEF DelRemove, Goto, inputVars, streamVars, deleteVars, daemonVars
  <2>1. TypeOK'  BY DEF TypeOK, Steps
  <2>2. Shape'  BY DEF TypeOK, Shape, At, Live
  <2> QED  BY <2>1, <2>2
<1>9. CASE DelRename(s)
  <2> USE <1>9 DEF DelRename, Goto, inputVars, streamVars, deleteVars, daemonVars
  <2>1. TypeOK'  BY DEF TypeOK, Steps
  <2>2. Shape'  BY DEF TypeOK, Shape, At, Live
  <2> QED  BY <2>1, <2>2
<1>10. CASE DelKill(s)
  <2> USE <1>10, LeaveTypes DEF DelKill, Die, fileVars
  <2>1. TypeOK'  BY DEF TypeOK, Phases
  <2>2. Shape'  BY ZenonT(60) DEF TypeOK, Shape, At, Live
  <2> QED  BY <2>1, <2>2
<1> QED  BY <1>1, <1>2, <1>3, <1>4, <1>6, <1>7, <1>8, <1>9, <1>10

LEMMA DaemonTypes ==
  ASSUME TypeInv, NEW p \in Pids, DaemonStart(p) \/ DaemonFails(p)
  PROVE  TypeInv'
<1> USE DEF TypeInv, inputVars, streamVars, deleteVars
<1>1. CASE DaemonOpenList(p)
  <2>1. PICK i \in Inodes: /\ list' = i
                           /\ data' = IF list = NoFile THEN [data EXCEPT ![i] = << >>] ELSE data
                           /\ dfp' = [dfp EXCEPT ![p] = i]
    BY <1>1 DEF DaemonOpenList
  <2>2. data' \in [Inodes -> Seq(Entry)]  BY <2>1, EmptySeq DEF TypeOK
  <2> USE <1>1, <2>1, <2>2 DEF DaemonOpenList
  <2>3. TypeOK'  BY DEF TypeOK, Phases
  <2>4. Shape'  BY DEF TypeOK, Shape, At, Live
  <2> QED  BY <2>3, <2>4
<1>2. CASE DaemonAppend(p)
  <2>1. dfp[p] \in Inodes /\ [dir |-> dir[p], pid |-> p] \in Entry
    BY <1>2 DEF DaemonAppend, Shape, Live, Entry
  <2>2. Append(data[dfp[p]], [dir |-> dir[p], pid |-> p]) \in Seq(Entry)
    BY <2>1, AppendProperties DEF TypeOK
  <2> USE <1>2, <2>2 DEF DaemonAppend
  <2>3. TypeOK'  BY DEF TypeOK, Phases
  <2>4. Shape'  BY DEF TypeOK, Shape, At, Live
  <2> QED  BY <2>3, <2>4
<1>3. CASE DaemonOpenLog(p)
  <2> USE <1>3 DEF DaemonOpenLog, fileVars
  <2>1. TypeOK'  BY DEF TypeOK, Phases
  <2>2. Shape'  BY DEF TypeOK, Shape, At, Live
  <2> QED  BY <2>1, <2>2
<1>4. CASE DaemonFails(p)
  <2> USE <1>4 DEF DaemonFails, Die, fileVars
  <2>1. TypeOK'  BY DEF TypeOK, Phases
  <2>2. Shape'  BY DEF TypeOK, Shape, At, Live
  <2> QED  BY <2>1, <2>2
<1> QED  BY <1>1, <1>2, <1>3, <1>4 DEF DaemonStart

(* Every step keeps the types. *)
LEMMA StepTypes == TypeInv /\ [Next]_vars => TypeInv'
<1> SUFFICES ASSUME TypeInv, [Next]_vars PROVE TypeInv'
  OBVIOUS
<1>1. ASSUME NEW s \in Shells, CommandStep(s) PROVE TypeInv'
  BY <1>1, OpenTypes, DeleteTypes DEF CommandStep
<1>2. CASE UNCHANGED vars
  BY <1>2 DEF vars, fileVars, inputVars, streamVars, deleteVars, daemonVars,
              TypeInv, TypeOK, Shape, At, Live
<1> QED  BY <1>1, <1>2, UserTypes, DaemonTypes DEF Next

(* Every variable keeps its type: no interleaving of shells and daemons    *)
(* makes a stream, a path or a pid of ssu_monitor.c be used before it is   *)
(* set.                                                                    *)
THEOREM TypeCorrect == Spec => [](TypeOK /\ Shape)
<1>1. TypeInv => TypeOK /\ Shape  BY DEF TypeInv
<1> QED  BY <1>1, InitTypes, StepTypes, PTL DEF Spec

-----------------------------------------------------------------------------
(* The patient user *)

PatientMode == Patient /\ ~Interrupts

LEMMA InitPatient == Init => PatientInv
<1> SUFFICES ASSUME Init PROVE PatientInv
  OBVIOUS
<1>1. TypeInv  BY InitTypes
<1>2. OneAtATime /\ FilesOwned /\ LinesSafe /\ ScanHolds /\ NoOverlap
  BY DEF Init, OneAtATime, FilesOwned, LinesSafe, ScanHolds, NoOverlap, Idle, Pending, Live, At
<1> QED  BY <1>1, <1>2 DEF PatientInv

(* While a command runs, every other shell is idle and no daemon starts.   *)
LEMMA Alone ==
  ASSUME PatientInv, NEW s \in Shells, ~Idle(s)
  PROVE  /\ \A t \in Shells \ {s}: Idle(t)
         /\ \A p \in Pids: ~Pending(p)
  BY DEF PatientInv, OneAtATime

(* A line survives whatever is appended to its file. *)
LEMMA AppendKeeps ==
  ASSUME NEW q \in Seq(Entry), NEW e \in Entry
  PROVE  /\ \A k \in DOMAIN q: k \in DOMAIN Append(q, e) /\ Append(q, e)[k] = q[k]
         /\ Len(q) + 1 \in DOMAIN Append(q, e) /\ Append(q, e)[Len(q) + 1] = e
  BY AppendProperties, LenProperties

(* What is not the first line of a buffer is in the rest of it. *)
LEMMA TailKeeps ==
  ASSUME NEW q \in Seq(Entry), q # << >>, NEW e, Has(q, e), e # Head(q)
  PROVE  Has(Tail(q), e)
<1>1. PICK k \in DOMAIN q: q[k] = e  BY DEF Has
<1>2. /\ Len(q) \in Nat /\ DOMAIN q = 1..Len(q) /\ Head(q) = q[1]
      /\ Tail(q) \in Seq(Entry) /\ Len(Tail(q)) = Len(q) - 1
      /\ \A i \in 1..Len(Tail(q)): Tail(q)[i] = q[i + 1]
  BY HeadTailProperties, LenProperties
<1>3. DOMAIN Tail(q) = 1..(Len(q) - 1)  BY <1>2, LenProperties
<1>4. k \in 2..Len(q)  BY <1>1, <1>2
<1>5. k - 1 \in 1..(Len(q) - 1) /\ Tail(q)[k - 1] = e  BY <1>1, <1>2, <1>4
<1> QED  BY <1>3, <1>5 DEF Has

(* A write over an emptied file leaves just what is written. *)
LEMMA OverlayEmpty ==
  ASSUME NEW q \in Seq(Entry)
  PROVE  Overlay(q, << >>) = q
<1>1. Len(q) \in Nat /\ Len(<< >>) = 0  BY LenProperties, EmptySeq
<1>2. SubSeq(<< >>, Len(q) + 1, Len(<< >>)) = << >>  BY <1>1, SubSeqEmpty
<1> QED  BY <1>2, ConcatEmptySeq DEF Overlay

(* Steps that leave files, buffers and daemons alone move no line. *)
LEMMA LinesStay ==
  ASSUME LinesSafe, UNCHANGED <<fileVars, daemonVars>>,
         \A t \in Shells:
           At(t, {"del_line", "del_flush", "del_remove", "del_rename", "del_kill"})' =>
             /\ pc'[t] = pc[t] /\ target'[t] = target[t]
             /\ lines'[t] = lines[t] /\ kept'[t] = kept[t],
         \A s \in Shells: At(s, {"del_rename", "del_kill"}) => pc'[s] = pc[s]
  PROVE  LinesSafe'
<1>1. Listed' = Listed  BY DEF Listed, Lines, fileVars
<1>2. \A p \in Pids: Line(p)' = Line(p) /\ st'[p] = st[p]  BY DEF Line, daemonVars
<1>3. Lines(temp)' = Lines(temp)  BY DEF Lines, fileVars
<1> SUFFICES ASSUME NEW p \in Pids, (st[p] \in {"registered", "watching"})'
             PROVE  /\ (\A s \in Shells: ~At(s, {"del_rename", "del_kill"})') => (Line(p) \in Listed)'
                    /\ \A s \in Shells: p # target'[s] =>
                         /\ At(s, {"del_line"})' => Has(lines'[s], Line(p)') \/ Has(kept'[s], Line(p)')
                         /\ At(s, {"del_flush"})' => Has(kept'[s], Line(p)')
                         /\ At(s, {"del_remove", "del_rename"})' => (Line(p) \in Lines(temp))'
                         /\ At(s, {"del_kill"})' => (Line(p) \in Listed)'
  BY DEF LinesSafe
<1>4. (\A s \in Shells: ~At(s, {"del_rename", "del_kill"})') => (Line(p) \in Listed)'
  BY <1>1, <1>2 DEF LinesSafe, At
<1>5. ASSUME NEW s \in Shells, p # target'[s]
      PROVE  /\ At(s, {"del_line"})' => Has(lines'[s], Line(p)') \/ Has(kept'[s], Line(p)')
             /\ At(s, {"del_flush"})' => Has(kept'[s], Line(p)')
             /\ At(s, {"del_remove", "del_rename"})' => (Line(p) \in Lines(temp))'
             /\ At(s, {"del_kill"})' => (Line(p) \in Listed)'
  BY <1>1, <1>2, <1>3, <1>5 DEF LinesSafe, At
<1> QED  BY <1>4, <1>5

-----------------------------------------------------------------------------
(* Commands that end without touching files or daemons. *)
LEMMA LeaveOnlyPatient ==
  ASSUME PatientInv, NEW s \in Shells, NEW at \in {"prompt", "exited"}, Leave(s, at),
         UNCHANGED <<fileVars, daemonVars>>,
         pc[s] \notin {"del_rename", "del_kill"}
  PROVE  PatientInv'
<1> USE DEF PatientInv, fileVars, daemonVars
<1>1. TypeInv'  BY LeaveOnlyTypes
<1>2. OneAtATime'  BY LeaveTypes DEF OneAtATime, Idle, Pending
<1>3. FilesOwned'
  BY LeaveTypes DEF Leave, TypeInv, TypeOK, FilesOwned, At
<1>4. LinesSafe'
  <2>1. \A t \in Shells \ {s}: lines'[t] = lines[t] /\ kept'[t] = kept[t]
    BY DEF Leave, TypeInv, TypeOK
  <2> QED  BY <2>1, LeaveTypes, LinesStay DEF At
<1>5. ScanHolds'  BY LeaveTypes DEF ScanHolds, At, Live, Clash
<1>6. NoOverlap'  BY DEF NoOverlap, Live
<1> QED  BY <1>1, <1>2, <1>3, <1>4, <1>5, <1>6

LEMMA UserPatient ==
  ASSUME PatientMode, PatientInv, NEW s \in Shells, UserStep(s)
  PROVE  PatientInv'
<1> USE DEF PatientInv
<1>1. TypeInv'  BY UserTypes
<1>2. ASSUME NEW c \in {"add", "delete", "tree"}, Access(s, c)
      PROVE  OneAtATime' /\ FilesOwned' /\ LinesSafe' /\ ScanHolds' /\ NoOverlap'
  <2> USE <1>2 DEF Access, Goto, fileVars, streamVars, deleteVars, daemonVars
  <2>1. (\A t \in Shells: Idle(t)) /\ (\A p \in Pids: ~Pending(p))
    BY DEF PatientMode, Ready
  <2>2. OneAtATime'  BY <2>1 DEF OneAtATime, Idle, Pending
  <2>3. FilesOwned'  BY <2>1 DEF FilesOwned, At, Idle, TypeInv, TypeOK
  <2>4. LinesSafe'  BY <2>1, LinesStay DEF At, Idle, TypeInv, TypeOK
  <2>5. ScanHolds'  BY <2>1 DEF ScanHolds, At, Idle, TypeInv, TypeOK
  <2>6. NoOverlap'  BY DEF NoOverlap, Live
  <2> QED  BY <2>2, <2>3, <2>4, <2>5, <2>6
<1>3. CASE \E d \in Paths: AddCommand(s, d) \/ TreeCommand(s, d)
  BY <1>1, <1>2, <1>3 DEF AddCommand, TreeCommand
<1>4. CASE \E p \in Pids: DeleteCommand(s, p)
  BY <1>1, <1>2, <1>4 DEF DeleteCommand
<1>5. CASE ExitCommand(s)  BY <1>5, LeaveOnlyPatient DEF ExitCommand
<1>6. CASE ShellStart(s)
  <2> USE <1>6 DEF ShellStart, Goto, fileVars, inputVars, streamVars, deleteVars, daemonVars
  <2>1. OneAtATime'  BY DEF OneAtATime, Idle, Pending, TypeInv, TypeOK
  <2>2. FilesOwned'  BY DEF FilesOwned, At, TypeInv, TypeOK
  <2>3. LinesSafe'  BY LinesStay DEF At, TypeInv, TypeOK
  <2>4. ScanHolds'  BY DEF ScanHolds, At, Live, Clash, TypeInv, TypeOK
  <2>5. NoOverlap'  BY DEF NoOverlap, Live
  <2> QED  BY <1>1, <2>1, <2>2, <2>3, <2>4, <2>5
<1>7. CASE ShellKilled(s)  BY <1>7 DEF ShellKilled, PatientMode
<1> QED  BY <1>3, <1>4, <1>5, <1>6, <1>7 DEF UserStep

-----------------------------------------------------------------------------
(* A running command with every other shell idle and no daemon starting:   *)
(* what is left to show of a step.                                         *)
LEMMA TurnKept ==
  ASSUME PatientInv, NEW s \in Shells, ~Idle(s),
         \A t \in Shells \ {s}: pc'[t] = pc[t],
         \A p \in Pids: st'[p] \in {"opened", "forked"} => st'[p] = st[p]
  PROVE  OneAtATime'
<1>1. /\ \A t \in Shells \ {s}: Idle(t)
      /\ \A p \in Pids: ~Pending(p)
  BY Alone
<1> QED  BY <1>1 DEF OneAtATime, Idle, Pending

LEMMA OpenPatient ==
  ASSUME PatientInv, NEW s \in Shells,
         OpenNew(s) \/ Open(s) \/ OpenFails(s) \/ AddScan(s) \/ AddRefused(s)
           \/ AddForkFails(s) \/ TreeScan(s)
  PROVE  PatientInv'
<1> USE DEF PatientInv
<1>1. TypeInv'  BY OpenTypes
<1>2. ASSUME ~Idle(s)
      PROVE  /\ \A t \in Shells \ {s}: Idle(t)
             /\ \A p \in Pids: ~Pending(p)
  BY <1>2, Alone
<1>3. CASE OpenNew(s)
  <2>1. PICK i \in Inodes: /\ IF list = NoFile THEN Fresh(i) ELSE i = list
                           /\ list' = i
                           /\ data' = [data EXCEPT ![i] = << >>]
                           /\ fp' = [fp EXCEPT ![s] = i]
    BY <1>3 DEF OpenNew
  <2>2. pc[s] = "create" /\ pc'[s] \in {"add_scan", "del_temp", "tree_scan"}
    BY <1>3 DEF OpenNew, Goto, Opened, TypeInv, TypeOK
  <2>3. list = NoFile /\ i # temp /\ i # NoFile
    BY <2>1, <2>2, NoneAssumption DEF FilesOwned, At, Fresh, Unused
  <2>4. /\ UNCHANGED <<temp, st, dir, dfp, tfp, kept, lines, target>>
        /\ \A t \in Shells \ {s}: pc'[t] = pc[t] /\ Idle(t)
        /\ \A p \in Pids: ~Pending(p)
    BY <1>2, <1>3, <2>2 DEF OpenNew, Goto, inputVars, deleteVars, daemonVars, Idle, TypeInv, TypeOK
  <2>5. OneAtATime'  BY <2>2, <2>4, TurnKept DEF Idle
  <2>6. kept[s] = << >> => kept'[s] = << >>  BY <2>4
  <2>7. \A p \in Pids: st[p] \notin {"registered", "watching"}
    BY <2>2, <2>3, <2>4 DEF LinesSafe, At, Idle, Listed
  <2>8. LinesSafe'  BY <2>4, <2>7 DEF LinesSafe
  <2>9. ScanHolds'  BY <2>2, <2>4 DEF ScanHolds, At, Idle
  <2>10. NoOverlap'  BY <2>4 DEF NoOverlap, Live
  <2>11. FilesOwned'
    BY <2>1, <2>2, <2>3, <2>4 DEF FilesOwned, At, Idle, Pending, TypeInv, TypeOK
  <2> QED  BY <1>1, <2>5, <2>8, <2>9, <2>10, <2>11
<1>4. CASE Open(s)
  <2>1. /\ pc[s] = "open" /\ pc'[s] \in {"add_scan", "del_temp", "tree_scan"}
        /\ fp'[s] = list /\ list # NoFile
        /\ UNCHANGED <<list, temp, data, st, dir, dfp, tfp, kept, lines, target>>
    BY <1>4 DEF Open, Goto, Opened, TypeInv, TypeOK, fileVars, inputVars, deleteVars, daemonVars
  <2>2. /\ \A t \in Shells \ {s}: pc'[t] = pc[t] /\ Idle(t)
        /\ \A p \in Pids: ~Pending(p)
    BY <1>2, <1>4, <2>1 DEF Open, Goto, Idle, TypeInv, TypeOK
  <2>3. OneAtATime'  BY <2>1, <2>2, TurnKept DEF Idle
  <2>4. FilesOwned'  BY <2>1, <2>2 DEF FilesOwned, At, Idle, Pending, TypeInv, TypeOK
  <2>5. LinesSafe'  BY <2>1, <2>2, LinesStay DEF At, Idle, fileVars, daemonVars
  <2>6. ScanHolds'  BY <2>1, <2>2 DEF ScanHolds, At, Idle
  <2>7. NoOverlap'  BY <2>1 DEF NoOverlap, Live
  <2> QED  BY <1>1, <2>3, <2>4, <2>5, <2>6, <2>7
<1>5. CASE AddScan(s)
  <2>1. /\ pc[s] = "add_scan" /\ pc'[s] = "add_fork" /\ path'[s] = path[s]
        /\ UNCHANGED <<list, temp, data, st, dir, dfp, tfp, kept, lines, target, path>>
    BY <1>5 DEF AddScan, Goto, TypeInv, TypeOK, fileVars, inputVars, deleteVars, daemonVars
  <2>2. /\ \A t \in Shells \ {s}: pc'[t] = pc[t] /\ Idle(t)
        /\ \A p \in Pids: ~Pending(p)
    BY <1>2, <1>5, <2>1 DEF AddScan, Goto, Idle, TypeInv, TypeOK
  <2>3. OneAtATime'  BY <2>1, <2>2, TurnKept DEF Idle
  <2>4. FilesOwned'  BY <2>1, <2>2 DEF FilesOwned, At, Idle, Pending, TypeInv, TypeOK
  <2>5. LinesSafe'
    <3>1. \A t \in Shells: ~At(t, {"del_rename", "del_kill"})  BY <2>1, <2>2 DEF At, Idle
    <3>2. \A p \in Pids: st[p] \in {"registered", "watching"} => Line(p) \in Listed
      BY <3>1 DEF LinesSafe
    <3>3. Listed' = Listed /\ \A p \in Pids: Line(p)' = Line(p)
      BY <2>1 DEF Listed, Lines, Line
    <3> QED  BY <2>1, <2>2, <3>2, <3>3 DEF LinesSafe, At, Idle
  <2>6. ScanHolds'
    <3>1. \A p \in Pids: Live(p) => Line(p) \in Lines(fp[s])
      <4>1. fp[s] = list /\ list # NoFile  BY <2>1 DEF FilesOwned, At
      <4>2. \A t \in Shells: ~At(t, {"del_rename", "del_kill"})  BY <2>1, <2>2 DEF At, Idle
      <4>3. \A p \in Pids: Live(p) => st[p] \in {"registered", "watching"}
        BY <2>2 DEF Live, Pending, TypeInv, TypeOK, Phases
      <4> QED  BY <4>1, <4>2, <4>3 DEF LinesSafe, Listed
    <3>2. \A p \in Pids: Live(p) => ~Clash(path[s], dir[p])
      BY <1>5, <3>1 DEF AddScan, Line
    <3> QED  BY <2>1, <2>2, <3>2 DEF ScanHolds, At, Idle, Live, Clash
  <2>7. NoOverlap'  BY <2>1 DEF NoOverlap, Live
  <2> QED  BY <1>1, <2>3, <2>4, <2>5, <2>6, <2>7
<1>6. CASE OpenFails(s) \/ AddRefused(s) \/ AddForkFails(s) \/ TreeScan(s)
  BY <1>6, LeaveOnlyPatient DEF OpenFails, AddRefused, AddForkFails, TreeScan
<1> QED  BY <1>3, <1>4, <1>5, <1>6

(* The fork: the only step that adds a daemon. *)
LEMMA ForkPatient ==
  ASSUME PatientInv, NEW s \in Shells, AddFork(s)
  PROVE  PatientInv'
<1> USE DEF PatientInv
<1>1. TypeInv'  BY OpenTypes
<1>2. PICK p \in Pids: /\ ~Live(p)
                       /\ st' = [st EXCEPT ![p] = "forked"]
                       /\ dir' = [dir EXCEPT ![p] = path[s]]
  BY DEF AddFork
<1>3. pc[s] = "add_fork" /\ Leave(s, "prompt") /\ UNCHANGED <<list, temp, data, dfp>>
  BY DEF AddFork, fileVars
<1>4. /\ \A t \in Shells \ {s}: Idle(t)
      /\ \A q \in Pids: ~Pending(q)
  BY <1>3, Alone DEF Idle
<1>5. \A t \in Shells: Idle(t)'  BY <1>3, <1>4, LeaveTypes DEF Idle
<1>6. /\ st'[p] = "forked" /\ dir'[p] = path[s]
      /\ \A q \in Pids \ {p}: st'[q] = st[q] /\ dir'[q] = dir[q]
  BY <1>2 DEF TypeInv, TypeOK
<1>7. OneAtATime'  BY <1>4, <1>5, <1>6 DEF OneAtATime, Pending
<1>8. FilesOwned'
  <2>1. kept'[s] = << >> /\ \A t \in Shells \ {s}: kept'[t] = kept[t]
    BY <1>3 DEF Leave, TypeInv, TypeOK
  <2> QED  BY <1>3, <1>4, <1>5, <1>6, <2>1 DEF FilesOwned, At, Idle, Pending
<1>9. LinesSafe'
  <2>1. \A t \in Shells: ~At(t, {"del_rename", "del_kill"})  BY <1>3, <1>4 DEF At, Idle
  <2>2. \A q \in Pids: st[q] \in {"registered", "watching"} => Line(q) \in Listed
    BY <2>1 DEF LinesSafe
  <2>3. Listed' = Listed /\ \A q \in Pids \ {p}: Line(q)' = Line(q)
    BY <1>3, <1>6 DEF Listed, Lines, Line
  <2> QED  BY <1>5, <1>6, <2>2, <2>3 DEF LinesSafe, At, Idle
<1>10. ScanHolds'  BY <1>5 DEF ScanHolds, At, Idle
<1>11. NoOverlap'
  <2>1. \A q \in Pids: Live(q) => ~Clash(path[s], dir[q])  BY <1>3 DEF ScanHolds, At
  <2> QED  BY <1>6, <2>1 DEF NoOverlap, Live, Clash
<1> QED  BY <1>1, <1>7, <1>8, <1>9, <1>10, <1>11

-----------------------------------------------------------------------------
(* What a step of a delete inherits: it is alone, and unless it touches    *)
(* daemons it keeps the turns, the scan and the directories apart.         *)
LEMMA DeleteFrame ==
  ASSUME PatientInv, NEW s \in Shells,
         pc[s] \in {"del_temp", "del_read", "del_line", "del_flush", "del_remove", "del_rename"},
         pc'[s] \notin {"add_fork"},
         \A t \in Shells \ {s}: pc'[t] = pc[t],
         UNCHANGED <<st, dir>>
  PROVE  /\ \A t \in Shells \ {s}: Idle(t) /\ Idle(t)'
         /\ \A p \in Pids: ~Pending(p)
         /\ OneAtATime' /\ ScanHolds' /\ NoOverlap'
         /\ target[s] \in Pids
<1>1. ~Idle(s)  BY DEF Idle
<1>2. \A t \in Shells \ {s}: Idle(t) /\ Idle(t)'  BY <1>1, Alone DEF Idle
<1>3. \A p \in Pids: ~Pending(p)  BY <1>1, Alone
<1>4. OneAtATime'  BY <1>1, TurnKept
<1>5. ScanHolds'  BY <1>2 DEF ScanHolds, At, Idle
<1>6. NoOverlap'  BY DEF PatientInv, NoOverlap, Live
<1>7. target[s] \in Pids  BY DEF PatientInv, TypeInv, Shape, At
<1> QED  BY <1>2, <1>3, <1>4, <1>5, <1>6, <1>7

LEMMA DelCopyPatient ==
  ASSUME PatientInv, NEW s \in Shells,
         DelOpenTemp(s) \/ DelRead(s) \/ DelLine(s) \/ DelLinesDone(s)
  PROVE  PatientInv'
<1> USE DEF PatientInv
<1>1. TypeInv'  BY DeleteTypes
<1>2. CASE DelOpenTemp(s)
  <2>1. PICK i \in Inodes: /\ IF temp = NoFile THEN Fresh(i) ELSE i = temp
                           /\ temp' = i
                           /\ data' = [data EXCEPT ![i] = << >>]
                           /\ tfp' = [tfp EXCEPT ![s] = i]
    BY <1>2 DEF DelOpenTemp
  <2>2. /\ pc[s] = "del_temp" /\ pc'[s] = "del_read"
        /\ \A t \in Shells \ {s}: pc'[t] = pc[t]
        /\ UNCHANGED <<list, st, dir, dfp, fp, kept, lines, target>>
    BY <1>2 DEF DelOpenTemp, Goto, inputVars, deleteVars, daemonVars, TypeInv, TypeOK
  <2>3. list # NoFile /\ fp[s] = list /\ list # i /\ i # NoFile
    BY <2>1, <2>2, NoneAssumption DEF FilesOwned, At, Fresh, Unused
  <2>4. FilesOwned'
    BY <2>1, <2>2, <2>3, DeleteFrame DEF FilesOwned, At, Idle, Pending, TypeInv, TypeOK
  <2>5. LinesSafe'
    <3>1. Listed' = Listed /\ \A p \in Pids: Line(p)' = Line(p)
      BY <2>1, <2>2, <2>3 DEF Listed, Lines, Line, TypeInv, TypeOK
    <3> QED  BY <2>2, <3>1, DeleteFrame DEF LinesSafe, At, Idle
  <2> QED  BY <1>1, <2>2, <2>4, <2>5, DeleteFrame
<1>3. CASE DelRead(s)
  <2>1. /\ pc[s] = "del_read" /\ pc'[s] = "del_line"
        /\ \A t \in Shells \ {s}: pc'[t] = pc[t]
        /\ lines'[s] = data[fp[s]]
        /\ UNCHANGED <<list, temp, data, st, dir, dfp, fp, tfp, kept, target>>
    BY <1>3 DEF DelRead, Goto, fileVars, inputVars, streamVars, daemonVars, TypeInv, TypeOK
  <2>2. list # NoFile /\ fp[s] = list  BY <2>1 DEF FilesOwned, At
  <2>3. FilesOwned'
    BY <2>1, <2>2, DeleteFrame DEF FilesOwned, At, Idle, Pending
  <2>4. LinesSafe'
    <3>1. Listed' = Listed /\ \A p \in Pids: Line(p)' = Line(p)
      BY <2>1 DEF Listed, Lines, Line
    <3>2. \A e: e \in Listed => Has(lines'[s], e)
      BY <2>1, <2>2 DEF Listed, Lines, Has
    <3> QED  BY <2>1, <3>1, <3>2, DeleteFrame DEF LinesSafe, At, Idle
  <2> QED  BY <1>1, <2>1, <2>3, <2>4, DeleteFrame
<1>4. CASE DelLine(s)
  <2>1. /\ pc[s] = "del_line" /\ pc' = pc /\ lines[s] # << >>
        /\ lines[s] \in Seq(Entry) /\ kept[s] \in Seq(Entry)
        /\ lines'[s] = Tail(lines[s])
        /\ kept'[s] = IF Head(lines[s]).pid = target[s] THEN kept[s]
                      ELSE Append(kept[s], Head(lines[s]))
        /\ \A t \in Shells \ {s}: kept'[t] = kept[t]
        /\ UNCHANGED <<list, temp, data, st, dir, dfp, fp, tfp, target>>
    BY <1>4 DEF DelLine, fileVars, inputVars, streamVars, daemonVars, TypeInv, TypeOK
  <2>2. FilesOwned'  BY <2>1, DeleteFrame DEF FilesOwned, At, Idle, Pending
  <2>3. ASSUME NEW p \in Pids, st[p] \in {"registered", "watching"}, p # target[s]
        PROVE  Has(lines'[s], Line(p)) \/ Has(kept'[s], Line(p))
    <3>1. Head(lines[s]) \in Entry  BY <2>1, HeadTailProperties
    <3>2. Has(kept[s], Line(p)) => Has(kept'[s], Line(p))
      BY <2>1, <3>1, AppendKeeps DEF Has
    <3>3. Line(p) = Head(lines[s]) => Has(kept'[s], Line(p))
      BY <2>1, <2>3, <3>1, AppendKeeps DEF Has, Line
    <3>4. Has(lines[s], Line(p)) /\ Line(p) # Head(lines[s]) => Has(lines'[s], Line(p))
      BY <2>1, TailKeeps
    <3>5. Has(lines[s], Line(p)) \/ Has(kept[s], Line(p))
      BY <2>1, <2>3 DEF LinesSafe, At
    <3> QED  BY <3>2, <3>3, <3>4, <3>5
  <2>4. LinesSafe'
    <3>1. Listed' = Listed /\ \A p \in Pids: Line(p)' = Line(p)
      BY <2>1 DEF Listed, Lines, Line
    <3> QED  BY <2>1, <2>3, <3>1, DeleteFrame DEF LinesSafe, At, Idle
  <2> QED  BY <1>1, <2>1, <2>2, <2>4, DeleteFrame
<1>5. CASE DelLinesDone(s)
  <2>1. /\ pc[s] = "del_line" /\ pc'[s] = "del_flush" /\ lines[s] = << >>
        /\ \A t \in Shells \ {s}: pc'[t] = pc[t]
        /\ UNCHANGED <<list, temp, data, st, dir, dfp, fp, tfp, kept, target, lines>>
    BY <1>5 DEF DelLinesDone, Goto, fileVars, inputVars, streamVars, deleteVars, daemonVars,
                TypeInv, TypeOK
  <2>2. FilesOwned'  BY <2>1, DeleteFrame DEF FilesOwned, At, Idle, Pending
  <2>3. \A e: ~Has(lines[s], e)  BY <2>1, EmptySeq DEF Has
  <2>4. LinesSafe'
    <3>1. Listed' = Listed /\ \A p \in Pids: Line(p)' = Line(p)
      BY <2>1 DEF Listed, Lines, Line
    <3> QED  BY <2>1, <2>3, <3>1, DeleteFrame DEF LinesSafe, At, Idle
  <2> QED  BY <1>1, <2>1, <2>2, <2>4, DeleteFrame
<1> QED  BY <1>2, <1>3, <1>4, <1>5

LEMMA DelReplacePatient ==
  ASSUME PatientInv, NEW s \in Shells,
         DelFlush(s) \/ DelUnknown(s) \/ DelRemove(s) \/ DelRename(s)
  PROVE  PatientInv'
<1> USE DEF PatientInv
<1>1. TypeInv'  BY DeleteTypes
<1>2. ASSUME pc[s] = "del_flush", Flushed(s)
      PROVE  /\ temp # NoFile /\ temp # list /\ list # NoFile
             /\ data'[temp] = kept[s]
             /\ \A i \in Inodes \ {temp}: data'[i] = data[i]
  <2>1. /\ tfp[s] = temp /\ data[temp] = << >> /\ list # NoFile
        /\ tfp[s] \in Inodes /\ kept[s] \in Seq(Entry)
    BY <1>2 DEF FilesOwned, TypeInv, TypeOK, Shape, At
  <2>2. Overlay(kept[s], data[temp]) = kept[s]  BY <2>1, OverlayEmpty
  <2> QED  BY <1>2, <2>1, <2>2, NoneAssumption DEF Flushed, FilesOwned, TypeInv, TypeOK
<1>3. CASE DelFlush(s)
  <2>1. /\ pc[s] = "del_flush" /\ pc'[s] = "del_remove"
        /\ \A t \in Shells \ {s}: pc'[t] = pc[t] /\ kept'[t] = kept[t]
        /\ Flushed(s)
        /\ UNCHANGED <<list, temp, st, dir, dfp, target>>
    BY <1>3 DEF DelFlush, Goto, inputVars, daemonVars, TypeInv, TypeOK
  <2>2. FilesOwned'
    BY <1>2, <2>1, DeleteFrame DEF FilesOwned, At, Idle, Pending
  <2>3. LinesSafe'
    <3>1. Listed' = Listed /\ \A p \in Pids: Line(p)' = Line(p)
      BY <1>2, <2>1 DEF Listed, Lines, Line, TypeInv, TypeOK
    <3>2. \A e: Has(kept[s], e) => (e \in Lines(temp)')
      BY <1>2, <2>1 DEF Has, Lines
    <3> QED  BY <2>1, <3>1, <3>2, DeleteFrame DEF LinesSafe, At, Idle
  <2> QED  BY <1>1, <2>1, <2>2, <2>3, DeleteFrame
<1>4. CASE DelUnknown(s)
  <2>1. /\ pc[s] = "del_flush" /\ pc'[s] = "prompt" /\ kept'[s] = << >>
        /\ \A t \in Shells \ {s}: pc'[t] = pc[t] /\ kept'[t] = kept[t]
        /\ Flushed(s)
        /\ UNCHANGED <<list, temp, st, dir, dfp>>
    BY <1>4 DEF DelUnknown, Leave, daemonVars, TypeInv, TypeOK
  <2>2. FilesOwned'
    BY <1>2, <2>1, DeleteFrame DEF FilesOwned, At, Idle, Pending
  <2>3. LinesSafe'
    <3>1. Listed' = Listed /\ \A p \in Pids: Line(p)' = Line(p)
      BY <1>2, <2>1 DEF Listed, Lines, Line, TypeInv, TypeOK
    <3> QED  BY <2>1, <3>1, DeleteFrame DEF LinesSafe, At, Idle
  <2> QED  BY <1>1, <2>1, <2>2, <2>3, DeleteFrame
<1>5. CASE DelRemove(s)
  <2>1. /\ pc[s] = "del_remove" /\ pc'[s] = "del_rename" /\ list' = NoFile
        /\ \A t \in Shells \ {s}: pc'[t] = pc[t]
        /\ UNCHANGED <<temp, data, st, dir, dfp, fp, tfp, kept, target>>
    BY <1>5 DEF DelRemove, Goto, inputVars, streamVars, deleteVars, daemonVars, TypeInv, TypeOK
  <2>2. FilesOwned'  BY <2>1, DeleteFrame DEF FilesOwned, At, Idle, Pending
  <2>3. LinesSafe'
    <3>1. Lines(temp)' = Lines(temp) /\ \A p \in Pids: Line(p)' = Line(p)
      BY <2>1 DEF Lines, Line
    <3> QED  BY <2>1, <3>1, DeleteFrame DEF LinesSafe, At, Idle
  <2> QED  BY <1>1, <2>1, <2>2, <2>3, DeleteFrame
<1>6. CASE DelRename(s)
  <2>1. /\ pc[s] = "del_rename" /\ pc'[s] = "del_kill"
        /\ temp # NoFile /\ list' = temp /\ temp' = NoFile
        /\ \A t \in Shells \ {s}: pc'[t] = pc[t]
        /\ UNCHANGED <<data, st, dir, dfp, fp, tfp, kept, target>>
    BY <1>6 DEF DelRename, Goto, inputVars, streamVars, deleteVars, daemonVars,
                TypeInv, TypeOK, FilesOwned, At
  <2>2. FilesOwned'  BY <2>1, DeleteFrame DEF FilesOwned, At, Idle, Pending
  <2>3. LinesSafe'
    <3>1. Listed' = Lines(temp) /\ \A p \in Pids: Line(p)' = Line(p)
      BY <2>1 DEF Listed, Lines, Line
    <3> QED  BY <2>1, <3>1, DeleteFrame DEF LinesSafe, At, Idle
  <2> QED  BY <1>1, <2>1, <2>2, <2>3, DeleteFrame
<1> QED  BY <1>3, <1>4, <1>5, <1>6

(* The kill: the one step of a command that ends a daemon. *)
LEMMA DelKillPatient ==
  ASSUME PatientInv, NEW s \in Shells, DelKill(s)
  PROVE  PatientInv'
<1> USE DEF PatientInv
<1>1. TypeInv'  BY DeleteTypes
<1>2. /\ pc[s] = "del_kill" /\ target[s] \in Pids
      /\ Leave(s, "prompt") /\ Die(target[s]) /\ UNCHANGED <<list, temp, data>>
  BY DEF DelKill, fileVars, TypeInv, Shape, At
<1>3. /\ \A t \in Shells \ {s}: Idle(t)
      /\ \A p \in Pids: ~Pending(p)
  BY <1>2, Alone DEF Idle
<1>4. \A t \in Shells: Idle(t)'  BY <1>2, <1>3, LeaveTypes DEF Idle
<1>5. /\ st'[target[s]] = "none"
      /\ \A p \in Pids \ {target[s]}: st'[p] = st[p] /\ dir'[p] = dir[p]
  BY <1>2 DEF Die, TypeInv, TypeOK
<1>6. OneAtATime'  BY <1>3, <1>4, <1>5 DEF OneAtATime, Pending
<1>7. FilesOwned'
  <2>1. kept'[s] = << >> /\ \A t \in Shells \ {s}: kept'[t] = kept[t]
    BY <1>2 DEF Leave, TypeInv, TypeOK
  <2> QED  BY <1>2, <1>3, <1>4, <1>5, <2>1 DEF FilesOwned, At, Idle, Pending
<1>8. LinesSafe'
  <2>1. Listed' = Listed /\ \A p \in Pids \ {target[s]}: Line(p)' = Line(p)
    BY <1>2, <1>5 DEF Listed, Lines, Line
  <2> QED  BY <1>2, <1>4, <1>5, <2>1 DEF LinesSafe, At, Idle
<1>9. ScanHolds'  BY <1>4 DEF ScanHolds, At, Idle
<1>10. NoOverlap'  BY <1>5 DEF NoOverlap, Live
<1> QED  BY <1>1, <1>6, <1>7, <1>8, <1>9, <1>10

LEMMA DaemonPatient ==
  ASSUME PatientInv, NEW p \in Pids, DaemonStart(p) \/ DaemonFails(p)
  PROVE  PatientInv'
<1> USE DEF PatientInv, inputVars, streamVars, deleteVars
<1>1. TypeInv'  BY DaemonTypes
<1>2. CASE DaemonOpenList(p)
  <2>1. PICK i \in Inodes: /\ IF list = NoFile THEN Fresh(i) ELSE i = list
                           /\ list' = i
                           /\ data' = IF list = NoFile THEN [data EXCEPT ![i] = << >>] ELSE data
                           /\ dfp' = [dfp EXCEPT ![p] = i]
    BY <1>2 DEF DaemonOpenList
  <2>2. /\ st[p] = "forked" /\ st' = [st EXCEPT ![p] = "opened"]
        /\ UNCHANGED <<temp, pc, path, target, fp, tfp, lines, kept, dir>>
    BY <1>2 DEF DaemonOpenList
  <2>3. /\ \A s \in Shells: Idle(s)
        /\ \A q \in Pids \ {p}: ~Pending(q)
    BY <2>2 DEF OneAtATime, Pending
  <2>4. i # NoFile /\ i # temp
    BY <2>1, NoneAssumption DEF FilesOwned, Fresh, Unused
  <2>5. /\ st'[p] = "opened" /\ dfp'[p] = i
        /\ \A q \in Pids \ {p}: st'[q] = st[q] /\ dfp'[q] = dfp[q]
    BY <2>1, <2>2 DEF TypeInv, TypeOK
  <2>6. OneAtATime'  BY <2>2, <2>3, <2>5 DEF OneAtATime, Pending, Idle
  <2>7. FilesOwned'  BY <2>1, <2>2, <2>3, <2>4, <2>5 DEF FilesOwned, At, Idle, Pending
  <2>8. LinesSafe'
    <3>1. \A q \in Pids: st[q] \in {"registered", "watching"} => Line(q) \in Listed
      BY <2>3 DEF LinesSafe, At, Idle
    <3>2. list = NoFile \/ Listed' = Listed
      BY <2>1, <2>4 DEF Listed, Lines
    <3>3. list = NoFile => \A q \in Pids: st[q] \notin {"registered", "watching"}
      BY <3>1 DEF Listed
    <3>4. \A q \in Pids: Line(q)' = Line(q)  BY <2>2 DEF Line
    <3> QED  BY <2>2, <2>3, <2>5, <3>1, <3>2, <3>3, <3>4 DEF LinesSafe, At, Idle
  <2>9. ScanHolds'  BY <2>2, <2>3 DEF ScanHolds, At, Idle
  <2>10. NoOverlap'  BY <2>2, <2>5 DEF NoOverlap, Live
  <2> QED  BY <1>1, <2>6, <2>7, <2>8, <2>9, <2>10
<1>3. CASE DaemonAppend(p)
  <2>1. /\ st[p] = "opened" /\ st' = [st EXCEPT ![p] = "registered"]
        /\ data' = [data EXCEPT ![dfp[p]] = Append(data[dfp[p]], Line(p))]
        /\ dfp' = [dfp EXCEPT ![p] = NoFile]
        /\ UNCHANGED <<list, temp, pc, path, target, fp, tfp, lines, kept, dir>>
    BY <1>3 DEF DaemonAppend, Line
  <2>2. /\ \A s \in Shells: Idle(s)
        /\ \A q \in Pids \ {p}: ~Pending(q)
    BY <2>1 DEF OneAtATime, Pending
  <2>3. dfp[p] = list /\ list \in Inodes /\ data[list] \in Seq(Entry) /\ Line(p) \in Entry
    BY <2>1 DEF FilesOwned, TypeInv, TypeOK, Shape, Line, Entry, Live
  <2>4. /\ st'[p] = "registered"
        /\ \A q \in Pids \ {p}: st'[q] = st[q] /\ dfp'[q] = dfp[q]
    BY <2>1 DEF TypeInv, TypeOK
  <2>5. OneAtATime'  BY <2>1, <2>2, <2>4 DEF OneAtATime, Pending, Idle
  <2>6. FilesOwned'  BY <2>1, <2>2, <2>4 DEF FilesOwned, At, Idle, Pending
  <2>7. LinesSafe'
    <3>1. \A q \in Pids: st[q] \in {"registered", "watching"} => Line(q) \in Listed
      BY <2>2 DEF LinesSafe, At, Idle
    <3>2. data'[list] = Append(data[list], Line(p))
      BY <2>1, <2>3 DEF TypeInv, TypeOK
    <3>3. list # NoFile  BY <2>3, NoneAssumption
    <3>4. Listed \subseteq Listed' /\ (Line(p) \in Listed')
      BY <2>1, <2>3, <3>2, <3>3, AppendKeeps DEF Listed, Lines
    <3>5. \A q \in Pids: Line(q)' = Line(q)  BY <2>1 DEF Line
    <3> QED  BY <2>1, <2>2, <2>4, <3>1, <3>4, <3>5 DEF LinesSafe, At, Idle
  <2>8. ScanHolds'  BY <2>1, <2>2 DEF ScanHolds, At, Idle
  <2>9. NoOverlap'  BY <2>1, <2>4 DEF NoOverlap, Live
  <2> QED  BY <1>1, <2>5, <2>6, <2>7, <2>8, <2>9
<1>4. CASE DaemonOpenLog(p)
  <2>1. /\ st[p] = "registered" /\ st' = [st EXCEPT ![p] = "watching"]
        /\ UNCHANGED <<list, temp, data, pc, path, target, fp, tfp, lines, kept, dir, dfp>>
    BY <1>4 DEF DaemonOpenLog, fileVars
  <2>2. st'[p] = "watching" /\ \A q \in Pids \ {p}: st'[q] = st[q]
    BY <2>1 DEF TypeInv, TypeOK
  <2>3. OneAtATime'  BY <2>1, <2>2 DEF OneAtATime, Pending, Idle
  <2>4. FilesOwned'  BY <2>1, <2>2 DEF FilesOwned, At
  <2>5. LinesSafe'
    <3>1. /\ Listed' = Listed /\ Lines(temp)' = Lines(temp)
          /\ \A q \in Pids: Line(q)' = Line(q)
      BY <2>1 DEF Listed, Lines, Line
    <3> QED  BY <2>1, <2>2, <3>1 DEF LinesSafe, At
  <2>6. ScanHolds'  BY <2>1, <2>2 DEF ScanHolds, At, Live, Clash
  <2>7. NoOverlap'  BY <2>1, <2>2 DEF NoOverlap, Live
  <2> QED  BY <1>1, <2>3, <2>4, <2>5, <2>6, <2>7
<1>5. CASE DaemonFails(p)
  <2>1. /\ Die(p) /\ UNCHANGED <<list, temp, data, pc, path, target, fp, tfp, lines, kept>>
    BY <1>5 DEF DaemonFails, fileVars
  <2>2. /\ st'[p] = "none" /\ \A q \in Pids \ {p}:
             st'[q] = st[q] /\ dir'[q] = dir[q] /\ dfp'[q] = dfp[q]
    BY <2>1 DEF Die, TypeInv, TypeOK
  <2>3. OneAtATime'  BY <2>1, <2>2 DEF OneAtATime, Pending, Idle
  <2>4. FilesOwned'  BY <2>1, <2>2 DEF FilesOwned, At
  <2>5. LinesSafe'
    <3>1. /\ Listed' = Listed /\ Lines(temp)' = Lines(temp)
          /\ \A q \in Pids \ {p}: Line(q)' = Line(q)
      BY <2>1, <2>2 DEF Listed, Lines, Line
    <3> QED  BY <2>1, <2>2, <3>1 DEF LinesSafe, At
  <2>6. ScanHolds'  BY <2>1, <2>2 DEF ScanHolds, At, Live, Clash
  <2>7. NoOverlap'  BY <2>1, <2>2 DEF NoOverlap, Live
  <2> QED  BY <1>1, <2>3, <2>4, <2>5, <2>6, <2>7
<1> QED  BY <1>2, <1>3, <1>4, <1>5 DEF DaemonStart

-----------------------------------------------------------------------------
(* Every step of the system keeps the invariant. *)
LEMMA StepPatient ==
  ASSUME PatientMode, PatientInv, [Next]_vars
  PROVE  PatientInv'
<1>1. ASSUME NEW s \in Shells, CommandStep(s) PROVE PatientInv'
  BY <1>1, OpenPatient, ForkPatient, DelCopyPatient, DelReplacePatient, DelKillPatient
     DEF CommandStep
<1>2. CASE UNCHANGED vars
  <2> USE <1>2 DEF vars, fileVars, inputVars, streamVars, deleteVars, daemonVars, PatientInv
  <2>1. TypeInv'  BY DEF TypeInv, TypeOK, Shape, At, Live
  <2>2. OneAtATime'  BY DEF OneAtATime, Idle, Pending
  <2>3. FilesOwned'  BY DEF FilesOwned, At
  <2>4. LinesSafe'  BY LinesStay DEF At
  <2>5. ScanHolds' /\ NoOverlap'  BY DEF ScanHolds, NoOverlap, At, Live, Clash
  <2> QED  BY <2>1, <2>2, <2>3, <2>4, <2>5
<1> QED  BY <1>1, <1>2, UserPatient, DaemonPatient DEF Next

(* The invariant holds of the patient system. *)
THEOREM PatientCorrect ==
  ASSUME PatientMode
  PROVE  Spec => []PatientInv
<1>1. PatientInv /\ [Next]_vars => PatientInv'  BY StepPatient
<1> QED  BY <1>1, InitPatient, PTL DEF Spec

(* Lines 117-124: no two daemons watch the same directory or nested ones.  *)
THEOREM NoOverlapCorrect ==
  ASSUME PatientMode
  PROVE  Spec => []NoOverlap
<1>1. PatientInv => NoOverlap  BY DEF PatientInv
<1> QED  BY <1>1, PatientCorrect, PTL

(* Between commands every running daemon has its line in the list, so that *)
(* delete can find it: no rewrite of the list loses one.                   *)
THEOREM AllListedCorrect ==
  ASSUME PatientMode
  PROVE  Spec => []AllListed
<1>1. PatientInv => AllListed
  <2> SUFFICES ASSUME PatientInv, Quiet, NEW w \in Registered PROVE w \in Listed
    BY DEF AllListed
  <2>1. PICK p \in Pids: Live(p) /\ w = Line(p)  BY DEF Registered, Watching, Line
  <2>2. ~Pending(p)  BY DEF Quiet
  <2>3. st[p] \in {"registered", "watching"}
    BY <2>1, <2>2 DEF Live, Pending, PatientInv, TypeInv, TypeOK, Phases
  <2>4. \A s \in Shells: ~At(s, {"del_rename", "del_kill"})  BY Zenon DEF Quiet, Idle, At
  <2> QED  BY <2>1, <2>3, <2>4 DEF PatientInv, LinesSafe
<1> QED  BY <1>1, PatientCorrect, PTL

-----------------------------------------------------------------------------
(* The registry's view of a step. *)

LEMMA WatchingStays ==
  ASSUME \A p \in Pids: Live(p)' = Live(p), dir' = dir
  PROVE  Watching' = Watching
  BY DEF Watching, Live

LEMMA DieStops ==
  ASSUME TypeOK, NEW p \in Pids, Die(p)
  PROVE  [WR!Next]_Watching
<1>1. /\ st'[p] = "none" /\ dir'[p] = NoPath
      /\ \A q \in Pids \ {p}: st'[q] = st[q] /\ dir'[q] = dir[q]
  BY DEF Die, TypeOK
<1>2. Watching' = {w \in Watching: w.pid # p}
  BY <1>1 DEF Watching, Live
<1>3. CASE Live(p)
  <2>1. [dir |-> dir[p], pid |-> p] \in Watching  BY <1>3 DEF Watching
  <2>2. \E w \in Watching: w.pid = p  BY <2>1
  <2> QED  BY <1>2, <2>2 DEF WR!Next, WR!Stop
<1>4. CASE ~Live(p)
  <2>1. \A w \in Watching: w.pid # p  BY <1>4 DEF Watching
  <2> QED  BY <1>2, <2>1
<1> QED  BY <1>3, <1>4

LEMMA ForkStarts ==
  ASSUME PatientInv, NEW s \in Shells, AddFork(s)
  PROVE  WR!Next
<1>1. PICK p \in Pids: /\ ~Live(p)
                       /\ st' = [st EXCEPT ![p] = "forked"]
                       /\ dir' = [dir EXCEPT ![p] = path[s]]
  BY DEF AddFork
<1>2. path[s] \in Paths /\ \A q \in Pids: Live(q) => ~Clash(path[s], dir[q])
  BY DEF AddFork, PatientInv, TypeInv, Shape, ScanHolds, At
<1>3. /\ st'[p] = "forked" /\ dir'[p] = path[s]
      /\ \A q \in Pids \ {p}: st'[q] = st[q] /\ dir'[q] = dir[q]
  BY <1>1 DEF PatientInv, TypeInv, TypeOK
<1>4. Watching' = Watching \cup {[dir |-> path[s], pid |-> p]}
  BY <1>1, <1>3 DEF Watching, Live
<1>5. \A w \in Watching: w.pid # p /\ ~WR!Clash(path[s], w.dir)
  BY <1>1, <1>2 DEF Watching, Clash, WR!Clash
<1> QED  BY <1>2, <1>4, <1>5 DEF WR!Next, WR!Start

LEMMA StepRegistry ==
  ASSUME PatientMode, PatientInv, [Next]_vars
  PROVE  [WR!Next]_Watching
<1>1. TypeOK /\ Shape  BY DEF PatientInv, TypeInv
<1>2. ASSUME NEW s \in Shells, CommandStep(s) PROVE [WR!Next]_Watching
  <2>1. CASE AddFork(s)  BY <2>1, ForkStarts
  <2>2. CASE DelKill(s)  BY <1>1, <2>2, DieStops DEF DelKill, Shape, At
  <2>3. CASE UNCHANGED <<st, dir>>  BY <2>3, WatchingStays DEF Live
  <2> QED
    BY <1>2, <2>1, <2>2, <2>3
    DEF CommandStep, daemonVars, OpenNew, Open, OpenFails, AddScan, AddRefused, AddForkFails,
        TreeScan, DelOpenTemp, DelRead, DelLine, DelLinesDone, DelFlush, DelUnknown,
        DelRemove, DelRename
<1>3. ASSUME NEW s \in Shells, UserStep(s) PROVE [WR!Next]_Watching
  <2>1. UNCHANGED <<st, dir>>
    BY <1>3 DEF UserStep, AddCommand, TreeCommand, DeleteCommand, Access, ExitCommand,
                ShellStart, ShellKilled, daemonVars
  <2> QED  BY <2>1, WatchingStays DEF Live
<1>4. ASSUME NEW p \in Pids, DaemonStart(p) PROVE [WR!Next]_Watching
  <2>1. dir' = dir /\ \A q \in Pids: Live(q)' = Live(q)
    BY <1>1, <1>4 DEF DaemonStart, DaemonOpenList, DaemonAppend, DaemonOpenLog, Live, TypeOK
  <2> QED  BY <2>1, WatchingStays
<1>5. ASSUME NEW p \in Pids, DaemonFails(p) PROVE [WR!Next]_Watching
  BY <1>1, <1>5, DieStops DEF DaemonFails
<1>6. CASE UNCHANGED vars
  BY <1>6, WatchingStays DEF vars, daemonVars, Live
<1> QED  BY <1>2, <1>3, <1>4, <1>5, <1>6 DEF Next

(* The prompts, the daemons and their files implement the registry: an add *)
(* that forks is a Start of a directory that clashes with none, and only   *)
(* the end of a daemon is a Stop.                                          *)
THEOREM RegistryImplemented ==
  ASSUME PatientMode
  PROVE  Spec => ImplementsRegistry
<1>1. Init => WR!Init  BY DEF Init, WR!Init, Watching, Live
<1>2. PatientInv /\ [Next]_vars => [WR!Next]_Watching  BY StepRegistry
<1> QED  BY <1>1, <1>2, PatientCorrect, PTL DEF Spec, ImplementsRegistry, WR!Spec
-----------------------------------------------------------------------------
(* The copy a delete makes of the list. *)

LEMMA InitCopy == Init => CopyComplete
  BY DEF Init, CopyComplete, Listed

(* Steps that end no copying step and leave files and buffers alone.       *)
LEMMA CopyStays ==
  ASSUME CopyComplete, UNCHANGED fileVars,
         \A t \in Shells: At(t, {"del_line", "del_flush", "del_remove"})' =>
           /\ pc'[t] = pc[t] /\ target'[t] = target[t]
           /\ lines'[t] = lines[t] /\ kept'[t] = kept[t]
  PROVE  CopyComplete'
<1>1. Listed' = Listed /\ Lines(temp)' = Lines(temp)  BY DEF fileVars, Listed, Lines
<1> QED  BY <1>1 DEF CopyComplete, At

(* Steps after which nobody copies. *)
LEMMA NoCopy ==
  ASSUME \A t \in Shells: pc'[t] \notin {"del_line", "del_flush", "del_remove"}
  PROVE  CopyComplete'
  BY DEF CopyComplete, At

LEMMA UserCopy ==
  ASSUME PatientInv, CopyComplete, NEW s \in Shells, UserStep(s)
  PROVE  CopyComplete'
<1> USE DEF PatientInv, TypeInv, TypeOK
<1>1. ASSUME NEW c \in {"add", "delete", "tree"}, Access(s, c),
             \A t \in Shells \ {s}: target'[t] = target[t]
      PROVE  CopyComplete'
  <2>1. /\ pc'[s] \in {"create", "open"} /\ UNCHANGED <<fileVars, lines, kept>>
        /\ \A t \in Shells \ {s}: pc'[t] = pc[t]
    BY <1>1 DEF Access, Goto, deleteVars
  <2> QED  BY <1>1, <2>1, CopyStays DEF At
<1>2. CASE ExitCommand(s) \/ ShellStart(s) \/ ShellKilled(s)
  <2>1. /\ pc'[s] \in {"prompt", "exited"} /\ UNCHANGED fileVars
        /\ \A t \in Shells \ {s}: /\ pc'[t] = pc[t] /\ target'[t] = target[t]
                                  /\ lines'[t] = lines[t] /\ kept'[t] = kept[t]
    BY <1>2 DEF ExitCommand, ShellStart, ShellKilled, Leave, Goto, inputVars, deleteVars
  <2> QED  BY <2>1, CopyStays DEF At
<1>3. CASE \E d \in Paths: AddCommand(s, d) \/ TreeCommand(s, d)
  BY <1>1, <1>3 DEF AddCommand, TreeCommand
<1>4. CASE \E p \in Pids: DeleteCommand(s, p)
  BY <1>1, <1>4 DEF DeleteCommand
<1> QED  BY <1>2, <1>3, <1>4 DEF UserStep

(* The steps that copy. *)
LEMMA CopyingCopy ==
  ASSUME PatientInv, PatientInv', CopyComplete, NEW s \in Shells,
         DelRead(s) \/ DelLine(s) \/ DelLinesDone(s) \/ DelFlush(s)
  PROVE  CopyComplete'
<1> USE DEF PatientInv, TypeInv, TypeOK
<1>1. /\ ~Idle(s) /\ UNCHANGED <<list, temp, target>>
      /\ \A t \in Shells \ {s}: pc'[t] = pc[t]
  BY DEF DelRead, DelLine, DelLinesDone, DelFlush, Idle, Goto, fileVars, inputVars
<1>2. \A t \in Shells \ {s}: pc'[t] \in {"prompt", "exited"}
  BY <1>1, Alone DEF Idle
<1>3. CASE DelRead(s)
  <2>1. pc'[s] = "del_line" /\ lines'[s] = data[list] /\ list # NoFile /\ UNCHANGED data
    BY <1>3 DEF DelRead, Goto, fileVars, FilesOwned, At
  <2>2. \A e \in Listed: Has(lines'[s], e)  BY <2>1 DEF Listed, Lines, Has
  <2>3. Listed' = Listed  BY <1>1, <2>1 DEF Listed, Lines
  <2> QED  BY <1>2, <2>1, <2>2, <2>3 DEF CopyComplete, At
<1>4. CASE DelLine(s)
  <2>1. /\ pc[s] = "del_line" /\ pc' = pc /\ UNCHANGED data
        /\ lines[s] # << >> /\ lines[s] \in Seq(Entry) /\ kept[s] \in Seq(Entry)
        /\ lines'[s] = Tail(lines[s])
        /\ kept'[s] = IF Head(lines[s]).pid = target[s] THEN kept[s]
                      ELSE Append(kept[s], Head(lines[s]))
    BY <1>4 DEF DelLine, fileVars
  <2>2. Listed' = Listed  BY <1>1, <2>1 DEF Listed, Lines
  <2>3. ASSUME NEW e \in Listed, e.pid # target[s]
        PROVE  Has(lines'[s], e) \/ Has(kept'[s], e)
    <3>1. Head(lines[s]) \in Entry  BY <2>1, HeadTailProperties
    <3>2. Has(kept[s], e) => Has(kept'[s], e)
      BY <2>1, <3>1, AppendKeeps DEF Has
    <3>3. ASSUME e = Head(lines[s]) PROVE Has(kept'[s], e)
      <4>1. kept'[s] = Append(kept[s], e) /\ e \in Entry  BY <2>1, <2>3, <3>1, <3>3
      <4>2. \E k \in DOMAIN Append(kept[s], e): Append(kept[s], e)[k] = e
        BY <2>1, <4>1, AppendKeeps
      <4> QED  BY <4>1, <4>2 DEF Has
    <3>4. Has(lines[s], e) /\ e # Head(lines[s]) => Has(lines'[s], e)
      BY <2>1, TailKeeps
    <3>5. Has(lines[s], e) \/ Has(kept[s], e)
      BY <2>1, <2>3 DEF CopyComplete, At
    <3> QED  BY <3>2, <3>3, <3>4, <3>5
  <2>4. pc'[s] = "del_line" /\ target'[s] = target[s]  BY <1>1, <2>1
  <2> HIDE DEF PatientInv, TypeInv, TypeOK
  <2> QED  BY <1>2, <2>2, <2>3, <2>4 DEF CopyComplete, At
<1>5. CASE DelLinesDone(s)
  <2>1. /\ pc[s] = "del_line" /\ pc'[s] = "del_flush" /\ lines[s] = << >>
        /\ UNCHANGED <<data, kept>>
    BY <1>5 DEF DelLinesDone, Goto, fileVars, deleteVars
  <2>2. Listed' = Listed /\ \A e: ~Has(lines[s], e)
    BY <1>1, <2>1, EmptySeq DEF Listed, Lines, Has
  <2> QED  BY <1>1, <1>2, <2>1, <2>2 DEF CopyComplete, At
<1>6. CASE DelFlush(s)
  <2>1. pc[s] = "del_flush" /\ pc'[s] = "del_remove" /\ Flushed(s)
    BY <1>6 DEF DelFlush, Goto
  <2>2. /\ tfp[s] = temp /\ data[temp] = << >> /\ tfp[s] \in Inodes /\ kept[s] \in Seq(Entry)
        /\ list # NoFile /\ list # temp /\ list \in Inodes
    BY <2>1 DEF FilesOwned, Shape, At
  <2>3. data'[temp] = kept[s] /\ data'[list] = data[list]
    <3>1. Overlay(kept[s], data[temp]) = kept[s]  BY <2>2, OverlayEmpty
    <3> QED  BY <2>1, <2>2, <3>1 DEF Flushed
  <2>4. Listed' = Listed /\ \A e: Has(kept[s], e) => (e \in Lines(temp)')
    BY <1>1, <2>2, <2>3 DEF Listed, Lines, Has
  <2> QED  BY <1>1, <1>2, <2>1, <2>4 DEF CopyComplete, At
<1> QED  BY <1>3, <1>4, <1>5, <1>6

LEMMA CommandCopy ==
  ASSUME PatientInv, PatientInv', CopyComplete, NEW s \in Shells, CommandStep(s)
  PROVE  CopyComplete'
<1> USE DEF PatientInv, TypeInv, TypeOK
<1>1. CASE DelRead(s) \/ DelLine(s) \/ DelLinesDone(s) \/ DelFlush(s)
  BY <1>1, CopyingCopy
<1>2. ASSUME ~Idle(s), \A t \in Shells \ {s}: pc'[t] = pc[t],
             pc'[s] \notin {"del_line", "del_flush", "del_remove"}
      PROVE  CopyComplete'
  <2>1. \A t \in Shells \ {s}: pc'[t] \in {"prompt", "exited"}
    BY <1>2, Alone DEF Idle
  <2> QED  BY <1>2, <2>1, NoCopy
<1>3. CASE OpenNew(s) \/ Open(s)
  <2>1. Opened(s) \in {"add_scan", "del_temp", "tree_scan"}  BY DEF Opened
  <2> QED  BY <1>2, <1>3, <2>1 DEF OpenNew, Open, Goto, Idle
<1>4. CASE AddScan(s) \/ DelOpenTemp(s) \/ DelRemove(s) \/ DelRename(s)
  BY <1>2, <1>4 DEF AddScan, DelOpenTemp, DelRemove, DelRename, Goto, Idle
<1>5. CASE OpenFails(s) \/ AddRefused(s) \/ AddFork(s) \/ AddForkFails(s) \/ TreeScan(s)
             \/ DelUnknown(s) \/ DelKill(s)
  BY <1>2, <1>5 DEF OpenFails, AddRefused, AddFork, AddForkFails, TreeScan, DelUnknown,
                    DelKill, Leave, Idle
<1> QED  BY <1>1, <1>3, <1>4, <1>5 DEF CommandStep

LEMMA DaemonCopy ==
  ASSUME PatientInv, CopyComplete, NEW p \in Pids, DaemonStart(p) \/ DaemonFails(p)
  PROVE  CopyComplete'
<1>1. CASE DaemonOpenList(p) \/ DaemonAppend(p)
  <2>1. Pending(p) /\ pc' = pc  BY <1>1 DEF DaemonOpenList, DaemonAppend, Pending
  <2>2. \A s \in Shells: Idle(s)  BY <2>1 DEF PatientInv, OneAtATime
  <2> QED  BY <2>1, <2>2, NoCopy DEF Idle
<1>2. CASE DaemonOpenLog(p) \/ DaemonFails(p)
  BY <1>2, CopyStays DEF DaemonOpenLog, DaemonFails, inputVars, deleteVars
<1> QED  BY <1>1, <1>2 DEF DaemonStart

(* A shell that is about to remove the old list has every other line in    *)
(* temp.txt: if it dies before rename, nothing of the list is lost.        *)
THEOREM NothingLostAtRemoveCorrect ==
  ASSUME PatientMode
  PROVE  Spec => NothingLostAtRemove
<1>1. PatientInv /\ PatientInv' /\ CopyComplete /\ [Next]_vars => CopyComplete'
  <2> SUFFICES ASSUME PatientInv, PatientInv', CopyComplete, [Next]_vars PROVE CopyComplete'
    OBVIOUS
  <2>1. CASE UNCHANGED vars
    BY <2>1, CopyStays DEF vars, inputVars, deleteVars
  <2> QED  BY <2>1, UserCopy, CommandCopy, DaemonCopy DEF Next
<1>2. PatientInv /\ CopyComplete =>
        \A s \in Shells: DelRemove(s) =>
          \A e \in Listed: e.pid # target[s] => temp # NoFile /\ e \in Lines(temp)
  BY DEF PatientInv, FilesOwned, CopyComplete, DelRemove, At
<1> QED  BY <1>1, <1>2, InitCopy, PatientCorrect, PTL DEF Spec, NothingLostAtRemove

-----------------------------------------------------------------------------
(* The list is true *)

(* One command at a time, and nothing that fails; shells may be killed.    *)
TrueMode == ~Faults /\ (Patient \/ \A s, t \in Shells: s = t)

LEMMA InitTrue == Init => TrueInv
<1> SUFFICES ASSUME Init PROVE TrueInv
  OBVIOUS
<1>1. TypeInv  BY InitTypes
<1>2. OneCommand /\ FilesApart /\ CopyTrue /\ ListTrue
  BY DEF Init, OneCommand, FilesApart, CopyTrue, ListTrue, Listed, Idle, At
<1> QED  BY <1>1, <1>2 DEF TrueInv

(* A line stays true while no daemon that wrote one ends. *)
LEMMA RunningStays ==
  ASSUME \A p \in Pids: Runs(p) => Runs(p)' /\ dir'[p] = dir[p],
         NEW e \in Entry, Running(e)
  PROVE  Running(e)'
  BY DEF Running, Entry

(* The lines a stream has read are typed. *)
LEMMA LineTypes ==
  ASSUME TypeOK
  PROVE  /\ \A i \in Inodes: \A k \in DOMAIN data[i]: data[i][k] \in Entry
         /\ \A s \in Shells: \A k \in DOMAIN lines[s]: lines[s][k] \in Entry
         /\ \A s \in Shells: \A k \in DOMAIN kept[s]: kept[s][k] \in Entry
         /\ Listed \subseteq Entry
         /\ temp # NoFile => Lines(temp) \subseteq Entry
<1>1. ASSUME NEW q \in Seq(Entry), NEW k \in DOMAIN q PROVE q[k] \in Entry
  BY <1>1, LenProperties
<1>2. \A i \in Inodes: \A k \in DOMAIN data[i]: data[i][k] \in Entry
  BY <1>1 DEF TypeOK
<1> QED  BY <1>1, <1>2 DEF TypeOK, Listed, Lines

(* A step keeps the copies true that leaves temp.txt and the deletes in    *)
(* progress alone.                                                         *)
LEMMA CopyTrueStays ==
  ASSUME TrueInv, temp' = temp, temp # NoFile => data'[temp] = data[temp],
         \A p \in Pids: Runs(p) => Runs(p)' /\ dir'[p] = dir[p],
         \A t \in Shells:
           At(t, {"prompt", "exited", "create", "open", "del_temp", "del_read"})' =>
             kept'[t] = << >> /\ ~found'[t],
         \A t \in Shells:
           At(t, {"del_line", "del_flush", "del_remove", "del_rename", "del_kill"})' =>
             /\ pc'[t] = pc[t] /\ target'[t] = target[t]
             /\ lines'[t] = lines[t] /\ kept'[t] = kept[t] /\ found'[t] = found[t],
         \A t \in Shells: At(t, {"del_kill"})' => \A e \in Listed': e.pid # target'[t]
  PROVE  CopyTrue'
<1> USE DEF TrueInv
<1>1. TypeOK  BY DEF TypeInv
<1>2. temp # NoFile => Lines(temp)' = Lines(temp)  BY DEF Lines
<1>3. \A e \in Entry: Running(e) => Running(e)'  BY RunningStays
<1> SUFFICES ASSUME NEW s \in Shells
             PROVE  /\ At(s, {"del_line", "del_flush"})' =>
                         /\ \A k \in DOMAIN lines'[s]: Running(lines[s][k])'
                         /\ \A k \in DOMAIN kept'[s]: Running(kept[s][k])' /\ kept'[s][k].pid # target'[s]
                         /\ found'[s] => Runs(target[s])'
                    /\ At(s, {"del_remove", "del_rename", "del_kill"})' => Runs(target[s])'
                    /\ At(s, {"del_remove", "del_rename"})' =>
                         \A e \in Lines(temp)': Running(e)' /\ e.pid # target'[s]
                    /\ At(s, {"del_kill"})' => \A e \in Listed': e.pid # target'[s]
  BY DEF CopyTrue
<1>4. ASSUME At(s, {"del_line", "del_flush"})'
      PROVE  /\ \A k \in DOMAIN lines'[s]: Running(lines[s][k])'
             /\ \A k \in DOMAIN kept'[s]: Running(kept[s][k])' /\ kept'[s][k].pid # target'[s]
             /\ found'[s] => Runs(target[s])'
  <2>1. /\ At(s, {"del_line", "del_flush"}) /\ target'[s] = target[s] /\ target[s] \in Pids
        /\ lines'[s] = lines[s] /\ kept'[s] = kept[s] /\ found'[s] = found[s]
    BY <1>4 DEF At, TypeInv, Shape
  <2>2. /\ \A k \in DOMAIN lines[s]: Running(lines[s][k]) /\ lines[s][k] \in Entry
        /\ \A k \in DOMAIN kept[s]: Running(kept[s][k]) /\ kept[s][k] \in Entry /\ kept[s][k].pid # target[s]
        /\ found[s] => Runs(target[s])
    BY <1>1, <2>1, LineTypes DEF CopyTrue
  <2>3. \A k \in DOMAIN lines[s]: Running(lines[s][k])'
    <3> SUFFICES ASSUME NEW k \in DOMAIN lines[s] PROVE Running(lines[s][k])'
      OBVIOUS
    <3>1. lines[s][k] \in Entry /\ Running(lines[s][k])  BY <2>2
    <3> QED  BY <1>3, <2>1, <3>1 DEF Running
  <2> QED  BY <1>3, <2>1, <2>2, <2>3 DEF Running
<1>5. ASSUME At(s, {"del_remove", "del_rename", "del_kill"})'
      PROVE  /\ At(s, {"del_remove", "del_rename", "del_kill"}) /\ pc'[s] = pc[s]
             /\ target'[s] = target[s] /\ target[s] \in Pids /\ Runs(target[s])'
  <2>1. At(s, {"del_remove", "del_rename", "del_kill"}) /\ pc'[s] = pc[s] /\ target'[s] = target[s]
    BY <1>5 DEF At
  <2>2. target[s] \in Pids /\ Runs(target[s])  BY <2>1 DEF At, TypeInv, Shape, CopyTrue
  <2> QED  BY <2>1, <2>2 DEF Runs
<1>6. ASSUME At(s, {"del_remove", "del_rename"})', NEW e \in Lines(temp)'
      PROVE  Running(e)' /\ e.pid # target'[s]
  <2>1. At(s, {"del_remove", "del_rename"}) /\ target'[s] = target[s]  BY <1>6 DEF At
  <2>2. temp # NoFile  BY <2>1 DEF FilesApart
  <2>3. e \in Lines(temp) /\ e \in Entry  BY <1>1, <1>2, <1>6, <2>2, LineTypes
  <2> QED  BY <1>3, <2>1, <2>3 DEF CopyTrue
<1> QED  BY <1>4, <1>5, <1>6 DEF At

(* Steps of one shell or daemon that leave the list and temp.txt, and      *)
(* every delete in progress, alone.                                        *)
LEMMA TrueStays ==
  ASSUME TrueInv, TypeInv', UNCHANGED <<list, temp>>,
         list # NoFile => data'[list] = data[list],
         temp # NoFile => data'[temp] = data[temp],
         \A p \in Pids: Runs(p) => Runs(p)' /\ dir'[p] = dir[p],
         \A p \in Pids: (st[p] = "opened")' => dfp'[p] # temp,
         \A t \in Shells: At(t, {"del_temp", "del_read"})' => fp'[t] = list,
         \A t \in Shells:
           At(t, {"prompt", "exited", "create", "open", "del_temp", "del_read"})' =>
             kept'[t] = << >> /\ ~found'[t],
         \A t \in Shells:
           At(t, {"del_read", "del_line", "del_flush", "del_remove", "del_rename", "del_kill"})' =>
             /\ pc'[t] = pc[t] /\ target'[t] = target[t] /\ tfp'[t] = tfp[t]
             /\ lines'[t] = lines[t] /\ kept'[t] = kept[t] /\ found'[t] = found[t]
  PROVE  FilesApart' /\ CopyTrue' /\ ListTrue'
<1> USE DEF TrueInv
<1>0. TypeOK  BY DEF TypeInv
<1>1. Listed' = Listed
  <2>1. CASE list = NoFile  BY <2>1 DEF Listed
  <2>2. CASE list # NoFile  BY <2>2 DEF Listed, Lines
  <2> QED  BY <2>1, <2>2
<1>3. \A e \in Entry: Running(e) => Running(e)'  BY RunningStays
<1>4. FilesApart'
  <2>1. ASSUME NEW s \in Shells PROVE At(s, {"del_read", "del_line", "del_flush"})' => tfp'[s] = temp /\ data'[temp] = << >>
    <3> SUFFICES ASSUME At(s, {"del_read", "del_line", "del_flush"})' PROVE tfp'[s] = temp /\ data'[temp] = << >>
      OBVIOUS
    <3>1. At(s, {"del_read", "del_line", "del_flush"}) /\ tfp'[s] = tfp[s]  BY DEF At
    <3>2. tfp[s] = temp /\ data[temp] = << >> /\ tfp[s] \in Inodes
      BY <3>1 DEF FilesApart, TypeInv, Shape
    <3> QED  BY <3>1, <3>2, NoneAssumption
  <2>2. ASSUME NEW s \in Shells PROVE At(s, {"del_remove", "del_rename"})' => temp' # NoFile
    BY <2>2 DEF FilesApart, At
  <2> QED  BY <2>1, <2>2 DEF FilesApart
<1>5. CopyTrue'
  <2>1. \A t \in Shells: At(t, {"del_kill"})' => \A e \in Listed': e.pid # target'[t]
    BY <1>1 DEF CopyTrue, At
  <2>2. \A t \in Shells:
          At(t, {"del_line", "del_flush", "del_remove", "del_rename", "del_kill"})' =>
            /\ pc'[t] = pc[t] /\ target'[t] = target[t]
            /\ lines'[t] = lines[t] /\ kept'[t] = kept[t] /\ found'[t] = found[t]
    BY DEF At
  <2> QED  BY <2>1, <2>2, CopyTrueStays
<1>6. ListTrue'  BY <1>0, <1>1, <1>3, LineTypes DEF ListTrue
<1> QED  BY <1>4, <1>5, <1>6

(* ... as they are in a step that moves no file and no daemon. *)
LEMMA UnmovedTrue ==
  ASSUME TrueInv, TypeInv', UNCHANGED <<fileVars, daemonVars>>,
         \A t \in Shells: At(t, {"del_temp", "del_read"})' => fp'[t] = list,
         \A t \in Shells:
           At(t, {"prompt", "exited", "create", "open", "del_temp", "del_read"})' =>
             kept'[t] = << >> /\ ~found'[t],
         \A t \in Shells:
           At(t, {"del_read", "del_line", "del_flush", "del_remove", "del_rename", "del_kill"})' =>
             /\ pc'[t] = pc[t] /\ target'[t] = target[t] /\ tfp'[t] = tfp[t]
             /\ lines'[t] = lines[t] /\ kept'[t] = kept[t] /\ found'[t] = found[t]
  PROVE  FilesApart' /\ CopyTrue' /\ ListTrue'
<1>1. UNCHANGED <<list, temp, data, st, dir, dfp>>  BY DEF fileVars, daemonVars
<1>2. \A p \in Pids: Runs(p) => Runs(p)' /\ dir'[p] = dir[p]  BY <1>1 DEF Runs
<1>3. \A p \in Pids: (st[p] = "opened")' => dfp'[p] # temp  BY <1>1 DEF TrueInv, FilesApart
<1> QED  BY <1>1, <1>2, <1>3, TrueStays

(* A command that ends, or whose shell is killed, leaving files and daemons *)
(* as they are.                                                             *)
LEMMA LeaveTrue ==
  ASSUME TrueInv, NEW s \in Shells, NEW at \in {"prompt", "exited"}, Leave(s, at),
         UNCHANGED <<fileVars, daemonVars>>
  PROVE  TrueInv'
<1> USE DEF TrueInv
<1>1. TypeInv'  BY LeaveOnlyTypes
<1>2. OneCommand'  BY LeaveTypes DEF OneCommand, Idle
<1>3. /\ pc'[s] = at /\ kept'[s] = << >> /\ ~found'[s]
      /\ \A t \in Shells \ {s}: /\ pc'[t] = pc[t] /\ target'[t] = target[t]
                                /\ fp'[t] = fp[t] /\ tfp'[t] = tfp[t]
                                /\ lines'[t] = lines[t] /\ kept'[t] = kept[t] /\ found'[t] = found[t]
  BY DEF Leave, TypeInv, TypeOK
<1>4. \A t \in Shells: At(t, {"del_temp", "del_read"})' => fp'[t] = list
  BY <1>3 DEF At, FilesApart
<1>5. \A t \in Shells:
        At(t, {"prompt", "exited", "create", "open", "del_temp", "del_read"})' =>
          kept'[t] = << >> /\ ~found'[t]
  BY <1>3 DEF At, CopyTrue
<1>6. FilesApart' /\ CopyTrue' /\ ListTrue'  BY <1>1, <1>3, <1>4, <1>5, UnmovedTrue DEF At
<1> QED  BY <1>1, <1>2, <1>6

LEMMA UserTrue ==
  ASSUME TrueMode, TrueInv, NEW s \in Shells, UserStep(s)
  PROVE  TrueInv'
<1> USE DEF TrueInv
<1>1. TypeInv'  BY UserTypes
<1>0. TypeOK  BY DEF TypeInv
<1>2. ASSUME NEW c \in {"add", "delete", "tree"}, Access(s, c)
      PROVE  OneCommand' /\ FilesApart' /\ CopyTrue' /\ ListTrue'
  <2>1. /\ pc[s] = "prompt" /\ pc'[s] \in {"create", "open"}
        /\ \A t \in Shells \ {s}: pc'[t] = pc[t] /\ Idle(t)
        /\ UNCHANGED <<fileVars, streamVars, deleteVars, daemonVars>>
    BY <1>2 DEF Access, Ready, Goto, TypeInv, TypeOK, TrueMode
  <2>2. OneCommand'  BY <2>1 DEF OneCommand, Idle
  <2>3. FilesApart' /\ CopyTrue' /\ ListTrue'
    <3>1. UNCHANGED <<list, temp, data, st, dir, dfp, fp, tfp, lines, kept, found>>
      BY <2>1 DEF fileVars, streamVars, deleteVars, daemonVars
    <3>2. \A t \in Shells: pc'[t] \in {"prompt", "exited", "create", "open"}  BY <2>1 DEF Idle
    <3>3. \A t \in Shells: kept'[t] = << >> /\ ~found'[t]  BY <2>1, <3>1 DEF CopyTrue, At, Idle
    <3>4. UNCHANGED <<fileVars, daemonVars>>  BY <2>1
    <3> QED  BY <1>1, <3>2, <3>3, <3>4, UnmovedTrue DEF At
  <2> QED  BY <2>2, <2>3
<1>4. CASE \E d \in Paths: AddCommand(s, d) \/ TreeCommand(s, d)
  BY <1>1, <1>2, <1>4 DEF AddCommand, TreeCommand
<1>5. CASE \E p \in Pids: DeleteCommand(s, p)
  BY <1>1, <1>2, <1>5 DEF DeleteCommand
<1>6. CASE ExitCommand(s)  BY <1>6, LeaveTrue DEF ExitCommand
<1>7. CASE ShellStart(s)
  <2>1. /\ pc[s] = "exited" /\ pc'[s] = "prompt"
        /\ \A t \in Shells \ {s}: pc'[t] = pc[t]
        /\ UNCHANGED <<fileVars, target, fp, tfp, lines, kept, found, daemonVars>>
    BY <1>0, <1>7 DEF ShellStart, Goto, TypeOK, inputVars, streamVars, deleteVars
  <2>2. OneCommand'  BY <2>1 DEF OneCommand, Idle
  <2>3. \A t \in Shells: At(t, {"del_temp", "del_read"})' => fp'[t] = list
    BY <2>1 DEF At, FilesApart
  <2>4. \A t \in Shells: At(t, {"prompt", "exited", "create", "open", "del_temp", "del_read"})' =>
           kept'[t] = << >> /\ ~found'[t]
    BY <2>1 DEF At, CopyTrue
  <2>5. FilesApart' /\ CopyTrue' /\ ListTrue'  BY <1>1, <2>1, <2>3, <2>4, UnmovedTrue DEF At
  <2> QED  BY <1>1, <2>2, <2>5
<1>8. CASE ShellKilled(s)  BY <1>8, LeaveTrue DEF ShellKilled
<1> QED  BY <1>4, <1>5, <1>6, <1>7, <1>8 DEF UserStep

-----------------------------------------------------------------------------
(* The shell that runs a command is the only one. *)
LEMMA TrueAlone ==
  ASSUME TrueInv, NEW s \in Shells, ~Idle(s)
  PROVE  \A t \in Shells \ {s}: Idle(t)
  BY DEF TrueInv, OneCommand

LEMMA OpenTrue ==
  ASSUME TrueInv, NEW s \in Shells,
         OpenNew(s) \/ Open(s) \/ OpenFails(s) \/ AddScan(s) \/ AddRefused(s)
           \/ AddFork(s) \/ AddForkFails(s) \/ TreeScan(s)
  PROVE  TrueInv'
<1> USE DEF TrueInv
<1>1. TypeInv'  BY OpenTypes
<1>0. TypeOK  BY DEF TypeInv
<1>2. CASE OpenFails(s) \/ AddRefused(s) \/ AddForkFails(s) \/ TreeScan(s)
  BY <1>2, LeaveTrue DEF OpenFails, AddRefused, AddForkFails, TreeScan
<1>3. CASE AddScan(s)
  <2>1. /\ pc[s] = "add_scan" /\ pc'[s] = "add_fork"
        /\ \A t \in Shells \ {s}: pc'[t] = pc[t] /\ Idle(t)
        /\ UNCHANGED <<fileVars, tfp, lines, kept, found, target, daemonVars>>
    BY <1>0, <1>3, TrueAlone DEF AddScan, Goto, TypeOK, Idle, inputVars, deleteVars
  <2>2. OneCommand'  BY <2>1 DEF OneCommand, Idle
  <2>3. \A t \in Shells: At(t, {"prompt", "exited", "create", "open", "del_temp", "del_read"})' =>
           kept'[t] = << >> /\ ~found'[t]
    BY <2>1 DEF At, CopyTrue
  <2>4. FilesApart' /\ CopyTrue' /\ ListTrue'  BY <1>1, <2>1, <2>3, UnmovedTrue DEF At, Idle
  <2> QED  BY <1>1, <2>2, <2>4
<1>4. CASE Open(s)
  <2>1. /\ pc[s] = "open" /\ pc'[s] \in {"add_scan", "del_temp", "tree_scan"} /\ fp'[s] = list
        /\ \A t \in Shells \ {s}: pc'[t] = pc[t] /\ Idle(t)
        /\ UNCHANGED <<fileVars, tfp, lines, kept, found, target, daemonVars>>
    BY <1>0, <1>4, TrueAlone DEF Open, Opened, Goto, TypeOK, Idle, inputVars, deleteVars
  <2>2. OneCommand'  BY <2>1 DEF OneCommand, Idle
  <2>3. \A t \in Shells: At(t, {"prompt", "exited", "create", "open", "del_temp", "del_read"})' =>
           kept'[t] = << >> /\ ~found'[t]
    BY <2>1 DEF At, CopyTrue
  <2>4. FilesApart' /\ CopyTrue' /\ ListTrue'  BY <1>1, <2>1, <2>3, UnmovedTrue DEF At, Idle
  <2> QED  BY <1>1, <2>2, <2>4
<1>5. CASE OpenNew(s)
  <2>1. PICK i \in Inodes: /\ IF list = NoFile THEN Fresh(i) ELSE i = list
                           /\ list' = i
                           /\ data' = [data EXCEPT ![i] = << >>]
                           /\ fp' = [fp EXCEPT ![s] = i]
    BY <1>5 DEF OpenNew
  <2>2. i # temp /\ i # NoFile
    BY <2>1, NoneAssumption DEF FilesApart, Fresh, Unused
  <2>3. /\ pc[s] = "create" /\ pc'[s] \in {"add_scan", "del_temp", "tree_scan"}
        /\ \A t \in Shells \ {s}: pc'[t] = pc[t] /\ Idle(t)
        /\ UNCHANGED <<temp, tfp, lines, kept, found, target, st, dir, dfp>>
    BY <1>0, <1>5, TrueAlone DEF OpenNew, Opened, Goto, TypeOK, Idle, inputVars, deleteVars, daemonVars
  <2>4. OneCommand'  BY <2>3 DEF OneCommand, Idle
  <2>5. Listed' = {}
    <3>1. data'[i] = << >>  BY <1>0, <2>1 DEF TypeOK
    <3> QED  BY <2>1, <2>2, <3>1, EmptySeq DEF Listed, Lines
  <2>6. ListTrue'  BY <2>5 DEF ListTrue
  <2>7. FilesApart'  BY <1>0, <2>1, <2>2, <2>3 DEF FilesApart, At, Idle, TypeOK
  <2>8. CopyTrue'  BY <2>3 DEF CopyTrue, At, Idle
  <2> QED  BY <1>1, <2>4, <2>6, <2>7, <2>8
<1>6. CASE AddFork(s)
  <2>1. PICK p \in Pids: /\ ~Live(p)
                         /\ st' = [st EXCEPT ![p] = "forked"]
                         /\ dir' = [dir EXCEPT ![p] = path[s]]
    BY <1>6 DEF AddFork
  <2>2. /\ pc'[s] = "prompt" /\ kept'[s] = << >> /\ ~found'[s]
        /\ \A t \in Shells \ {s}: pc'[t] = pc[t] /\ Idle(t) /\ kept'[t] = kept[t] /\ found'[t] = found[t]
        /\ UNCHANGED <<list, temp, data, dfp>>
    BY <1>0, <1>6, TrueAlone DEF AddFork, Leave, TypeOK, Idle, fileVars
  <2>3. OneCommand'  BY <2>2 DEF OneCommand, Idle
  <2>4. \A q \in Pids: Runs(q) => Runs(q)' /\ dir'[q] = dir[q]
    BY <1>0, <2>1 DEF Runs, Live, TypeOK
  <2>5. \A q \in Pids: (st[q] = "opened")' => dfp'[q] # temp
    BY <1>0, <2>1, <2>2 DEF FilesApart, TypeOK
  <2>6. \A t \in Shells: pc'[t] \in {"prompt", "exited"} /\ kept'[t] = << >> /\ ~found'[t]
    BY <2>2 DEF Idle, CopyTrue, At
  <2>7. FilesApart' /\ CopyTrue' /\ ListTrue'
    BY <1>1, <2>2, <2>4, <2>5, <2>6, TrueStays DEF At
  <2> QED  BY <1>1, <2>3, <2>7
<1> QED  BY <1>2, <1>3, <1>4, <1>5, <1>6

-----------------------------------------------------------------------------
(* Every line in a buffer that grows by a line. *)
LEMMA AppendAll ==
  ASSUME NEW q \in Seq(Entry), NEW e \in Entry, NEW k \in DOMAIN Append(q, e)
  PROVE  Append(q, e)[k] = e \/ \E j \in DOMAIN q: q[j] = Append(q, e)[k]
  BY AppendProperties, LenProperties

(* ... and in one that shrinks by its first. *)
LEMMA TailAll ==
  ASSUME NEW q \in Seq(Entry), q # << >>, NEW k \in DOMAIN Tail(q)
  PROVE  \E j \in DOMAIN q: q[j] = Tail(q)[k]
<1>1. /\ Len(q) \in Nat /\ DOMAIN q = 1..Len(q)
      /\ Tail(q) \in Seq(Entry) /\ Len(Tail(q)) = Len(q) - 1
      /\ \A i \in 1..Len(Tail(q)): Tail(q)[i] = q[i + 1]
  BY HeadTailProperties, LenProperties
<1>2. DOMAIN Tail(q) = 1..(Len(q) - 1)  BY <1>1, LenProperties
<1>3. k + 1 \in DOMAIN q /\ q[k + 1] = Tail(q)[k]  BY <1>1, <1>2
<1> QED  BY <1>3

LEMMA DelTempTrue ==
  ASSUME TrueInv, NEW s \in Shells, DelOpenTemp(s)
  PROVE  TrueInv'
<1> USE DEF TrueInv
<1>1. TypeInv'  BY DeleteTypes
<1>0. TypeOK  BY DEF TypeInv
<1>2. PICK i \in Inodes: /\ IF temp = NoFile THEN Fresh(i) ELSE i = temp
                         /\ temp' = i
                         /\ data' = [data EXCEPT ![i] = << >>]
                         /\ tfp' = [tfp EXCEPT ![s] = i]
  BY DEF DelOpenTemp
<1>3. /\ pc[s] = "del_temp" /\ pc'[s] = "del_read"
      /\ \A t \in Shells \ {s}: pc'[t] = pc[t] /\ Idle(t)
      /\ UNCHANGED <<list, fp, lines, kept, found, target, st, dir, dfp>>
  BY <1>0, TrueAlone DEF DelOpenTemp, Goto, TypeOK, Idle, inputVars, deleteVars, daemonVars
<1>4. i # list /\ i # NoFile /\ data'[i] = << >>
  BY <1>0, <1>2, NoneAssumption DEF FilesApart, Fresh, Unused, TypeOK
<1>5. \A p \in Pids: st[p] = "opened" => dfp[p] # i
  BY <1>2 DEF FilesApart, Fresh, Unused
<1>6. OneCommand'  BY <1>3 DEF OneCommand, Idle
<1>7. FilesApart'
  BY <1>0, <1>2, <1>3, <1>4, <1>5, NoneAssumption DEF FilesApart, At, Idle, TypeOK
<1>8. Listed' = Listed
  <2>1. CASE list = NoFile  BY <1>3, <2>1 DEF Listed
  <2>2. CASE list # NoFile
    <3>1. data'[list] = data[list]  BY <1>0, <1>2, <1>4, <2>2 DEF TypeOK
    <3> QED  BY <1>3, <2>2, <3>1 DEF Listed, Lines
  <2> QED  BY <2>1, <2>2
<1>9. ListTrue'  BY <1>3, <1>8 DEF ListTrue, Running, Runs
<1>10. CopyTrue'  BY <1>3 DEF CopyTrue, At, Idle
<1> QED  BY <1>1, <1>6, <1>7, <1>9, <1>10

(* The copying steps change nothing but the buffers of their shell. *)
LEMMA DelCopyTrue ==
  ASSUME TrueInv, NEW s \in Shells, DelRead(s) \/ DelLine(s) \/ DelLinesDone(s)
  PROVE  TrueInv'
<1> USE DEF TrueInv
<1>1. TypeInv'  BY DeleteTypes
<1>0. TypeOK  BY DEF TypeInv
<1>2. /\ ~Idle(s) /\ pc'[s] \in {"del_line", "del_flush"}
      /\ pc[s] \in {"del_read", "del_line"}
      /\ \A t \in Shells \ {s}: pc'[t] = pc[t]
      /\ UNCHANGED <<list, temp, data, fp, tfp, target, st, dir, dfp>>
  BY <1>0 DEF DelRead, DelLine, DelLinesDone, Goto, Idle, TypeOK, fileVars, inputVars,
              streamVars, daemonVars
<1>3. \A t \in Shells \ {s}: Idle(t) /\ kept'[t] = kept[t] /\ found'[t] = found[t]
  BY <1>0, <1>2, TrueAlone DEF DelRead, DelLine, DelLinesDone, TypeOK, deleteVars
<1>4. OneCommand'  BY <1>2, <1>3 DEF OneCommand, Idle
<1>5. FilesApart'  BY <1>2, <1>3 DEF FilesApart, At, Idle
<1>6. ListTrue'  BY <1>2 DEF ListTrue, Listed, Lines, Running, Runs
<1>7. SUFFICES /\ \A k \in DOMAIN lines'[s]: Running(lines'[s][k])
               /\ \A k \in DOMAIN kept'[s]: Running(kept'[s][k]) /\ kept'[s][k].pid # target[s]
               /\ found'[s] => Runs(target[s])
  <2>1. ASSUME NEW t \in Shells
        PROVE  At(t, {"prompt", "exited", "create", "open", "del_temp", "del_read"})' =>
                 kept'[t] = << >> /\ ~found'[t]
    BY <1>2, <1>3 DEF CopyTrue, At
  <2>2. \A t \in Shells: At(t, {"del_line", "del_flush"})' => t = s
    BY <1>2, <1>3 DEF At, Idle
  <2>3. \A t \in Shells: ~At(t, {"del_remove", "del_rename", "del_kill"})'
    BY <1>2, <1>3 DEF At, Idle
  <2>4. CopyTrue'
    <3>1. \A k \in DOMAIN lines'[s]: Running(lines[s][k])'
      BY <1>2, <1>7 DEF Running, Runs
    <3>2. \A k \in DOMAIN kept'[s]: Running(kept[s][k])' /\ kept'[s][k].pid # target'[s]
      BY <1>2, <1>7 DEF Running, Runs
    <3>3. found'[s] => Runs(target[s])'  BY <1>2, <1>7 DEF Runs
    <3>4. \A t \in Shells: ~At(t, {"del_remove", "del_rename"})' /\ ~At(t, {"del_kill"})'
      BY <2>3 DEF At
    <3> QED  BY <2>1, <2>2, <2>3, <3>1, <3>2, <3>3, <3>4 DEF CopyTrue
  <2> QED  BY <2>4, <1>1, <1>4, <1>5, <1>6
<1>8. /\ target[s] \in Pids
      /\ \A k \in DOMAIN lines[s]: lines[s][k] \in Entry
      /\ lines[s] \in Seq(Entry) /\ kept[s] \in Seq(Entry)
  BY <1>0, <1>2, LineTypes DEF TypeOK, TypeInv, Shape, At
<1>9. CASE DelRead(s)
  <2>1. /\ pc[s] = "del_read" /\ lines'[s] = data[fp[s]] /\ kept'[s] = kept[s] /\ found'[s] = found[s]
    BY <1>0, <1>9 DEF DelRead, TypeOK
  <2>2. fp[s] = list /\ fp[s] \in Inodes /\ kept[s] = << >> /\ ~found[s]
    BY <2>1 DEF FilesApart, CopyTrue, TypeInv, Shape, At
  <2>3. \A k \in DOMAIN data[list]: Running(data[list][k])
    BY <2>2, NoneAssumption DEF ListTrue, Listed, Lines
  <2> QED  BY <2>1, <2>2, <2>3, EmptySeq
<1>10. CASE DelLine(s)
  <2> DEFINE line == Head(lines[s])
  <2>1. /\ pc[s] = "del_line" /\ lines[s] # << >> /\ lines'[s] = Tail(lines[s])
    BY <1>0, <1>10 DEF DelLine, TypeOK
  <2>2. \/ line.pid = target[s] /\ found'[s] = TRUE /\ kept'[s] = kept[s]
        \/ line.pid # target[s] /\ found'[s] = found[s] /\ kept'[s] = Append(kept[s], line)
    BY <1>0, <1>10 DEF DelLine, TypeOK
  <2>3. 1 \in DOMAIN lines[s] /\ line = lines[s][1]
    BY <1>8, <2>1, HeadTailProperties, LenProperties, EmptySeq
  <2>4. /\ \A k \in DOMAIN lines[s]: Running(lines[s][k])
        /\ \A k \in DOMAIN kept[s]: Running(kept[s][k]) /\ kept[s][k].pid # target[s]
        /\ found[s] => Runs(target[s])
    BY <2>1 DEF CopyTrue, At
  <2>5. line \in Entry /\ Running(line)  BY <1>8, <2>3, <2>4
  <2> HIDE DEF line
  <2>6. \A k \in DOMAIN lines'[s]: Running(lines'[s][k])
    BY <1>8, <2>1, <2>4, TailAll
  <2>7. \A k \in DOMAIN kept'[s]: Running(kept'[s][k]) /\ kept'[s][k].pid # target[s]
    <3>1. CASE line.pid = target[s]  BY <2>2, <2>4, <3>1
    <3>2. CASE line.pid # target[s]
      <4> SUFFICES ASSUME NEW k \in DOMAIN kept'[s]
                   PROVE  Running(kept'[s][k]) /\ kept'[s][k].pid # target[s]
        OBVIOUS
      <4>1. kept'[s] = Append(kept[s], line)  BY <2>2, <3>2
      <4>2. kept'[s][k] = line \/ \E j \in DOMAIN kept[s]: kept[s][j] = kept'[s][k]
        BY <1>8, <2>5, <4>1, AppendAll
      <4> QED  BY <2>4, <2>5, <3>2, <4>2
    <3> QED  BY <3>1, <3>2
  <2>8. found'[s] => Runs(target[s])  BY <2>2, <2>4, <2>5 DEF Running
  <2> QED  BY <2>6, <2>7, <2>8
<1>11. CASE DelLinesDone(s)
  <2>1. /\ pc[s] = "del_line" /\ UNCHANGED <<lines, kept, found>>
    BY <1>11 DEF DelLinesDone, deleteVars
  <2> QED  BY <2>1 DEF CopyTrue, At
<1> QED  BY <1>9, <1>10, <1>11

(* What fclose(temp_fp) leaves of the two files. *)
LEMMA FlushedTrue ==
  ASSUME TrueInv, NEW s \in Shells, pc[s] = "del_flush", Flushed(s)
  PROVE  /\ temp \in Inodes /\ temp # list /\ data'[temp] = kept[s]
         /\ list # NoFile => data'[list] = data[list]
<1> USE DEF TrueInv
<1>1. /\ temp \in Inodes /\ tfp[s] = temp /\ data[temp] = << >>
      /\ kept[s] \in Seq(Entry) /\ data \in [Inodes -> Seq(Entry)]
      /\ list \in Inodes \cup {NoFile}
  BY DEF FilesApart, TypeInv, TypeOK, Shape, At
<1>2. temp # list  BY <1>1, NoneAssumption DEF FilesApart
<1>3. data'[temp] = kept[s]  BY <1>1, OverlayEmpty DEF Flushed
<1>4. list # NoFile => data'[list] = data[list]  BY <1>1, <1>2 DEF Flushed
<1> QED  BY <1>1, <1>2, <1>3, <1>4

LEMMA DelFlushTrue ==
  ASSUME TrueInv, NEW s \in Shells, DelFlush(s) \/ DelUnknown(s)
  PROVE  TrueInv'
<1> USE DEF TrueInv
<1>1. TypeInv'  BY DeleteTypes
<1>0. TypeOK  BY DEF TypeInv
<1>2. /\ pc[s] = "del_flush" /\ Flushed(s) /\ kept'[s] = << >>
      /\ UNCHANGED <<list, temp, st, dir, dfp>>
      /\ \/ pc'[s] = "del_remove" /\ target'[s] = target[s] /\ found[s]
         \/ pc'[s] = "prompt" /\ ~found'[s]
  BY <1>0 DEF DelFlush, DelUnknown, Leave, Goto, TypeOK, inputVars, daemonVars
<1>3. \A t \in Shells \ {s}: /\ pc'[t] = pc[t] /\ Idle(t)
                            /\ kept'[t] = kept[t] /\ found'[t] = found[t]
  BY <1>0, <1>2, TrueAlone, ZenonT(60) DEF DelFlush, DelUnknown, Leave, Goto, TypeOK, Idle
<1>4. /\ temp \in Inodes /\ temp # list /\ data'[temp] = kept[s]
      /\ list # NoFile => data'[list] = data[list]
  BY <1>2, FlushedTrue
<1>5. OneCommand'  BY <1>2, <1>3 DEF OneCommand, Idle
<1>6. FilesApart'  BY <1>2, <1>3, <1>4, NoneAssumption DEF FilesApart, At, Idle
<1>7. Listed' = Listed
  <2>1. CASE list = NoFile  BY <1>2, <2>1 DEF Listed
  <2>2. CASE list # NoFile  BY <1>2, <1>4, <2>2 DEF Listed, Lines
  <2> QED  BY <2>1, <2>2
<1>8. ListTrue'  BY <1>2, <1>7 DEF ListTrue, Running, Runs
<1>9. /\ \A k \in DOMAIN kept[s]: Running(kept[s][k]) /\ kept[s][k].pid # target[s]
      /\ found[s] => Runs(target[s])
  BY <1>2 DEF CopyTrue, At
<1>10. CopyTrue'
  <2>1. \A e \in Lines(temp)': Running(e)' /\ e.pid # target[s]
    BY <1>2, <1>4, <1>9 DEF Lines, Running, Runs
  <2>2. CASE pc'[s] = "prompt"
    BY <1>2, <1>3, <2>2 DEF CopyTrue, At, Idle
  <2>3. CASE pc'[s] = "del_remove"
    BY <1>2, <1>3, <1>9, <2>1, <2>3 DEF CopyTrue, At, Idle, Runs
  <2> QED  BY <1>2, <2>2, <2>3
<1> QED  BY <1>1, <1>5, <1>6, <1>8, <1>10

LEMMA DelReplaceTrue ==
  ASSUME TrueInv, NEW s \in Shells, DelRemove(s) \/ DelRename(s)
  PROVE  TrueInv'
<1> USE DEF TrueInv
<1>1. TypeInv'  BY DeleteTypes
<1>0. TypeOK  BY DEF TypeInv
<1>2. /\ pc[s] \in {"del_remove", "del_rename"} /\ pc'[s] \in {"del_rename", "del_kill"}
      /\ UNCHANGED <<data, fp, tfp, lines, kept, found, target, st, dir, dfp>>
  BY <1>0 DEF DelRemove, DelRename, Goto, TypeOK, inputVars, streamVars, deleteVars, daemonVars
<1>3. \A t \in Shells \ {s}: pc'[t] = pc[t] /\ Idle(t)
  BY <1>0, <1>2, TrueAlone DEF DelRemove, DelRename, Goto, TypeOK, Idle
<1>4. OneCommand'  BY <1>2, <1>3 DEF OneCommand, Idle
<1>5. /\ Runs(target[s]) /\ temp # NoFile
      /\ \A e \in Lines(temp): Running(e) /\ e.pid # target[s]
  BY <1>2 DEF CopyTrue, FilesApart, At
<1>6. CASE DelRemove(s)
  <2>1. pc'[s] = "del_rename" /\ list' = NoFile /\ temp' = temp
    BY <1>0, <1>6 DEF DelRemove, Goto, TypeOK
  <2>2. FilesApart'  BY <1>2, <1>3, <1>5, <2>1 DEF FilesApart, At, Idle
  <2>3. ListTrue'  BY <2>1 DEF ListTrue, Listed
  <2>4. \A e \in Lines(temp)': Running(e)' /\ e.pid # target'[s]
    BY <1>2, <1>5, <2>1 DEF Lines, Running, Runs
  <2>5. CopyTrue'  BY <1>2, <1>3, <1>5, <2>1, <2>4 DEF CopyTrue, At, Idle, Runs
  <2> QED  BY <1>1, <1>4, <2>2, <2>3, <2>5
<1>7. CASE DelRename(s)
  <2>1. pc'[s] = "del_kill" /\ list' = temp /\ temp' = NoFile
    BY <1>0, <1>5, <1>7 DEF DelRename, Goto, TypeOK
  <2>2. \A p \in Pids: st[p] = "opened" => dfp[p] # NoFile
    BY NoneAssumption DEF TypeInv, Shape
  <2>3. FilesApart'  BY <1>2, <1>3, <1>5, <2>1, <2>2 DEF FilesApart, At, Idle
  <2>4. Listed' = Lines(temp)  BY <1>2, <1>5, <2>1 DEF Listed, Lines
  <2>5. ListTrue'  BY <1>2, <1>5, <2>4 DEF ListTrue, Running, Runs
  <2>6. CopyTrue'  BY <1>2, <1>3, <1>5, <2>1, <2>4 DEF CopyTrue, At, Idle, Runs
  <2> QED  BY <1>1, <1>4, <2>3, <2>5, <2>6
<1> QED  BY <1>6, <1>7

(* The daemon that is ended has no line any more. *)
LEMMA DelKillTrue ==
  ASSUME TrueInv, NEW s \in Shells, DelKill(s)
  PROVE  TrueInv'
<1> USE DEF TrueInv
<1>1. TypeInv'  BY DeleteTypes
<1>0. TypeOK  BY DEF TypeInv
<1>2. /\ pc[s] = "del_kill" /\ pc'[s] = "prompt" /\ kept'[s] = << >> /\ ~found'[s]
      /\ Die(target[s]) /\ UNCHANGED <<list, temp, data>>
  BY <1>0 DEF DelKill, Leave, TypeOK, fileVars
<1>3. \A t \in Shells \ {s}: /\ pc'[t] = pc[t] /\ Idle(t)
                            /\ kept'[t] = kept[t] /\ found'[t] = found[t]
  BY <1>0, <1>2, TrueAlone DEF DelKill, Leave, TypeOK, Idle
<1>4. OneCommand'  BY <1>2, <1>3 DEF OneCommand, Idle
<1>5. \A p \in Pids: p # target[s] => st'[p] = st[p] /\ dir'[p] = dir[p] /\ dfp'[p] = dfp[p]
  BY <1>0, <1>2 DEF Die, TypeOK
<1>6. target[s] \in Pids /\ st'[target[s]] = "none"
  BY <1>0, <1>2 DEF Die, TypeOK, TypeInv, Shape, At
<1>7. FilesApart'  BY <1>2, <1>3, <1>5, <1>6 DEF FilesApart, At, Idle
<1>8. Listed' = Listed  BY <1>2 DEF Listed, Lines
<1>9. \A e \in Listed: e \in Entry /\ Running(e) /\ e.pid # target[s]
  BY <1>0, <1>2, LineTypes DEF ListTrue, CopyTrue, At
<1>10. ListTrue'  BY <1>5, <1>8, <1>9 DEF ListTrue, Running, Runs, Entry
<1>11. CopyTrue'  BY <1>2, <1>3 DEF CopyTrue, At, Idle
<1> QED  BY <1>1, <1>4, <1>7, <1>10, <1>11

-----------------------------------------------------------------------------
(* A daemon appends its line to the list, or to a file that was the list.  *)
LEMMA DaemonTrue ==
  ASSUME TrueMode, TrueInv, NEW p \in Pids, DaemonStart(p) \/ DaemonFails(p)
  PROVE  TrueInv'
<1> USE DEF TrueInv
<1>1. TypeInv'  BY DaemonTypes
<1>0. TypeOK  BY DEF TypeInv
<1>2. /\ UNCHANGED <<temp, pc, target, fp, tfp, lines, kept, found, dir>>
      /\ DaemonStart(p)
      /\ \A q \in Pids: q # p => st'[q] = st[q] /\ dfp'[q] = dfp[q]
  BY <1>0 DEF DaemonStart, DaemonFails, DaemonOpenList, DaemonAppend, DaemonOpenLog, TrueMode,
              TypeOK, fileVars, inputVars, streamVars, deleteVars
<1>3. OneCommand'  BY <1>2 DEF OneCommand, Idle
<1>4. \A t \in Shells: At(t, {"prompt", "exited", "create", "open", "del_temp", "del_read"})' =>
         kept'[t] = << >> /\ ~found'[t]
  BY <1>2 DEF CopyTrue, At
<1>5. CASE DaemonOpenLog(p)
  <2>1. /\ UNCHANGED <<list, data, dfp>> /\ st[p] = "registered" /\ st'[p] = "watching"
    BY <1>0, <1>5 DEF DaemonOpenLog, TypeOK, fileVars
  <2>2. \A q \in Pids: Runs(q) => Runs(q)' /\ dir'[q] = dir[q]  BY <1>2, <2>1 DEF Runs
  <2>3. \A q \in Pids: (st[q] = "opened")' => dfp'[q] # temp  BY <1>2, <2>1 DEF FilesApart
  <2>4. \A t \in Shells: At(t, {"del_temp", "del_read"})' => fp'[t] = list
    BY <1>2, <2>1 DEF FilesApart, At
  <2>5. FilesApart' /\ CopyTrue' /\ ListTrue'
    BY <1>1, <1>2, <1>4, <2>1, <2>2, <2>3, <2>4, TrueStays
  <2> QED  BY <1>1, <1>3, <2>5
<1>6. CASE DaemonOpenList(p)
  <2>1. PICK i \in Inodes: /\ IF list = NoFile THEN Fresh(i) ELSE i = list
                           /\ list' = i
                           /\ data' = IF list = NoFile THEN [data EXCEPT ![i] = << >>] ELSE data
                           /\ dfp' = [dfp EXCEPT ![p] = i]
    BY <1>6 DEF DaemonOpenList
  <2>2. st[p] = "forked" /\ st'[p] = "opened" /\ dfp'[p] = i
    BY <1>0, <1>6, <2>1 DEF DaemonOpenList, TypeOK
  <2>3. i # temp /\ i # NoFile
    BY <2>1, NoneAssumption DEF FilesApart, Fresh, Unused
  <2>4. temp # NoFile => data'[temp] = data[temp]  BY <1>0, <2>1, <2>3 DEF TypeOK
  <2>5. \A q \in Pids: Runs(q)' = Runs(q) /\ dir'[q] = dir[q]  BY <1>2, <2>2 DEF Runs
  <2>6. \A q \in Pids: (st[q] = "opened")' => dfp'[q] # temp
    BY <1>2, <2>2, <2>3 DEF FilesApart
  <2>7. CASE list # NoFile
    <3>1. list' = list /\ data' = data  BY <2>1, <2>7
    <3>2. \A t \in Shells: At(t, {"del_temp", "del_read"})' => fp'[t] = list
      BY <1>2, <3>1 DEF FilesApart, At
    <3>3. FilesApart' /\ CopyTrue' /\ ListTrue'
      BY <1>1, <1>2, <1>4, <2>5, <2>6, <3>1, <3>2, TrueStays
    <3> QED  BY <1>1, <1>3, <3>3
  <2>8. CASE list = NoFile
    <3>1. data'[i] = << >> /\ \A t \in Shells: i # fp[t]
      BY <1>0, <2>1, <2>8 DEF TypeOK, Fresh, Unused
    <3>2. \A t \in Shells: ~At(t, {"del_temp", "del_read"})
      BY <2>8, NoneAssumption DEF FilesApart, TypeInv, Shape, At
    <3>3. Listed' = {}  BY <2>1, <3>1, EmptySeq DEF Listed, Lines
    <3>4. ListTrue'  BY <3>3 DEF ListTrue
    <3>5. FilesApart'
      <4>1. \A t \in Shells: At(t, {"del_read", "del_line", "del_flush"})' =>
              tfp'[t] = temp /\ data'[temp] = << >>
        BY <1>2, <2>4, NoneAssumption DEF FilesApart, TypeInv, Shape, At
      <4>2. \A t \in Shells: ~At(t, {"del_temp", "del_read"})'  BY <1>2, <3>2 DEF At
      <4> QED  BY <1>2, <2>1, <2>3, <2>6, <4>1, <4>2 DEF FilesApart, At
    <3>6. CopyTrue'
      <4>1. \A t \in Shells: At(t, {"del_kill"})' => \A e \in Listed': e.pid # target'[t]
        BY <3>3
      <4>2. \A t \in Shells:
              At(t, {"del_line", "del_flush", "del_remove", "del_rename", "del_kill"})' =>
                /\ pc'[t] = pc[t] /\ target'[t] = target[t]
                /\ lines'[t] = lines[t] /\ kept'[t] = kept[t] /\ found'[t] = found[t]
        BY <1>2
      <4> QED  BY <1>2, <1>4, <2>4, <2>5, <4>1, <4>2, CopyTrueStays
    <3> QED  BY <1>1, <1>3, <3>4, <3>5, <3>6
  <2> QED  BY <2>7, <2>8
<1>7. CASE DaemonAppend(p)
  <2> DEFINE line == [dir |-> dir[p], pid |-> p]
  <2>1. /\ st[p] = "opened" /\ st'[p] = "registered" /\ dfp'[p] = NoFile /\ list' = list
        /\ data' = [data EXCEPT ![dfp[p]] = Append(data[dfp[p]], line)]
    BY <1>0, <1>7 DEF DaemonAppend, TypeOK
  <2>2. dfp[p] # temp /\ dfp[p] \in Inodes /\ data[dfp[p]] \in Seq(Entry) /\ line \in Entry
    BY <1>0, <2>1 DEF FilesApart, TypeInv, TypeOK, Shape, Live, Entry
  <2>3. \A e: e = line => Running(e)'  BY <1>2, <2>1 DEF Running, Runs
  <2>4. \A q \in Pids: Runs(q) => q # p /\ Runs(q)' /\ dir'[q] = dir[q]
    BY <1>2, <2>1 DEF Runs
  <2>5. \A e \in Entry: Running(e) => Running(e)'  BY <2>4, RunningStays
  <2>6. temp # NoFile => data'[temp] = data[temp]  BY <1>0, <2>1, <2>2 DEF TypeOK
  <2>7. \A e \in Listed': e = line \/ e \in Listed
    <3>1. CASE list = NoFile  BY <2>1, <3>1 DEF Listed
    <3>2. CASE list # NoFile /\ list = dfp[p]
      <4>1. data'[list] = Append(data[list], line)  BY <1>0, <2>1, <2>2, <3>2 DEF TypeOK
      <4>2. data[list] \in Seq(Entry)  BY <2>2, <3>2
      <4> HIDE DEF line
      <4>3. \A k \in DOMAIN Append(data[list], line):
              Append(data[list], line)[k] = line \/ \E j \in DOMAIN data[list]: data[list][j] = Append(data[list], line)[k]
        BY <2>2, <4>2, AppendAll
      <4> QED  BY <2>1, <3>2, <4>1, <4>3 DEF Listed, Lines
    <3>3. CASE list # NoFile /\ list # dfp[p]
      <4>1. data'[list] = data[list]  BY <1>0, <2>1, <2>2, <3>3 DEF TypeOK
      <4> QED  BY <2>1, <3>3, <4>1 DEF Listed, Lines
    <3> QED  BY <3>1, <3>2, <3>3
  <2>8. \A e \in Listed: e \in Entry /\ Running(e)'  BY <1>0, <2>5, LineTypes DEF ListTrue
  <2>9. ListTrue'  BY <2>3, <2>7, <2>8 DEF ListTrue
  <2>10. FilesApart'
    <3>1. \A t \in Shells: At(t, {"del_read", "del_line", "del_flush"})' =>
            tfp'[t] = temp /\ data'[temp] = << >>
      BY <1>2, <2>6, NoneAssumption DEF FilesApart, TypeInv, Shape, At
    <3>2. \A q \in Pids: (st[q] = "opened")' => dfp'[q] # temp
      BY <1>2, <2>1 DEF FilesApart
    <3> QED  BY <1>2, <2>1, <3>1, <3>2 DEF FilesApart, At
  <2>11. CopyTrue'
    <3>1. ASSUME NEW t \in Shells, At(t, {"del_kill"})', NEW e \in Listed' PROVE e.pid # target'[t]
      <4>1. Runs(target[t]) /\ target[t] \in Pids /\ \A f \in Listed: f.pid # target[t]
        BY <1>2, <3>1 DEF CopyTrue, TypeInv, Shape, At
      <4>2. target[t] # p  BY <2>4, <4>1
      <4> QED  BY <1>2, <2>7, <3>1, <4>1, <4>2
    <3>2. \A t \in Shells:
            At(t, {"del_line", "del_flush", "del_remove", "del_rename", "del_kill"})' =>
              /\ pc'[t] = pc[t] /\ target'[t] = target[t]
              /\ lines'[t] = lines[t] /\ kept'[t] = kept[t] /\ found'[t] = found[t]
      BY <1>2
    <3> QED  BY <1>2, <1>4, <2>4, <2>6, <3>1, <3>2, CopyTrueStays
  <2> QED  BY <1>1, <1>3, <2>9, <2>10, <2>11
<1> QED  BY <1>2, <1>5, <1>6, <1>7 DEF DaemonStart

LEMMA StepTrue ==
  ASSUME TrueMode, TrueInv, [Next]_vars
  PROVE  TrueInv'
<1>1. ASSUME NEW s \in Shells, CommandStep(s) PROVE TrueInv'
  BY <1>1, OpenTrue, DelTempTrue, DelCopyTrue, DelFlushTrue, DelReplaceTrue, DelKillTrue
     DEF CommandStep
<1>2. CASE UNCHANGED vars
  <2>1. UNCHANGED <<list, temp, data, pc, target, fp, tfp, lines, kept, found, st, dir, dfp>>
    BY <1>2 DEF vars, fileVars, inputVars, streamVars, deleteVars, daemonVars
  <2>2. TypeInv'  BY <1>2, StepTypes DEF TrueInv
  <2>3. OneCommand'  BY <2>1 DEF TrueInv, OneCommand, Idle
  <2>4. FilesApart'  BY <2>1 DEF TrueInv, FilesApart, At
  <2>5. CopyTrue'
    BY <2>1 DEF TrueInv, CopyTrue, At, Running, Runs, Listed, Lines
  <2>6. ListTrue'  BY <2>1 DEF TrueInv, ListTrue, Running, Runs, Listed, Lines
  <2> QED  BY <2>2, <2>3, <2>4, <2>5, <2>6 DEF TrueInv
<1> QED  BY <1>1, <1>2, UserTrue, DaemonTrue DEF Next

(* With one shell, which may be killed at any step of a command, or with   *)
(* several and a patient user, a line of the list is always the line of a  *)
(* daemon that runs: no name stays taken after its daemon was ended, and   *)
(* no pid of the list is another process's.                                *)
THEOREM NoStaleLineCorrect ==
  ASSUME TrueMode
  PROVE  Spec => []NoStaleLine
<1>1. TrueInv /\ [Next]_vars => TrueInv'  BY StepTrue
<1>2. TrueInv => NoStaleLine
  <2> SUFFICES ASSUME TrueInv, NEW e \in Listed PROVE e \in Registered
    BY DEF NoStaleLine
  <2>1. Running(e) /\ e \in Entry  BY LineTypes DEF TrueInv, ListTrue, TypeInv
  <2>2. e.pid \in Pids /\ Live(e.pid) /\ ~Pending(e.pid) /\ e = [dir |-> dir[e.pid], pid |-> e.pid]
    BY <2>1 DEF Running, Runs, Live, Pending, Entry
  <2> QED  BY <2>2 DEF Registered, Watching
<1> QED  BY <1>1, <1>2, InitTrue, PTL DEF Spec

-----------------------------------------------------------------------------
(* The daemon at work: DirWatch *)


(* Paths.  A set of names is closed when it has the directories its names  *)
(* are in; what is above a name, and the name, is in every closed set with *)
(* the name.                                                               *)
Closed(S) == \A p \in S: Parent[p] = Root \/ Parent[p] \in S
Above(p) == {q \in Names: \A S \in SUBSET Names: Closed(S) /\ p \in S => q \in S}

(* The types of the trees, and what make_tree has yet to do: it looks into *)
(* directories that are in the new tree.                                   *)
IsTree(tree) ==
  /\ DOMAIN tree \subseteq Names
  /\ tree \in [DOMAIN tree -> [kind: {"reg", "dir"}, mtime: Nat]]
  /\ \A p \in DOMAIN tree: tree[p].kind \in Kinds[p]
InTree(d, tree) == d = Root \/ d \in DOMAIN tree
Calls == [op: {"list"}, at: Names \cup {Root}] \cup [op: {"stat"}, of: (SUBSET Names) \ {{}}]
Expected(call, tree) == IF call.op = "list" THEN InTree(call.at, tree)
                                            ELSE \A p \in call.of: InTree(Parent[p], tree)
TreesInv ==
  /\ IsTree(fs) /\ IsTree(old) /\ IsTree(new) /\ now \in Nat
  /\ phase \in {"gone", "first", "sleep", "scan", "compare"}
  /\ phase \notin {"first", "scan"} => todo = << >>
  /\ todo \in Seq(Calls) /\ \A k \in DOMAIN todo: Expected(todo[k], new)
  /\ Closed(DOMAIN old) /\ Closed(DOMAIN new)

(* What compare_tree has yet to do: the names at or below a sibling that   *)
(* waits.  Siblings that wait are not below one another, no two calls have *)
(* the same, and a name of both trees waits in both lists.                 *)
Both == DOMAIN old \cup DOMAIN new
Roots(k) == pairs[k].o \cup pairs[k].n
Waiting == {p \in Both: \E k \in DOMAIN pairs: \E r \in Roots(k): r \in Above(p)}
PairsInv ==
  /\ pairs \in Seq([o: SUBSET DOMAIN old, n: SUBSET DOMAIN new])
  /\ \A k \in DOMAIN pairs: \A p \in DOMAIN old \cap DOMAIN new: p \in pairs[k].o <=> p \in pairs[k].n
  /\ \A k, l \in DOMAIN pairs: \A r \in Roots(k), s \in Roots(l): r \in Above(s) => r = s /\ k = l

(* What is in the log: every difference but those that wait.               *)
Logged == {e \in Diff(old, new): e.at \notin Waiting}
EventsInv ==
  /\ IsInjective(events) /\ ToSet(events) = Logged
  /\ events \in Seq([kind: {"create", "remove", "modify"}, at: Names])

(* What the reader of the log knows of a name: its place in the old tree   *)
(* while the name waits, then that in the new one.                         *)
SameFor(p, f, g) == /\ p \in DOMAIN f <=> p \in DOMAIN g
                    /\ p \in DOMAIN f => f[p] = g[p]
ToldInv ==
  \A p \in Stable: SameFor(p, told, Times(IF p \in Waiting THEN old ELSE new))

CompareInv == phase = "compare" => PairsInv /\ EventsInv /\ ToldInv
IdleInv == /\ phase # "compare" => pairs = << >> /\ events = << >>
           /\ phase \in {"sleep", "scan"} => \A p \in Stable: SameFor(p, told, Times(old))

WatchInv == TreesInv /\ CompareInv /\ IdleInv

-----------------------------------------------------------------------------
(* Names and paths *)

LEMMA PlaceIs ==
  /\ \A p \in Names: Place(p) \in Nat
  /\ \A p, q \in Names: Place(p) = Place(q) => p = q
<1>1. DOMAIN Order \subseteq Nat  BY TreeAssumption
<1>2. \A p \in Names: Place(p) \in DOMAIN Order /\ Order[Place(p)] = p  BY DEF Names, ToSet, Place
<1> QED  BY <1>1, <1>2

LEMMA FirstIs ==
  ASSUME NEW S \in SUBSET Names, S # {}
  PROVE  First(S) \in S /\ \A q \in S: Place(First(S)) <= Place(q)
<1>1. {Place(p): p \in S} \in SUBSET Nat /\ {Place(p): p \in S} # {}  BY PlaceIs
<1>2. \E x \in {Place(p): p \in S}: \A y \in {Place(p): p \in S}: x <= y  BY <1>1, LeastNat
<1>3. \E p \in S: \A q \in S: Place(p) <= Place(q)  BY <1>2
<1> QED  BY <1>3 DEF First

LEMMA AboveIs ==
  ASSUME NEW p \in Names
  PROVE  /\ p \in Above(p) /\ Above(p) \subseteq Names
         /\ \A q \in Above(p): Above(q) \subseteq Above(p)
         /\ Parent[p] # Root => Parent[p] \in Names /\ Parent[p] \in Above(p)
         /\ \A S \in SUBSET Names: Closed(S) /\ p \in S => Above(p) \subseteq S
         /\ \A q \in Above(p) \ {p}: /\ Place(q) < Place(p)
                                     /\ Parent[p] # Root /\ q \in Above(Parent[p])
<1>1. p \in Above(p) /\ Above(p) \subseteq Names /\ \A q \in Above(p): Above(q) \subseteq Above(p)
  BY DEF Above
<1>2. Parent[p] # Root => Parent[p] \in Names /\ Parent[p] \in Above(p)
  BY TreeAssumption DEF Above, Closed
<1>3. \A S \in SUBSET Names: Closed(S) /\ p \in S => Above(p) \subseteq S
  BY DEF Above
<1>4. ASSUME NEW q \in Above(p) \ {p}
      PROVE  Place(q) < Place(p) /\ Parent[p] # Root /\ q \in Above(Parent[p])
  <2> DEFINE S == {r \in Names: Place(r) < Place(p)} \cup {p}
             T == {p} \cup (IF Parent[p] = Root THEN {} ELSE Above(Parent[p]))
  <2>1. S \subseteq Names /\ Closed(S) /\ p \in S
    <3>1. ASSUME NEW r \in S, Parent[r] # Root PROVE Parent[r] \in S
      <4>1. Parent[r] \in Names /\ Place(Parent[r]) < Place(r)  BY <3>1, TreeAssumption
      <4> QED  BY <4>1, PlaceIs
    <3> QED  BY <3>1 DEF Closed
  <2>2. T \subseteq Names /\ Closed(T) /\ p \in T
    <3>1. ASSUME NEW d \in Names, NEW r \in Above(d), Parent[r] # Root PROVE Parent[r] \in Above(d)
      BY <3>1, TreeAssumption DEF Above, Closed
    <3>2. Parent[p] # Root => Parent[p] \in Names /\ Parent[p] \in Above(Parent[p])
      BY <1>2 DEF Above
    <3>3. T \subseteq Names  BY DEF Above
    <3>4. ASSUME NEW r \in T, Parent[r] # Root PROVE Parent[r] \in T
      BY <3>1, <3>2, <3>4
    <3> QED  BY <3>3, <3>4 DEF Closed
  <2>3. q \in S /\ q \in T  
    <3> HIDE DEF S, T
    <3> QED  BY <1>3, <2>1, <2>2
  <2> QED  BY <2>3
<1> QED  BY <1>1, <1>2, <1>3, <1>4

(* From a name below p, the path goes through what is in p. *)
LEMMA ThroughChild ==
  ASSUME NEW q \in Names, NEW p \in Above(q), p # q
  PROVE  \E c \in Above(q): Parent[c] = p
<1> SUFFICES ASSUME \A c \in Above(q): Parent[c] # p PROVE FALSE
  OBVIOUS
<1> DEFINE S == Above(q) \ {p}
<1>1. ASSUME NEW c \in S, Parent[c] # Root PROVE Parent[c] \in S
  <2>1. c \in Names /\ Above(c) \subseteq Above(q)  BY AboveIs
  <2> QED  BY <1>1, <2>1, AboveIs
<1>2. S \subseteq Names /\ q \in S /\ Closed(S)  BY <1>1, AboveIs DEF Closed
<1> HIDE DEF S
<1>3. p \in S  BY <1>2, AboveIs
<1> QED  BY <1>3 DEF S

(* Every path begins in the watched directory. *)
LEMMA ThroughRoot ==
  ASSUME NEW q \in Names
  PROVE  \E c \in Above(q): Parent[c] = Root
<1> DEFINE c == First(Above(q))
<1>1. c \in Above(q) /\ \A r \in Above(q): Place(c) <= Place(r)
  BY AboveIs, FirstIs
<1> HIDE DEF c
<1>2. ASSUME Parent[c] # Root PROVE FALSE
  <2>1. c \in Names /\ Above(c) \subseteq Above(q)  BY <1>1, AboveIs
  <2>2. Parent[c] \in Names /\ Parent[c] \in Above(q) /\ Place(Parent[c]) < Place(c)
    BY <1>2, <2>1, AboveIs, TreeAssumption
  <2> QED  BY <1>1, <2>1, <2>2, PlaceIs
<1> QED  BY <1>1, <1>2

-----------------------------------------------------------------------------
(* Trees *)

LEMMA EmptyTree == IsTree(Empty) /\ Closed(DOMAIN Empty) /\ Files(Empty) = {}
BY DEF Empty, IsTree, Closed, Files

LEMMA WithIsTree ==
  ASSUME NEW tree, IsTree(tree), NEW p \in Names, NEW node \in [kind: {"reg", "dir"}, mtime: Nat],
         node.kind \in Kinds[p]
  PROVE  /\ IsTree(With(tree, p, node)) /\ DOMAIN With(tree, p, node) = DOMAIN tree \cup {p}
BY DEF IsTree, With

LEMMA TouchedIsTree ==
  ASSUME NEW tree, IsTree(tree), NEW d, now \in Nat
  PROVE  IsTree(Touched(tree, d)) /\ DOMAIN Touched(tree, d) = DOMAIN tree
<1>1. CASE d = Root  BY <1>1 DEF Touched
<1>2. CASE d # Root /\ d \notin DOMAIN tree
  <2>1. Touched(tree, d) = tree  BY <1>2 DEF Touched, IsTree
  <2> QED  BY <2>1
<1>3. CASE d # Root /\ d \in DOMAIN tree
  <2> DEFINE t == [tree EXCEPT ![d].mtime = now]
  <2>1. Touched(tree, d) = t /\ d \in DOMAIN tree  BY <1>3 DEF Touched
  <2>2. tree[d] \in [kind: {"reg", "dir"}, mtime: Nat]  BY <2>1 DEF IsTree
  <2>3. t[d] = [tree[d] EXCEPT !.mtime = now]  BY <2>1 DEF IsTree
  <2>4. t[d] \in [kind: {"reg", "dir"}, mtime: Nat] /\ t[d].kind = tree[d].kind  BY <2>2, <2>3
  <2>5. DOMAIN t = DOMAIN tree /\ \A p \in DOMAIN tree \ {d}: t[p] = tree[p]  OBVIOUS
  <2>6. t = [p \in DOMAIN tree |-> t[p]]  BY DEF IsTree
  <2> HIDE DEF t
  <2> QED  BY <2>1, <2>4, <2>5, <2>6 DEF IsTree
<1> QED  BY <1>1, <1>2, <1>3

LEMMA OthersKeepTree ==
  ASSUME IsTree(fs), now \in Nat, Others
  PROVE  IsTree(fs)' /\ now' \in Nat
<1>1. ASSUME NEW p \in Names, NEW k \in Kinds[p], Make(p, k) PROVE IsTree(fs)' /\ now' = now
  <2>1. p \notin DOMAIN fs /\ IsDir(fs, Parent[p]) /\ now' = now
        /\ fs' = Touched(With(fs, p, Node(k, now)), Parent[p])
    BY <1>1 DEF Make, Change
  <2>2. Node(k, now) \in [kind: {"reg", "dir"}, mtime: Nat] /\ Node(k, now).kind \in Kinds[p]
    BY TreeAssumption DEF Node
  <2>3. IsTree(With(fs, p, Node(k, now))) /\ DOMAIN With(fs, p, Node(k, now)) = DOMAIN fs \cup {p}
    BY <2>2, WithIsTree
  <2>4. IsTree(fs')  BY <2>1, <2>3, TouchedIsTree
  <2> QED  BY <2>1, <2>4 DEF IsTree
<1>2. ASSUME NEW p \in Names, Write(p) PROVE IsTree(fs)' /\ now' = now
  <2>1. p \in DOMAIN fs /\ fs' = [fs EXCEPT ![p].mtime = now] /\ now' = now
    BY <1>2 DEF Write, Change, Files
  <2>2. fs' = Touched(fs, p)  BY <1>2, <2>1, TreeAssumption DEF Touched
  <2>3. IsTree(fs')  BY <2>2, TouchedIsTree
  <2> QED  BY <2>1, <2>3 DEF IsTree
<1>3. ASSUME NEW p \in Names, Unlink(p) PROVE IsTree(fs)' /\ now' = now
  <2>1. p \in DOMAIN fs /\ now' = now /\ fs' = Touched(Without(fs, p), Parent[p])
    BY <1>3 DEF Unlink, Change
  <2>2. IsTree(Without(fs, p)) /\ DOMAIN Without(fs, p) = DOMAIN fs \ {p}  BY DEF IsTree, Without
  <2>3. IsTree(fs')  BY <2>1, <2>2, TouchedIsTree
  <2> QED  BY <2>1, <2>3 DEF IsTree
<1>4. ASSUME Tick PROVE IsTree(fs)' /\ now' \in Nat
  BY <1>4, BoundsAssumption DEF Tick, IsTree
<1> QED  BY <1>1, <1>2, <1>3, <1>4 DEF Others

LEMMA InConcat ==
  ASSUME NEW S, NEW a \in Seq(S), NEW b \in Seq(S)
  PROVE  /\ a \o b \in Seq(S)
         /\ \A k \in DOMAIN (a \o b): \/ \E i \in DOMAIN a: (a \o b)[k] = a[i]
                                      \/ \E i \in DOMAIN b: (a \o b)[k] = b[i]
<1>1. ASSUME NEW k \in DOMAIN (a \o b)
      PROVE  \/ \E i \in DOMAIN a: (a \o b)[k] = a[i]
             \/ \E i \in DOMAIN b: (a \o b)[k] = b[i]
  <2>1. Len(a) \in Nat /\ Len(b) \in Nat /\ Len(a \o b) = Len(a) + Len(b) /\ k \in 1..(Len(a) + Len(b))
    BY ConcatParts
  <2>2. CASE k <= Len(a)  
    <3>1. k \in 1..Len(a) /\ DOMAIN a = 1..Len(a)  BY <2>1, <2>2
    <3>2. (a \o b)[k] = a[k]  BY <3>1, ConcatParts
    <3> QED  BY <3>1, <3>2
  <2>3. CASE k > Len(a)
    <3> DEFINE i == k - Len(a)
    <3>1. i \in 1..Len(b) /\ k = Len(a) + i /\ DOMAIN b = 1..Len(b)  BY <2>1, <2>3
    <3>2. (a \o b)[Len(a) + i] = b[i]  BY <3>1, ConcatParts
    <3> QED  BY <3>1, <3>2
  <2> QED  BY <2>1, <2>2, <2>3
<1> QED  BY <1>1, ConcatParts

LEMMA TailOf ==
  ASSUME NEW S, NEW q \in Seq(S), q # << >>
  PROVE  /\ Head(q) \in S /\ 1 \in DOMAIN q /\ q[1] = Head(q) /\ Tail(q) \in Seq(S)
         /\ \A k \in DOMAIN Tail(q): k + 1 \in DOMAIN q /\ k \in Nat \ {0} /\ Tail(q)[k] = q[k + 1]
         /\ \A k \in DOMAIN q \ {1}: k - 1 \in DOMAIN Tail(q)
OBVIOUS

(* What make_tree has before it when it has dealt with one call. *)
LEMMA NextCalls ==
  ASSUME todo \in Seq(Calls), todo # << >>, NEW front \in Seq(Calls), NEW tree,
         DOMAIN new \subseteq DOMAIN tree,
         \A k \in DOMAIN todo: Expected(todo[k], new),
         \A k \in DOMAIN front: Expected(front[k], tree)
  PROVE  /\ front \o Tail(todo) \in Seq(Calls)
         /\ \A k \in DOMAIN (front \o Tail(todo)): Expected((front \o Tail(todo))[k], tree)
<1> DEFINE rest == Tail(todo)
<1>0. rest \in Seq(Calls) /\ front \in Seq(Calls)  BY TailOf
<1>1. \A i \in DOMAIN rest: i + 1 \in DOMAIN todo /\ rest[i] = todo[i + 1]
  BY TailOf
<1> HIDE DEF rest
<1>2. ASSUME NEW i \in DOMAIN rest PROVE Expected(rest[i], tree)
  <2>1. Expected(rest[i], new)  BY <1>1
  <2> QED  BY <2>1 DEF Expected, InTree
<1>3. front \o rest \in Seq(Calls) /\ \A k \in DOMAIN (front \o rest): Expected((front \o rest)[k], tree)
  BY <1>0, <1>2, InConcat
<1> QED  BY <1>3 DEF rest

LEMMA StatsAre ==
  ASSUME NEW S \in SUBSET Names, NEW tree, \A p \in S: InTree(Parent[p], tree)
  PROVE  Stats(S) \in Seq(Calls) /\ \A k \in DOMAIN Stats(S): Expected(Stats(S)[k], tree)
<1>1. CASE S = {}  BY <1>1 DEF Stats
<1>2. CASE S # {}
  <2> DEFINE call == [op |-> "stat", of |-> S]
  <2>0. call \in [op: {"stat"}, of: (SUBSET Names) \ {{}}] /\ call.op = "stat" /\ call.of = S
    BY <1>2
  <2>1. Stats(S) = <<call>> /\ call \in Calls /\ call.op = "stat" /\ call.of = S
    BY <1>2, <2>0 DEF Stats, Calls
  <2>2. Expected(call, tree)  BY <2>1 DEF Expected
  <2> HIDE DEF call
  <2> QED  BY <2>1, <2>2
<1> QED  BY <1>1, <1>2

(* make_tree keeps to directories that it has put into the new tree.       *)
LEMMA ListKeepsTrees ==
  ASSUME TreesInv, List
  PROVE  TreesInv'
<1> DEFINE d == Head(todo).at
           inside == IF IsDir(fs, d) THEN Children(fs, d) ELSE {}
<1>0. /\ todo \in Seq(Calls) /\ todo # << >> /\ Head(todo).op = "list" /\ IsTree(fs)
      /\ \A k \in DOMAIN todo: Expected(todo[k], new)
      /\ todo' = Stats(inside) \o Tail(todo)
      /\ fs' = fs /\ now' = now /\ phase' = phase /\ old' = old /\ new' = new
  BY DEF TreesInv, List, Call, fsVars
<1>1. Expected(Head(todo), new)  BY <1>0, TailOf
<1>2. InTree(d, new)  BY <1>0, <1>1 DEF Expected
<1>3. inside \in SUBSET Names /\ \A p \in inside: Parent[p] = d  BY <1>0 DEF Children, IsTree
<1> HIDE DEF d, inside
<1>4. Stats(inside) \in Seq(Calls) /\ \A k \in DOMAIN Stats(inside): Expected(Stats(inside)[k], new)
  BY <1>2, <1>3, StatsAre
<1>5. todo' \in Seq(Calls) /\ \A k \in DOMAIN todo': Expected(todo'[k], new)
  BY <1>0, <1>4, NextCalls
<1> QED  BY <1>0, <1>5 DEF TreesInv, IsTree, Closed

LEMMA StatKeepsTrees ==
  ASSUME TreesInv, Stat
  PROVE  TreesInv'
<1> DEFINE S == Head(todo).of
           p == First(S)
           front == IF p \in DOMAIN fs /\ fs[p].kind = "dir" THEN <<[op |-> "list", at |-> p]>> ELSE << >>
           tree == IF p \in DOMAIN fs THEN With(new, p, fs[p]) ELSE new
<1>0. /\ todo \in Seq(Calls) /\ todo # << >> /\ Head(todo).op = "stat" /\ IsTree(fs) /\ IsTree(new)
      /\ Closed(DOMAIN new) /\ \A k \in DOMAIN todo: Expected(todo[k], new)
      /\ phase \in {"first", "scan"}
  BY DEF TreesInv, Stat, Call
<1>1. fs' = fs /\ now' = now /\ phase' = phase /\ old' = old /\ new' = tree
  BY DEF Stat, fsVars
<1>2. Head(todo) \in Calls /\ Expected(Head(todo), new)  BY <1>0, TailOf
<1>3. S \in SUBSET Names /\ S # {} /\ \A q \in S: InTree(Parent[q], new)
  <2> DEFINE call == Head(todo)
  <2>1. call \in Calls /\ call.op = "stat" /\ Expected(call, new) /\ S = call.of  BY <1>0, <1>2
  <2> HIDE DEF call, S
  <2>2. call \in [op: {"stat"}, of: (SUBSET Names) \ {{}}]  BY <2>1 DEF Calls
  <2>3. \A q \in call.of: InTree(Parent[q], new)  BY <2>1 DEF Expected
  <2> QED  BY <2>1, <2>2, <2>3
<1>4. p \in S /\ p \in Names  BY <1>3, FirstIs
<1>5. IsTree(tree) /\ DOMAIN new \subseteq DOMAIN tree /\ Closed(DOMAIN tree) /\ (p \in DOMAIN fs => p \in DOMAIN tree)
  <2>1. CASE p \notin DOMAIN fs  BY <1>0, <2>1
  <2>2. CASE p \in DOMAIN fs
    <3>1. fs[p] \in [kind: {"reg", "dir"}, mtime: Nat] /\ fs[p].kind \in Kinds[p]  BY <1>0, <2>2 DEF IsTree
    <3>2. tree = With(new, p, fs[p])  BY <2>2
    <3>3. IsTree(tree) /\ DOMAIN tree = DOMAIN new \cup {p}
      <4> DEFINE node == fs[p]
      <4>1. /\ node \in [kind: {"reg", "dir"}, mtime: Nat] /\ node.kind \in Kinds[p]
            /\ tree = With(new, p, node) /\ p \in Names /\ IsTree(new)
        BY <1>0, <1>4, <3>1, <3>2
      <4> HIDE DEF node, tree, p
      <4> QED  BY <4>1, WithIsTree
    <3>4. InTree(Parent[p], new)  BY <1>3, <1>4
    <3> QED  BY <1>0, <3>3, <3>4 DEF Closed, InTree
  <2> QED  BY <2>1, <2>2
<1> DEFINE rest == Stats(S \ {p})
<1>6. rest \in Seq(Calls) /\ \A k \in DOMAIN rest: Expected(rest[k], tree)
  <2>1. S \ {p} \in SUBSET Names /\ \A q \in S \ {p}: InTree(Parent[q], tree)
    BY <1>3, <1>5 DEF InTree
  <2> HIDE DEF S, p, tree
  <2> QED  BY <2>1, StatsAre
<1>7. front \in Seq(Calls) /\ \A k \in DOMAIN front: Expected(front[k], tree)
  <2> DEFINE call == [op |-> "list", at |-> p]
  <2>0. call \in [op: {"list"}, at: Names \cup {Root}] /\ call.op = "list" /\ call.at = p  BY <1>4
  <2>1. call \in Calls /\ (p \in DOMAIN fs => Expected(call, tree))
    <3> HIDE DEF call, tree, p
    <3> QED  BY <1>5, <2>0 DEF Calls, Expected, InTree
  <2>2. front = << >> \/ (front = <<call>> /\ p \in DOMAIN fs)  OBVIOUS
  <2> HIDE DEF front, call, tree, p
  <2>3. CASE front = << >>  BY <2>3
  <2>4. CASE front = <<call>> /\ p \in DOMAIN fs
    <3>1. DOMAIN front = {1} /\ front[1] = call  BY <2>4
    <3>2. front \in Seq(Calls)  BY <2>1, <2>4
    <3> QED  BY <2>1, <2>4, <3>1, <3>2
  <2> QED  BY <2>2, <2>3, <2>4
<1>8. todo' = (front \o rest) \o Tail(todo)
  <2>1. rest \o Tail(todo) \in Seq(Calls)  BY <1>0, <1>6, TailOf, ConcatParts
  <2>2. todo' = IF p \in DOMAIN fs /\ fs[p].kind = "dir"
                  THEN <<[op |-> "list", at |-> p]>> \o (rest \o Tail(todo)) ELSE rest \o Tail(todo)
    BY DEF Stat
  <2>3. todo' = front \o (rest \o Tail(todo))
    <3> DEFINE after == rest \o Tail(todo)
    <3>1. after \in Seq(Calls)  BY <2>1
    <3> HIDE DEF after
    <3>2. << >> \o after = after  BY <3>1
    <3> QED  BY <2>2, <3>2 DEF after
  <2>4. Tail(todo) \in Seq(Calls)  BY <1>0, TailOf
  <2> HIDE DEF front, rest
  <2> QED  BY <1>6, <1>7, <2>3, <2>4, ConcatAssociative, SMTT(60)
<1>9. front \o rest \in Seq(Calls) /\ \A k \in DOMAIN (front \o rest): Expected((front \o rest)[k], tree)
  <2> HIDE DEF front, rest, tree
  <2> QED  BY <1>6, <1>7, InConcat
<1>10. todo' \in Seq(Calls) /\ \A k \in DOMAIN todo': Expected(todo'[k], tree)
  <2> DEFINE all == front \o rest
  <2>1. all \in Seq(Calls) /\ (\A k \in DOMAIN all: Expected(all[k], tree)) /\ todo' = all \o Tail(todo)
    BY <1>8, <1>9, Zenon
  <2> HIDE DEF all, tree
  <2> QED  BY <1>0, <1>5, <2>1, NextCalls
<1> HIDE DEF tree
<1>11. IsTree(fs)' /\ IsTree(old)' /\ IsTree(new)' /\ Closed(DOMAIN old)' /\ Closed(DOMAIN new)'
  BY <1>0, <1>1, <1>5 DEF TreesInv, IsTree, Closed
<1> QED  BY <1>0, <1>1, <1>10, <1>11 DEF TreesInv

LEMMA TreesKept ==
  ASSUME TreesInv, [WatchNext]_watchVars
  PROVE  TreesInv'
<1>1. ASSUME UNCHANGED <<fs, now, todo, old, new>>, phase' = phase \/ (todo = << >> /\ phase' = "compare")
      PROVE  TreesInv'
  BY <1>1 DEF TreesInv, IsTree, Closed
<1>2. CASE Others
  <2>1. IsTree(fs)' /\ now' \in Nat  BY <1>2, OthersKeepTree DEF TreesInv
  <2>2. UNCHANGED <<phase, todo, old, new>>
    BY <1>2 DEF Others, Make, Write, Unlink, Tick, Change
  <2> QED  BY <2>1, <2>2 DEF TreesInv, IsTree, Closed
<1>3. CASE Start \/ Wake
  <2> DEFINE call == [op |-> "list", at |-> Root]
  <2>1. todo' = <<call>> /\ phase' \in {"first", "scan"} /\ UNCHANGED <<fs, now, old, new>>
    BY <1>3 DEF Start, Wake, BeginScan, fsVars
  <2>2. call \in [op: {"list"}, at: Names \cup {Root}] /\ call.op = "list" /\ call.at = Root  OBVIOUS
  <2>3. call \in Calls /\ Expected(call, new)  BY <2>2 DEF Calls, Expected, InTree
  <2> HIDE DEF call
  <2>4. todo' \in Seq(Calls) /\ \A k \in DOMAIN todo': Expected(todo'[k], new)
    BY <2>1, <2>3
  <2> QED  BY <2>1, <2>4 DEF TreesInv, IsTree, Closed
<1>4. CASE FirstScanDone \/ CompareDone
  <2>1. /\ phase' = "sleep" /\ old' = new /\ new' = Empty /\ UNCHANGED <<fs, now, todo>>
    BY <1>4 DEF FirstScanDone, CompareDone, fsVars
  <2>2. todo = << >>  BY <1>4 DEF FirstScanDone, CompareDone, TreesInv
  <2> QED  BY <2>1, <2>2, EmptyTree DEF TreesInv, IsTree, Closed
<1>5. CASE Killed
  <2>1. /\ phase' = "gone" /\ todo' = << >> /\ old' = Empty /\ new' = Empty /\ UNCHANGED <<fs, now>>
    BY <1>5 DEF Killed, fsVars
  <2> QED  BY <2>1, EmptyTree DEF TreesInv, IsTree, Closed
<1>6. CASE ScanDone \/ BothEnd \/ Created \/ Removed \/ InBoth \/ UNCHANGED watchVars
  BY <1>1, <1>6 DEF ScanDone, BothEnd, Created, Removed, InBoth, Recurse, Log, Silent, watchVars, fsVars
<1> QED  BY <1>2, <1>3, <1>4, <1>5, <1>6, ListKeepsTrees, StatKeepsTrees DEF WatchNext, Daemon

-----------------------------------------------------------------------------
(* compare_tree *)

(* Two calls in the place of the first one. *)
LEMMA TwoForOne ==
  ASSUME NEW S, NEW q \in Seq(S), q # << >>, NEW a \in S, NEW b \in S
  PROVE  LET r == <<a, b>> \o Tail(q)
         IN /\ r \in Seq(S) /\ DOMAIN r = 1..(Len(q) + 1) /\ r[1] = a /\ r[2] = b
            /\ \A k \in 3..(Len(q) + 1): r[k] = q[k - 1]
<1>1. <<a, b>> \in Seq(S) /\ Len(<<a, b>>) = 2 /\ <<a, b>>[1] = a /\ <<a, b>>[2] = b  OBVIOUS
<1>2. /\ Tail(q) \in Seq(S) /\ Len(q) \in Nat \ {0} /\ Len(Tail(q)) = Len(q) - 1
      /\ \A k \in 1..(Len(q) - 1): Tail(q)[k] = q[k + 1]
  OBVIOUS
<1>3. PICK ab \in Seq(S), rest \in Seq(S): ab = <<a, b>> /\ rest = Tail(q)  BY <1>1, <1>2
<1>4. PICK r: r = ab \o rest  OBVIOUS
<1>5. /\ r \in Seq(S) /\ Len(r) = Len(ab) + Len(rest) /\ \A k \in 1..Len(ab): r[k] = ab[k]
      /\ \A k \in 1..Len(rest): r[Len(ab) + k] = rest[k]
  <2>0. ab \in Seq(S) /\ rest \in Seq(S)  BY <1>3
  <2>1. /\ ab \o rest \in Seq(S) /\ Len(ab \o rest) = Len(ab) + Len(rest)
        /\ \A k \in 1..Len(ab): (ab \o rest)[k] = ab[k]
        /\ \A k \in 1..Len(rest): (ab \o rest)[Len(ab) + k] = rest[k]
    BY <2>0, ConcatParts
  <2> QED  BY <1>4, <2>1
<1>6. Len(ab) = 2 /\ ab[1] = a /\ ab[2] = b  BY <1>1, <1>3
<1>7. Len(rest) = Len(q) - 1 /\ \A k \in 1..(Len(q) - 1): rest[k] = q[k + 1]  BY <1>2, <1>3
<1>8. DOMAIN r = 1..(Len(q) + 1) /\ r[1] = a /\ r[2] = b  BY <1>2, <1>5, <1>6, <1>7
<1>9. ASSUME NEW k \in 3..(Len(q) + 1) PROVE r[k] = q[k - 1]
  <2>1. k - 2 \in 1..(Len(q) - 1) /\ k = 2 + (k - 2) /\ k - 1 = (k - 2) + 1  BY <1>2
  <2>2. r[2 + (k - 2)] = rest[k - 2]  BY <1>5, <1>6, <1>7, <2>1
  <2>3. rest[k - 2] = q[(k - 2) + 1]  BY <1>7, <2>1
  <2> QED  BY <2>1, <2>2, <2>3
<1>10. r = <<a, b>> \o Tail(q)  BY <1>3, <1>4
<1> QED  BY <1>5, <1>8, <1>9, <1>10

(* One comparison of two siblings, or of one with none, takes that one     *)
(* name from those that wait and nothing else: what is below it waits on.  *)
Descends(p) ==
  /\ pairs' = <<Pair(O \ {p}, N \ {p}), Pair(Children(old, p), Children(new, p))>> \o Tail(pairs)
  /\ old' = old /\ new' = new

LEMMA DescendsTakesOne ==
  ASSUME TreesInv, PairsInv, pairs # << >>, NEW p \in O \cup N, Descends(p)
  PROVE  PairsInv' /\ p \in Waiting /\ Waiting' = Waiting \ {p}
<1> DEFINE Type == [o: SUBSET DOMAIN old, n: SUBSET DOMAIN new]
           one == Pair(O \ {p}, N \ {p})
           two == Pair(Children(old, p), Children(new, p))
           C == Children(old, p) \cup Children(new, p)
           D == 1..(Len(pairs) + 1)
<1>0. /\ IsTree(old) /\ IsTree(new) /\ Closed(DOMAIN old) /\ Closed(DOMAIN new)
      /\ pairs \in Seq(Type) /\ Len(pairs) \in Nat /\ DOMAIN pairs = 1..Len(pairs) /\ Len(pairs) > 0
      /\ DOMAIN old \subseteq Names /\ DOMAIN new \subseteq Names
      /\ Both' = Both /\ Both \subseteq Names
  BY DEF TreesInv, PairsInv, IsTree, Descends, Both
<1>1. /\ 1 \in DOMAIN pairs /\ pairs[1].o = O /\ pairs[1].n = N
      /\ O \subseteq DOMAIN old /\ N \subseteq DOMAIN new /\ Roots(1) = O \cup N
  <2>1. pairs[1] = Head(pairs)  OBVIOUS
  <2>2. 1 \in DOMAIN pairs /\ pairs[1] \in Type
    <3> HIDE DEF Type
    <3> QED  BY <1>0
  <2> QED  BY <2>1, <2>2 DEF O, N, Roots
<1>2. p \in Both /\ p \in Names /\ p # Root  BY <1>0, <1>1, TreeAssumption DEF Both
<1>3. /\ pairs' \in Seq(Type) /\ DOMAIN pairs' = D /\ pairs'[1] = one /\ pairs'[2] = two
      /\ \A k \in 3..(Len(pairs) + 1): pairs'[k] = pairs[k - 1]
  <2>1. one \in Type /\ two \in Type  BY <1>1 DEF Pair, Children
  <2>2. pairs' = <<one, two>> \o Tail(pairs)  BY DEF Descends
  <2> HIDE DEF one, two, Type
  <2> QED  BY <1>0, <2>1, <2>2, TwoForOne
<1>4. /\ Roots(1)' = Roots(1) \ {p} /\ Roots(2)' = C
      /\ \A k \in 3..(Len(pairs) + 1): Roots(k)' = Roots(k - 1)
  BY <1>1, <1>3 DEF Roots, Pair
<1>5. \A c \in C: /\ c \in Names /\ Parent[c] = p /\ p \in Above(c) /\ p # c
                  /\ Above(c) \subseteq Names /\ (\A q \in Above(c) \ {c}: q \in Above(p))
                  /\ c \notin Above(p)
  <2> TAKE c \in C
  <2>1. c \in Names /\ Parent[c] = p  BY <1>0 DEF Children
  <2>2. Place(p) < Place(c) /\ p \in Above(c) /\ Above(c) \subseteq Names
        /\ \A q \in Above(c) \ {c}: q \in Above(p)
    BY <1>2, <2>1, AboveIs, TreeAssumption
  <2>3. p # c /\ c \notin Above(p)  BY <1>2, <2>1, <2>2, PlaceIs, AboveIs
  <2> QED  BY <2>1, <2>2, <2>3
<1> DEFINE Was(k) == IF k <= 2 THEN 1 ELSE k - 1
<1>6. \A k \in D \ {2}: Was(k) \in DOMAIN pairs /\ Roots(k)' \subseteq Roots(Was(k)) \ {p}
  <2> TAKE k \in D \ {2}
  <2>1. CASE k = 1  BY <1>1, <1>4, <2>1
  <2>2. CASE k # 1
    <3>1. k \in 3..(Len(pairs) + 1) /\ k - 1 \in DOMAIN pairs /\ Was(k) = k - 1 /\ k - 1 # 1  BY <1>0, <2>2
    <3>2. Roots(k)' = Roots(k - 1)  BY <1>4, <3>1
    <3>3. p \notin Roots(k - 1)
      <4>1. p \in Roots(1) /\ p \in Above(p)  BY <1>1, <1>2, AboveIs
      <4> QED  BY <1>1, <3>1, <4>1 DEF PairsInv
    <3> QED  BY <3>1, <3>2, <3>3
  <2> QED  BY <2>1, <2>2
<1>7. \A k, l \in D \ {2}: Was(k) = Was(l) => k = l  BY <1>0
<1>8. \A k \in DOMAIN pairs: \A r \in Roots(k): r \in Above(p) \/ p \in Above(r) => r = p /\ k = 1
  BY <1>1 DEF PairsInv
<1>9. \A q \in Names: \A r \in Above(q): r \in Names /\ Above(r) \subseteq Above(q)
  BY AboveIs
<1> HIDE DEF Was, C, D, one, two, Type
<1>10. ASSUME NEW k \in D, NEW l \in D, NEW r \in Roots(k)', NEW s \in Roots(l)', r \in Above(s)
       PROVE  r = s /\ k = l
  <2>1. CASE k # 2 /\ l # 2
    <3>1. Was(k) \in DOMAIN pairs /\ Was(l) \in DOMAIN pairs /\ r \in Roots(Was(k)) /\ s \in Roots(Was(l))
      BY <1>6, <2>1
    <3>2. r = s /\ Was(k) = Was(l)  BY <1>10, <3>1 DEF PairsInv
    <3> QED  BY <1>7, <2>1, <3>2
  <2>2. CASE k # 2 /\ l = 2
    <3>1. Was(k) \in DOMAIN pairs /\ r \in Roots(Was(k)) /\ r # p /\ s \in C
      BY <1>4, <1>6, <2>2
    <3>2. r \notin Above(p) /\ p \notin Above(r)  BY <1>8, <3>1
    <3> QED  BY <1>5, <1>10, <3>1, <3>2
  <2>3. CASE k = 2 /\ l # 2
    <3>1. Was(l) \in DOMAIN pairs /\ s \in Roots(Was(l)) /\ s # p /\ r \in C
      BY <1>4, <1>6, <2>3
    <3>2. p \notin Above(s) /\ s \in Names  
      <4>1. pairs[Was(l)] \in Type  BY <1>0, <3>1
      <4>2. s \in Names  BY <1>0, <3>1, <4>1 DEF Type, Roots
      <4> QED  BY <1>8, <3>1, <4>2
    <3>3. p \in Above(r) /\ Above(r) \subseteq Above(s)  BY <1>5, <1>9, <1>10, <3>1, <3>2
    <3> QED  BY <3>2, <3>3
  <2>4. CASE k = 2 /\ l = 2
    <3>1. r \in C /\ s \in C  BY <1>4, <2>4
    <3> QED  BY <1>5, <1>10, <2>4, <3>1
  <2> QED  BY <2>1, <2>2, <2>3, <2>4
<1>11. ASSUME NEW k \in D, NEW q \in DOMAIN old \cap DOMAIN new
       PROVE  q \in pairs'[k].o <=> q \in pairs'[k].n
  <2>1. CASE k = 1
    <3>1. q \in O <=> q \in N  BY <1>1 DEF PairsInv
    <3> QED  BY <1>3, <2>1, <3>1 DEF one, Pair
  <2>2. CASE k = 2  BY <1>3, <2>2 DEF two, Pair, Children
  <2>3. CASE k \notin {1, 2}
    <3>1. k \in 3..(Len(pairs) + 1) /\ k - 1 \in DOMAIN pairs  BY <1>0, <2>3 DEF D
    <3> QED  BY <1>3, <3>1 DEF PairsInv
  <2> QED  BY <2>1, <2>2, <2>3
<1>12. PairsInv'
  <2>1. old' = old /\ new' = new  BY DEF Descends
  <2>2. \A k \in DOMAIN pairs': \A q \in DOMAIN old \cap DOMAIN new: q \in pairs'[k].o <=> q \in pairs'[k].n
    BY <1>3, <1>11
  <2>3. \A k, l \in DOMAIN pairs': \A r \in Roots(k)', s \in Roots(l)': r \in Above(s) => r = s /\ k = l
    BY <1>3, <1>10
  <2> QED  BY <1>3, <2>1, <2>2, <2>3 DEF PairsInv, Type
<1>13. p \in Waiting  BY <1>1, <1>2, AboveIs DEF Waiting
<1>14. ASSUME NEW q \in Waiting, q # p PROVE q \in Waiting'
  <2>1. PICK k \in DOMAIN pairs: \E r \in Roots(k): r \in Above(q)  BY DEF Waiting
  <2>2. PICK r \in Roots(k): r \in Above(q)  BY <2>1
  <2>3. q \in Both /\ q \in Names  BY <1>0 DEF Waiting
  <2>4. CASE r # p
    <3> DEFINE l == IF k = 1 THEN 1 ELSE k + 1
    <3>1. l \in D /\ (k # 1 => l \in 3..(Len(pairs) + 1) /\ l - 1 = k) /\ (k = 1 => l = 1)
      BY <1>0 DEF D
    <3>2. r \in Roots(l)'  BY <1>4, <2>4, <3>1
    <3> QED  BY <1>0, <1>3, <2>2, <2>3, <3>1, <3>2 DEF Waiting
  <2>5. CASE r = p
    <3>1. PICK c \in Above(q): Parent[c] = p  BY <1>14, <2>2, <2>3, <2>5, ThroughChild
    <3>2. c \in C
      <4>1. Above(q) \subseteq DOMAIN old \/ Above(q) \subseteq DOMAIN new
        BY <1>0, <2>3, AboveIs DEF Both
      <4> QED  BY <3>1, <4>1 DEF C, Children
    <3>3. c \in Roots(2)' /\ 2 \in D  BY <1>0, <1>4, <3>2 DEF D
    <3> QED  BY <1>0, <1>3, <2>3, <3>1, <3>3 DEF Waiting
  <2> QED  BY <2>4, <2>5
<1>15. ASSUME NEW q \in Waiting' PROVE q \in Waiting /\ q # p
  <2>1. PICK k \in D: \E r \in Roots(k)': r \in Above(q)  BY <1>3 DEF Waiting
  <2>2. PICK r \in Roots(k)': r \in Above(q)  BY <2>1
  <2>3. q \in Both /\ q \in Names  BY <1>0 DEF Waiting
  <2>4. CASE k # 2
    <3>1. Was(k) \in DOMAIN pairs /\ r \in Roots(Was(k)) /\ r # p  BY <1>6, <2>4
    <3>2. q # p  BY <1>8, <2>2, <3>1
    <3> QED  BY <2>2, <2>3, <3>1, <3>2 DEF Waiting
  <2>5. CASE k = 2
    <3>1. r \in C  BY <1>4, <2>5
    <3>2. p \in Above(q)  BY <1>5, <1>9, <2>2, <2>3, <3>1
    <3>3. q # p  BY <1>5, <2>2, <3>1
    <3> QED  BY <1>1, <2>3, <3>2, <3>3 DEF Waiting
  <2> QED  BY <2>4, <2>5
<1> QED  BY <1>12, <1>13, <1>14, <1>15

(* The first pair of lists has the entries of the watched directory, below *)
(* which is everything.                                                    *)
AtFirst == pairs = <<Pair(Children(old, Root), Children(new, Root))>>

LEMMA AllWaitAtFirst == TreesInv /\ AtFirst => PairsInv /\ Waiting = Both
<1> SUFFICES ASSUME TreesInv, AtFirst PROVE PairsInv /\ Waiting = Both
  OBVIOUS
<1> DEFINE Type == [o: SUBSET DOMAIN old, n: SUBSET DOMAIN new]
           one == Pair(Children(old, Root), Children(new, Root))
<1>0. /\ IsTree(old) /\ IsTree(new) /\ Closed(DOMAIN old) /\ Closed(DOMAIN new)
      /\ DOMAIN old \subseteq Names /\ DOMAIN new \subseteq Names /\ Both \subseteq Names
  BY DEF TreesInv, IsTree, Both
<1>1. one \in Type /\ DOMAIN pairs = {1} /\ pairs[1] = one /\ pairs \in Seq(Type)
  <2>1. one \in Type  BY DEF Pair, Children
  <2> HIDE DEF one, Type
  <2>2. pairs = <<one>>  BY DEF AtFirst, one
  <2> QED  BY <2>1, <2>2
<1>2. one.o = Children(old, Root) /\ one.n = Children(new, Root)  BY DEF Pair
<1>3. Roots(1) = {p \in Both: Parent[p] = Root}  BY <1>1, <1>2 DEF Roots, Children, Both
<1> HIDE DEF one
<1>4. PairsInv
  <2>1. \A k \in DOMAIN pairs: \A p \in DOMAIN old \cap DOMAIN new: p \in pairs[k].o <=> p \in pairs[k].n
    BY <1>1, <1>2 DEF Children
  <2>2. \A k, l \in DOMAIN pairs: \A r \in Roots(k), s \in Roots(l): r \in Above(s) => r = s /\ k = l
    BY <1>0, <1>1, <1>3, AboveIs
  <2> QED  BY <1>1, <2>1, <2>2 DEF PairsInv
<1>5. ASSUME NEW q \in Both PROVE q \in Waiting
  <2>1. q \in Names  BY <1>0
  <2>2. PICK c \in Above(q): Parent[c] = Root  BY <2>1, ThroughRoot
  <2>3. Above(q) \subseteq DOMAIN old \/ Above(q) \subseteq DOMAIN new
    BY <1>0, <2>1, AboveIs DEF Both
  <2>4. c \in Roots(1)  BY <1>3, <2>2, <2>3 DEF Both
  <2> QED  BY <1>1, <2>2, <2>4 DEF Waiting
<1> QED  BY <1>4, <1>5 DEF Waiting

LEMMA NoneWaitBelowNone ==
  ASSUME TreesInv, PairsInv, BothEnd
  PROVE  PairsInv' /\ Waiting' = Waiting
<1> DEFINE Type == [o: SUBSET DOMAIN old, n: SUBSET DOMAIN new]
           rest == Tail(pairs)
<1>0. pairs \in Seq(Type) /\ pairs # << >> /\ Head(pairs).o = {} /\ Head(pairs).n = {}
      /\ pairs' = rest /\ old' = old /\ new' = new /\ Both' = Both
  BY DEF PairsInv, BothEnd, Comparing, O, N, Both
<1> HIDE DEF Type
<1>1. /\ rest \in Seq(Type) /\ pairs[1] = Head(pairs)
      /\ \A k \in DOMAIN rest: k + 1 \in DOMAIN pairs /\ k \in Nat \ {0} /\ rest[k] = pairs[k + 1]
      /\ \A k \in DOMAIN pairs \ {1}: k \in Nat /\ k - 1 \in DOMAIN rest
  BY <1>0, TailOf
<1> HIDE DEF rest
<1>2. Roots(1) = {} /\ \A k \in DOMAIN rest: Roots(k)' = Roots(k + 1)
  BY <1>0, <1>1 DEF Roots
<1>3. \A k \in DOMAIN rest: k + 1 \in DOMAIN pairs /\ k + 1 # 1  BY <1>1
<1>4. \A k, l \in DOMAIN rest: k + 1 = l + 1 => k = l  BY <1>1
<1>5. PairsInv'
  <2>1. \A k \in DOMAIN pairs': \A p \in DOMAIN old \cap DOMAIN new: p \in pairs'[k].o <=> p \in pairs'[k].n
    BY <1>0, <1>1 DEF PairsInv
  <2>2. \A k, l \in DOMAIN pairs': \A r \in Roots(k)', s \in Roots(l)': r \in Above(s) => r = s /\ k = l
    BY <1>0, <1>2, <1>3, <1>4 DEF PairsInv
  <2> QED  BY <1>0, <1>1, <2>1, <2>2 DEF PairsInv, Type
<1>6. ASSUME NEW q \in Waiting PROVE q \in Waiting'
  <2>1. PICK k \in DOMAIN pairs: \E r \in Roots(k): r \in Above(q)  BY DEF Waiting
  <2>2. k - 1 \in DOMAIN rest /\ (k - 1) + 1 = k  BY <1>1, <1>2, <2>1
  <2>3. Roots(k - 1)' = Roots(k)  BY <1>2, <2>2
  <2> QED  BY <1>0, <2>1, <2>2, <2>3 DEF Waiting
<1>7. ASSUME NEW q \in Waiting' PROVE q \in Waiting
  BY <1>0, <1>2, <1>3, <1>7 DEF Waiting
<1> QED  BY <1>5, <1>6, <1>7

LEMMA Appended ==
  ASSUME NEW S, NEW q \in Seq(S), IsInjective(q), NEW e \in S, e \notin ToSet(q)
  PROVE  /\ Append(q, e) \in Seq(S) /\ IsInjective(Append(q, e))
         /\ ToSet(Append(q, e)) = ToSet(q) \cup {e}
<1> DEFINE r == Append(q, e)
<1>1. /\ r \in Seq(S) /\ Len(q) \in Nat /\ DOMAIN q = 1..Len(q) /\ DOMAIN r = 1..(Len(q) + 1)
      /\ r[Len(q) + 1] = e /\ \A k \in 1..Len(q): r[k] = q[k]
  OBVIOUS
<1> HIDE DEF r
<1>2. \A k \in DOMAIN q: q[k] # e  BY DEF ToSet
<1>3. IsInjective(r)
  <2>1. ASSUME NEW k \in DOMAIN r, NEW l \in DOMAIN r, r[k] = r[l] PROVE k = l
    <3>1. CASE k \in DOMAIN q /\ l \in DOMAIN q
      <4>1. q[k] = q[l]  BY <1>1, <2>1, <3>1
      <4> QED  BY <3>1, <4>1 DEF IsInjective
    <3>2. CASE k \notin DOMAIN q \/ l \notin DOMAIN q
      <4>1. \A i \in DOMAIN r: i \notin DOMAIN q => i = Len(q) + 1  BY <1>1
      <4>2. \A i \in DOMAIN q: r[i] # e  BY <1>1, <1>2
      <4> QED  BY <1>1, <2>1, <3>2, <4>1, <4>2
    <3> QED  BY <3>1, <3>2
  <2> QED  BY <2>1 DEF IsInjective
<1>4. ASSUME NEW x PROVE x \in ToSet(r) <=> x \in ToSet(q) \cup {e}
  <2>1. x \in ToSet(r) <=> \E k \in DOMAIN r: r[k] = x  BY DEF ToSet
  <2>2. x \in ToSet(q) <=> \E k \in DOMAIN q: q[k] = x  BY DEF ToSet
  <2>3. \A k \in DOMAIN r: k \in DOMAIN q \/ k = Len(q) + 1  BY <1>1
  <2>4. \A k \in DOMAIN q: k \in DOMAIN r /\ r[k] = q[k]  BY <1>1
  <2>5. Len(q) + 1 \in DOMAIN r /\ r[Len(q) + 1] = e  BY <1>1
  <2> QED  BY <2>1, <2>2, <2>3, <2>4, <2>5
<1> QED  BY <1>1, <1>3, <1>4 DEF r

(* When a name is compared, its difference is logged if there is one, and   *)
(* from then on the log tells of it what the new tree does.                *)
DiffersAt(p) == {e \in Diff(old, new): e.at = p}
Told(p) == p \in Stable => SameFor(p, told, Times(new))'

LEMMA ComparedIsLogged ==
  ASSUME TreesInv, EventsInv, ToldInv, NEW p \in Waiting, Waiting' = Waiting \ {p},
         old' = old, new' = new, Told(p),
         \/ DiffersAt(p) = {} /\ Silent
         \/ \E kind \in {"create", "remove", "modify"}:
              DiffersAt(p) = {[kind |-> kind, at |-> p]} /\ Log(kind, p)
  PROVE  EventsInv' /\ ToldInv'
<1> DEFINE Event == [kind: {"create", "remove", "modify"}, at: Names]
<1>0. Diff(old, new)' = Diff(old, new) /\ Times(old)' = Times(old) /\ Times(new)' = Times(new)
      /\ p \in Names
  BY DEF Diff, Files, Times, TreesInv, IsTree, Waiting, Both
<1>1. Logged' = Logged \cup DiffersAt(p) /\ \A e \in Logged: e.at # p
  BY <1>0 DEF Logged, DiffersAt
<1>2. EventsInv'
  <2>1. CASE DiffersAt(p) = {} /\ Silent
    <3>1. events' = events /\ Logged' = Logged  BY <1>1, <2>1 DEF Silent
    <3> QED  BY <3>1 DEF EventsInv
  <2>2. ASSUME NEW kind \in {"create", "remove", "modify"}, DiffersAt(p) = {[kind |-> kind, at |-> p]},
               Log(kind, p)
        PROVE  EventsInv'
    <3> DEFINE e == [kind |-> kind, at |-> p]
    <3>1. e \in Event /\ e.at = p /\ events' = Append(events, e) /\ Logged' = Logged \cup {e}
      BY <1>0, <1>1, <2>2 DEF Log
    <3> HIDE DEF e
    <3>2. e \notin ToSet(events)  BY <1>1, <3>1 DEF EventsInv
    <3>3. events \in Seq(Event) /\ IsInjective(events) /\ ToSet(events) = Logged  BY DEF EventsInv
    <3> HIDE DEF Event
    <3>4. /\ events' \in Seq(Event) /\ IsInjective(events') /\ ToSet(events') = ToSet(events) \cup {e}
      <4>1. e \in Event /\ events \in Seq(Event)  BY <3>1, <3>3
      <4>2. /\ Append(events, e) \in Seq(Event) /\ IsInjective(Append(events, e))
            /\ ToSet(Append(events, e)) = ToSet(events) \cup {e}
        BY <3>2, <3>3, <4>1, Appended
      <4> QED  BY <3>1, <4>2
    <3> QED  BY <3>1, <3>3, <3>4 DEF EventsInv, Event
  <2> QED  BY <2>1, <2>2
<1>3. ASSUME NEW x \in Stable
      PROVE  SameFor(x, told, Times(IF x \in Waiting THEN old ELSE new))'
  <2>1. CASE x = p
    <3>1. x \notin Waiting'  BY <2>1
    <3>2. SameFor(x, told', Times(new'))  BY <2>1 DEF Told
    <3> QED  BY <3>1, <3>2
  <2>2. CASE x # p
    <3>1. x \in Waiting' <=> x \in Waiting  BY <2>2
    <3>2. x \in DOMAIN told' <=> x \in DOMAIN told  BY <2>2 DEF Silent, Log, With, Without
    <3>3. x \in DOMAIN told => told'[x] = told[x]  BY <2>2 DEF Silent, Log, With, Without
    <3>4. SameFor(x, told, Times(IF x \in Waiting THEN old ELSE new))  BY DEF ToldInv
    <3> QED  BY <1>0, <3>1, <3>2, <3>3, <3>4 DEF SameFor
  <2> QED  BY <2>1, <2>2
<1> QED  BY <1>2, <1>3 DEF ToldInv

(* A name that is always of one kind is of that kind in both trees.        *)
LEMMA StableIs ==
  ASSUME TreesInv, NEW p \in Stable, p \in DOMAIN old, p \in DOMAIN new
  PROVE  old[p].kind = new[p].kind
<1>1. old[p].kind \in Kinds[p] /\ new[p].kind \in Kinds[p] /\ Kinds[p] \subseteq {"reg", "dir"}
  BY TreeAssumption DEF TreesInv, IsTree, Stable
<1>2. IsFiniteSet({"reg", "dir"})
  <2>1. IsFiniteSet({"reg"})  BY FS_Singleton
  <2>2. {"reg", "dir"} = {"reg"} \cup {"dir"}  OBVIOUS
  <2> QED  BY <2>1, <2>2, FS_AddElement
<1>3. IsFiniteSet(Kinds[p]) /\ Cardinality(Kinds[p]) = 1  BY <1>1, <1>2, FS_Subset DEF Stable
<1>4. PICK k: Kinds[p] = {k}  BY <1>3, FS_Singleton
<1> QED  BY <1>1, <1>4

LEMMA SiblingsAre ==
  ASSUME TreesInv, PairsInv, pairs # << >>
  PROVE  /\ O \subseteq DOMAIN old /\ N \subseteq DOMAIN new
         /\ DOMAIN old \subseteq Names /\ DOMAIN new \subseteq Names
         /\ \A q \in DOMAIN old \cap DOMAIN new: q \in O <=> q \in N
<1> DEFINE Type == [o: SUBSET DOMAIN old, n: SUBSET DOMAIN new]
<1>1. pairs \in Seq(Type)  BY DEF PairsInv
<1>2. pairs[1] = Head(pairs)  OBVIOUS
<1>3. 1 \in DOMAIN pairs /\ pairs[1] \in Type
  <2> HIDE DEF Type
  <2> QED  BY <1>1
<1> QED  BY <1>2, <1>3 DEF O, N, PairsInv, TreesInv, IsTree

LEMMA ChildrenOfNone ==
  ASSUME TreesInv, NEW p \in Names
  PROVE  /\ p \notin DOMAIN old => Children(old, p) = {}
         /\ p \notin DOMAIN new => Children(new, p) = {}
<1>1. p # Root /\ Closed(DOMAIN old) /\ Closed(DOMAIN new)  BY TreeAssumption DEF TreesInv
<1>2. \A q \in DOMAIN old: Parent[q] = p => p \in DOMAIN old  BY <1>1 DEF Closed
<1>3. \A q \in DOMAIN new: Parent[q] = p => p \in DOMAIN new  BY <1>1 DEF Closed
<1> QED  BY <1>2, <1>3 DEF Children

LEMMA TimesAre ==
  ASSUME NEW tree, NEW p
  PROVE  /\ p \in DOMAIN Times(tree) <=> p \in Files(tree)
         /\ p \in Files(tree) => Times(tree)[p] = tree[p].mtime
BY DEF Times

(* What the log has to say of a name, so that it tells of the new tree.    *)
LEMMA ToldWhen ==
  ASSUME NEW p, new' = new,
         IF p \in Files(new) THEN p \in DOMAIN told' /\ told'[p] = new[p].mtime ELSE p \notin DOMAIN told'
  PROVE  Told(p)
<1>1. SameFor(p, told', Times(new))  BY TimesAre DEF SameFor
<1>2. Times(new') = Times(new)  OBVIOUS
<1> QED  BY <1>1, <1>2 DEF Told

(* Each branch of compare_tree deals with one name in this way: a name that *)
(* one list is past, or has not, is not in that tree.                      *)
LEMMA CreatedKeeps ==
  ASSUME TreesInv, PairsInv, EventsInv, ToldInv, Created
  PROVE  PairsInv' /\ EventsInv' /\ ToldInv'
<1> DEFINE p == First(N)
<1>0. /\ pairs # << >> /\ N # {} /\ (O # {} => Place(First(O)) > Place(p))
      /\ old' = old /\ new' = new
      /\ pairs' = <<Pair(O, N \ {p}), Pair({}, Children(new, p))>> \o Tail(pairs)
      /\ IF p \in Files(new) THEN Log("create", p) ELSE Silent
  BY DEF Created, Comparing, Recurse
<1>1. O \subseteq DOMAIN old /\ N \subseteq DOMAIN new /\ DOMAIN old \subseteq Names /\ DOMAIN new \subseteq Names
      /\ \A q \in DOMAIN old \cap DOMAIN new: q \in O <=> q \in N
  BY <1>0, SiblingsAre
<1>2. p \in N /\ \A q \in N: Place(p) <= Place(q)  BY <1>0, <1>1, FirstIs
<1>3. p \in Names /\ p \in DOMAIN new  BY <1>1, <1>2
<1>4. p \notin O
  <2>1. O # {} => \A q \in O: Place(First(O)) <= Place(q) /\ First(O) \in O  BY <1>1, FirstIs
  <2> HIDE DEF p
  <2> QED  BY <1>0, <1>1, <1>3, <2>1, PlaceIs
<1>5. p \notin DOMAIN old  BY <1>1, <1>2, <1>3, <1>4
<1>6. Children(old, p) = {}  BY <1>3, <1>5, ChildrenOfNone
<1> HIDE DEF p
<1>7. Descends(p)
  <2>1. O \ {p} = O  BY <1>4
  <2> QED  BY <1>0, <1>6, <2>1 DEF Descends
<1>8. PairsInv' /\ p \in Waiting /\ Waiting' = Waiting \ {p}
  <2>1. p \in O \cup N  BY <1>2
  <2> QED  BY <1>0, <1>7, <2>1, DescendsTakesOne
<1>9. SameFor(p, told, Times(old)) \/ p \notin Stable  BY <1>8 DEF ToldInv
<1>10. CASE p \in Files(new)
  <2>1. DiffersAt(p) = {[kind |-> "create", at |-> p]}  BY <1>5, <1>10 DEF DiffersAt, Diff, Files
  <2>2. Log("create", p)  BY <1>0, <1>10
  <2>3. p \in DOMAIN told' /\ told'[p] = new[p].mtime  BY <2>2 DEF Log, With
  <2>4. Told(p)  BY <1>0, <1>10, <2>3, ToldWhen
  <2> QED  BY <1>0, <1>8, <2>1, <2>2, <2>4, ComparedIsLogged
<1>11. CASE p \notin Files(new)
  <2>1. DiffersAt(p) = {}  BY <1>5, <1>11 DEF DiffersAt, Diff, Files
  <2>2. Silent  BY <1>0, <1>11
  <2>3. p \notin Files(old)  BY <1>5 DEF Files
  <2>4. p \in Stable => p \notin DOMAIN told
    BY <1>11, <1>9, <2>3, TimesAre DEF SameFor
  <2>5. Told(p)
    <3>1. CASE p \in Stable
      <4>1. told' = told /\ p \notin DOMAIN told /\ p \notin Files(new)  BY <1>11, <2>2, <2>3, <2>4, <3>1 DEF Silent
      <4> QED  BY <1>0, <4>1, ToldWhen
    <3>2. CASE p \notin Stable  BY <3>2 DEF Told
    <3> QED  BY <3>1, <3>2
  <2> QED  BY <1>0, <1>8, <2>1, <2>2, <2>5, ComparedIsLogged
<1> QED  BY <1>10, <1>11

LEMMA RemovedKeeps ==
  ASSUME TreesInv, PairsInv, EventsInv, ToldInv, Removed
  PROVE  PairsInv' /\ EventsInv' /\ ToldInv'
<1> DEFINE p == First(O)
<1>0. /\ pairs # << >> /\ O # {} /\ (N # {} => Place(p) < Place(First(N)))
      /\ old' = old /\ new' = new
      /\ pairs' = <<Pair(O \ {p}, N), Pair(Children(old, p), {})>> \o Tail(pairs)
      /\ IF p \in Files(old) THEN Log("remove", p) ELSE Silent
  BY DEF Removed, Comparing, Recurse
<1>1. O \subseteq DOMAIN old /\ N \subseteq DOMAIN new /\ DOMAIN old \subseteq Names /\ DOMAIN new \subseteq Names
      /\ \A q \in DOMAIN old \cap DOMAIN new: q \in O <=> q \in N
  BY <1>0, SiblingsAre
<1>2. p \in O /\ \A q \in O: Place(p) <= Place(q)  BY <1>0, <1>1, FirstIs
<1>3. p \in Names /\ p \in DOMAIN old  BY <1>1, <1>2
<1>4. p \notin N
  <2>1. N # {} => \A q \in N: Place(First(N)) <= Place(q) /\ First(N) \in N  BY <1>1, FirstIs
  <2> HIDE DEF p
  <2> QED  BY <1>0, <1>1, <1>3, <2>1, PlaceIs
<1>5. p \notin DOMAIN new  BY <1>1, <1>2, <1>3, <1>4
<1>6. Children(new, p) = {}  BY <1>3, <1>5, ChildrenOfNone
<1> HIDE DEF p
<1>7. Descends(p)
  <2>1. N \ {p} = N  BY <1>4
  <2> QED  BY <1>0, <1>6, <2>1 DEF Descends
<1>8. PairsInv' /\ p \in Waiting /\ Waiting' = Waiting \ {p}
  <2>1. p \in O \cup N  BY <1>2
  <2> QED  BY <1>0, <1>7, <2>1, DescendsTakesOne
<1>9. SameFor(p, told, Times(old)) \/ p \notin Stable  BY <1>8 DEF ToldInv
<1>10. CASE p \in Files(old)
  <2>1. DiffersAt(p) = {[kind |-> "remove", at |-> p]}  BY <1>5, <1>10 DEF DiffersAt, Diff, Files
  <2>2. Log("remove", p)  BY <1>0, <1>10
  <2>3. p \notin DOMAIN told' /\ p \notin Files(new)  BY <1>5, <2>2 DEF Log, Without, Files
  <2>4. Told(p)  BY <1>0, <2>3, ToldWhen
  <2> QED  BY <1>0, <1>8, <2>1, <2>2, <2>4, ComparedIsLogged
<1>11. CASE p \notin Files(old)
  <2>1. DiffersAt(p) = {}  BY <1>5, <1>11 DEF DiffersAt, Diff, Files
  <2>2. Silent  BY <1>0, <1>11
  <2>3. p \notin Files(new)  BY <1>5 DEF Files
  <2>4. p \in Stable => p \notin DOMAIN told
    BY <1>11, <1>9, <2>3, TimesAre DEF SameFor
  <2>5. Told(p)
    <3>1. CASE p \in Stable
      <4>1. told' = told /\ p \notin DOMAIN told /\ p \notin Files(new)  BY <1>11, <2>2, <2>3, <2>4, <3>1 DEF Silent
      <4> QED  BY <1>0, <4>1, ToldWhen
    <3>2. CASE p \notin Stable  BY <3>2 DEF Told
    <3> QED  BY <3>1, <3>2
  <2> QED  BY <1>0, <1>8, <2>1, <2>2, <2>5, ComparedIsLogged
<1> QED  BY <1>10, <1>11

LEMMA InBothKeeps ==
  ASSUME TreesInv, PairsInv, EventsInv, ToldInv, InBoth
  PROVE  PairsInv' /\ EventsInv' /\ ToldInv'
<1> DEFINE p == First(O)
<1>0. /\ pairs # << >> /\ O # {} /\ N # {} /\ p = First(N)
      /\ old' = old /\ new' = new
      /\ pairs' = <<Pair(O \ {p}, N \ {p}), Pair(Children(old, p), Children(new, p))>> \o Tail(pairs)
      /\ IF old[p].mtime # new[p].mtime /\ p \in Files(new) THEN Log("modify", p) ELSE Silent
  BY DEF InBoth, Comparing, Recurse
<1>1. O \subseteq DOMAIN old /\ N \subseteq DOMAIN new /\ DOMAIN old \subseteq Names /\ DOMAIN new \subseteq Names
  BY <1>0, SiblingsAre
<1>2. p \in O /\ p \in N  BY <1>0, <1>1, FirstIs
<1> HIDE DEF p
<1>3. p \in DOMAIN old /\ p \in DOMAIN new  BY <1>1, <1>2
<1>4. Descends(p)  BY <1>0 DEF Descends
<1>5. PairsInv' /\ p \in Waiting /\ Waiting' = Waiting \ {p}
  <2>1. p \in O \cup N  BY <1>2
  <2> QED  BY <1>0, <1>4, <2>1, DescendsTakesOne
<1>6. SameFor(p, told, Times(old)) \/ p \notin Stable  BY <1>5 DEF ToldInv
<1>7. p \in Stable => old[p].kind = new[p].kind  BY <1>3, StableIs
<1>8. CASE old[p].mtime # new[p].mtime /\ p \in Files(new)
  <2>1. DiffersAt(p) = {[kind |-> "modify", at |-> p]}  BY <1>3, <1>8 DEF DiffersAt, Diff, Files
  <2>2. Log("modify", p)  BY <1>0, <1>8
  <2>3. p \in DOMAIN told' /\ told'[p] = new[p].mtime  BY <2>2 DEF Log, With
  <2>4. Told(p)  BY <1>0, <1>8, <2>3, ToldWhen
  <2> QED  BY <1>0, <1>5, <2>1, <2>2, <2>4, ComparedIsLogged
<1>9. CASE ~(old[p].mtime # new[p].mtime /\ p \in Files(new))
  <2>1. DiffersAt(p) = {}  BY <1>3, <1>9 DEF DiffersAt, Diff, Files
  <2>2. Silent  BY <1>0, <1>9
  <2>3. p \in Stable => (p \in Files(new) <=> p \in Files(old))  BY <1>3, <1>7 DEF Files
  <2>4. p \in Stable => IF p \in Files(new) THEN p \in DOMAIN told /\ told[p] = new[p].mtime
                                             ELSE p \notin DOMAIN told
    BY <1>6, <1>9, <2>3, TimesAre DEF SameFor
  <2>5. Told(p)
    <3>1. CASE p \in Stable
      <4>1. told' = told  BY <2>2 DEF Silent
      <4> QED  BY <1>0, <2>4, <3>1, <4>1, ToldWhen
    <3>2. CASE p \notin Stable  BY <3>2 DEF Told
    <3> QED  BY <3>1, <3>2
  <2> QED  BY <1>0, <1>5, <2>1, <2>2, <2>5, ComparedIsLogged
<1> QED  BY <1>8, <1>9

-----------------------------------------------------------------------------
(* The daemon's rounds *)

(* Nothing else but compare_tree changes what it works on.                 *)
LEMMA CompareKept ==
  ASSUME UNCHANGED <<old, new, pairs, events, told>>
  PROVE  /\ PairsInv <=> PairsInv'
         /\ EventsInv <=> EventsInv'
         /\ ToldInv <=> ToldInv'
BY DEF PairsInv, EventsInv, ToldInv, Roots, Waiting, Both, Logged, Diff, Files, Times, SameFor

LEMMA WatchInvInit == WatchInit => WatchInv
<1> SUFFICES ASSUME WatchInit PROVE WatchInv
  OBVIOUS
<1>1. TreesInv  BY EmptyTree, BoundsAssumption DEF WatchInit, TreesInv
<1>2. CompareInv /\ IdleInv  BY DEF WatchInit, CompareInv, IdleInv
<1> QED  BY <1>1, <1>2 DEF WatchInv

LEMMA WatchInvStep == WatchInv /\ [WatchNext]_watchVars => WatchInv'
<1> SUFFICES ASSUME WatchInv, [WatchNext]_watchVars PROVE WatchInv'
  OBVIOUS
<1>0. TreesInv /\ CompareInv /\ IdleInv /\ TreesInv'  BY TreesKept DEF WatchInv
<1>1. ASSUME UNCHANGED <<phase, old, pairs, events, told>>, new' = new \/ phase # "compare"
      PROVE  CompareInv' /\ IdleInv'
  <2>1. CompareInv'
    <3>1. CASE new' = new  BY <1>0, <1>1, <3>1, CompareKept DEF CompareInv
    <3>2. CASE phase # "compare"  BY <1>1, <3>2 DEF CompareInv
    <3> QED  BY <1>1, <3>1, <3>2
  <2>2. IdleInv'  BY <1>0, <1>1, SMTT(60) DEF IdleInv, SameFor, Times, Files
  <2> QED  BY <2>1, <2>2
<1>2. CASE Others \/ List \/ Stat \/ UNCHANGED watchVars
  <2>1. UNCHANGED <<phase, old, pairs, events, told>> /\ (new' = new \/ phase # "compare")
    BY <1>2 DEF Others, Make, Write, Unlink, Tick, Change, List, Stat, Call, watchVars, fsVars
  <2> QED  BY <1>0, <1>1, <2>1 DEF WatchInv
<1>3. CASE Start \/ Wake
  <2>1. /\ UNCHANGED <<old, new, pairs, events, told>> /\ phase # "compare" /\ phase' \in {"first", "scan"}
        /\ phase' = "scan" => phase = "sleep"
    BY <1>3 DEF Start, Wake, BeginScan
  <2>2. IdleInv'  BY <1>0, <2>1 DEF IdleInv, SameFor, Times, Files
  <2> QED  BY <1>0, <2>1, <2>2 DEF WatchInv, CompareInv
<1>4. CASE FirstScanDone
  <2>1. phase # "compare" /\ phase' = "sleep" /\ old' = new /\ told' = Times(new) /\ UNCHANGED <<pairs, events>>
    BY <1>4 DEF FirstScanDone
  <2>2. Times(old)' = told'  BY <2>1 DEF Times, Files
  <2>3. IdleInv'  BY <1>0, <2>1, <2>2 DEF IdleInv, SameFor
  <2> QED  BY <1>0, <2>1, <2>3 DEF WatchInv, CompareInv
<1>5. CASE ScanDone
  <2>1. /\ phase = "scan" /\ phase' = "compare" /\ UNCHANGED <<old, new, events, told>>
        /\ pairs' = <<Pair(Children(old, Root), Children(new, Root))>>
    BY <1>5 DEF ScanDone
  <2>2. AtFirst'  BY <2>1 DEF AtFirst, Children, Pair
  <2>3. PairsInv' /\ Waiting' = Both'
    <3>1. (TreesInv /\ AtFirst => PairsInv /\ Waiting = Both)'  BY AllWaitAtFirst, PTL
    <3> QED  BY <1>0, <2>2, <3>1
  <2>4. events' = << >>  BY <1>0, <2>1 DEF IdleInv
  <2>5. Logged' = {}
    <3>1. \A e \in Diff(old, new): e.at \in Both  BY DEF Diff, Files, Both
    <3> QED  BY <2>1, <2>3, <3>1 DEF Logged, Diff, Files, Both
  <2>6. EventsInv'  BY <2>4, <2>5 DEF EventsInv, IsInjective, ToSet
  <2>7. ASSUME NEW p \in Stable PROVE SameFor(p, told, Times(IF p \in Waiting THEN old ELSE new))'
    <3>1. SameFor(p, told, Times(old))  BY <1>0, <2>1 DEF IdleInv
    <3>2. CASE p \in Both  BY <2>1, <2>3, <3>1, <3>2 DEF Both, SameFor, Times, Files
    <3>3. CASE p \notin Both
      <4>1. p \notin Files(old) /\ p \notin Files(new)  BY <3>3 DEF Both, Files
      <4>2. p \notin DOMAIN told  BY <3>1, <4>1, TimesAre DEF SameFor
      <4>3. p \notin Waiting'  BY <2>1, <2>3, <3>3 DEF Both
      <4>4. SameFor(p, told, Times(new))  BY <4>1, <4>2, TimesAre DEF SameFor
      <4> QED  BY <2>1, <4>3, <4>4 DEF SameFor, Times, Files
    <3> QED  BY <3>2, <3>3
  <2>8. ToldInv'  BY <2>7 DEF ToldInv
  <2> QED  BY <1>0, <2>1, <2>3, <2>6, <2>8 DEF WatchInv, CompareInv, IdleInv
<1>6. CASE BothEnd \/ Created \/ Removed \/ InBoth
  <2>1. phase = "compare" /\ phase' = phase /\ PairsInv /\ EventsInv /\ ToldInv
    BY <1>0, <1>6 DEF BothEnd, Created, Removed, InBoth, Comparing, Recurse, CompareInv
  <2>2. CASE BothEnd
    <3>1. UNCHANGED <<old, new, events, told>>  BY <2>2 DEF BothEnd, Silent
    <3>2. PairsInv' /\ Waiting' = Waiting  BY <1>0, <2>1, <2>2, NoneWaitBelowNone
    <3>3. EventsInv'
      <4>1. Logged' = Logged  BY <3>1, <3>2 DEF Logged, Diff, Files
      <4> QED  BY <2>1, <3>1, <4>1 DEF EventsInv
    <3>4. ToldInv'
      <4>1. Times(old)' = Times(old) /\ Times(new)' = Times(new)  BY <3>1 DEF Times, Files
      <4>2. ASSUME NEW p \in Stable PROVE SameFor(p, told, Times(IF p \in Waiting THEN old ELSE new))'
        <5>1. SameFor(p, told, Times(IF p \in Waiting THEN old ELSE new))  BY <2>1 DEF ToldInv
        <5>2. CASE p \in Waiting  BY <3>1, <3>2, <4>1, <5>1, <5>2 DEF SameFor
        <5>3. CASE p \notin Waiting  BY <3>1, <3>2, <4>1, <5>1, <5>3 DEF SameFor
        <5> QED  BY <5>2, <5>3
      <4> QED  BY <4>2 DEF ToldInv
    <3> QED  BY <1>0, <2>1, <3>2, <3>3, <3>4 DEF WatchInv, CompareInv, IdleInv
  <2>3. (PairsInv' /\ EventsInv' /\ ToldInv') \/ BothEnd
    BY <1>0, <1>6, <2>1, CreatedKeeps, RemovedKeeps, InBothKeeps
  <2> QED  BY <1>0, <2>1, <2>2, <2>3 DEF WatchInv, CompareInv, IdleInv
<1>7. CASE CompareDone
  <2>1. /\ phase = "compare" /\ pairs = << >> /\ phase' = "sleep" /\ old' = new /\ events' = << >>
        /\ UNCHANGED <<pairs, told>>
    BY <1>7 DEF CompareDone
  <2>2. Waiting = {}  BY <2>1 DEF Waiting
  <2>3. \A p \in Stable: SameFor(p, told, Times(new))  BY <1>0, <2>1, <2>2 DEF CompareInv, ToldInv
  <2>4. IdleInv'  BY <2>1, <2>3 DEF IdleInv, SameFor, Times, Files
  <2> QED  BY <1>0, <2>1, <2>4 DEF WatchInv, CompareInv
<1>8. CASE Killed
  BY <1>0, <1>8 DEF Killed, WatchInv, CompareInv, IdleInv
<1> QED  BY <1>2, <1>3, <1>4, <1>5, <1>6, <1>7, <1>8 DEF WatchNext, Daemon

LEMMA WatchInvHolds == WatchSpec => []WatchInv
BY WatchInvInit, WatchInvStep, PTL DEF WatchSpec

-----------------------------------------------------------------------------
(* For any names, however other programs change the tree and whenever the  *)
(* daemon is killed, compare_tree logs every difference of its two trees   *)
(* once and nothing else.                                                  *)
THEOREM DiffExactCorrect == WatchSpec => []DiffExact
<1>1. WatchInv => DiffExact
  <2> SUFFICES ASSUME WatchInv, phase = "compare", pairs = << >>
               PROVE  IsInjective(events) /\ ToSet(events) = Diff(old, new)
    BY DEF DiffExact
  <2>1. Waiting = {}  BY DEF Waiting
  <2>2. Logged = Diff(old, new)  BY <2>1 DEF Logged
  <2> QED  BY <2>2 DEF WatchInv, CompareInv, EventsInv
<1> QED  BY <1>1, WatchInvHolds, PTL

(* Between two rounds, whoever replays log.txt over the first tree has the *)
(* files and times of the latest one, for all names of one kind.           *)
THEOREM LogReplaysCorrect == WatchSpec => []LogReplays
<1>1. WatchInv => LogReplays
  <2> SUFFICES ASSUME WatchInv, phase = "sleep" PROVE OfStable(told) = OfStable(Times(old))
    BY DEF LogReplays
  <2>1. \A p \in Stable: SameFor(p, told, Times(old))  BY DEF WatchInv, IdleInv
  <2>2. DOMAIN told \cap Stable = DOMAIN Times(old) \cap Stable  BY <2>1 DEF SameFor
  <2>3. \A p \in DOMAIN told \cap Stable: told[p] = Times(old)[p]  BY <2>1 DEF SameFor
  <2> QED  BY <2>2, <2>3 DEF OfStable
<1> QED  BY <1>1, WatchInvHolds, PTL
=============================================================================
