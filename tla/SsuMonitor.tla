----------------------------- MODULE SsuMonitor ------------------------------
(***************************************************************************)
(* ssu_monitor: the prompts (shells) started in one directory, the daemons *)
(* they fork, and the two files they share there, monitor_list.txt and     *)
(* temp.txt.  A step is one system call that touches a shared file or      *)
(* another process, or one pass of a loop over a private buffer.           *)
(*                                                                         *)
(* Files are inodes under names, as the kernel keeps them: fopen resolves  *)
(* a name, remove and rename change what a name means, and a stream goes   *)
(* on reading or writing the inode it was opened on.                       *)
(***************************************************************************)
EXTENDS Integers, Sequences

CONSTANTS
  Shells,      \* the ssu_monitor prompts
  Paths,       \* absolute names of existing directories
  CharPrefix,  \* <<p, q>> such that the name p is a prefix of the name q
  Pids,        \* process ids the daemons get (bound: |Pids| daemons at a time)
  Inodes,      \* inodes of the two files and of their unlinked predecessors
               \* (bound: enough that a step which creates a file finds one)
  NoFile, NoPath, NoPid,
  Patient,     \* TRUE: a user enters a command only when no other one runs
               \* and every daemon forked before has written its line
  Faults,      \* TRUE: fork, fopen of log.txt and daemons may fail
  Interrupts   \* TRUE: a shell may be killed in the middle of a command

ASSUME ModesAssumption == /\ Patient \in BOOLEAN
                          /\ Faults \in BOOLEAN
                          /\ Interrupts \in BOOLEAN
ASSUME InodesAssumption == Inodes \subseteq Nat
ASSUME NoneAssumption == NoFile \notin Inodes /\ NoPath \notin Paths /\ NoPid \notin Pids
ASSUME PrefixAssumption == /\ CharPrefix \subseteq Paths \X Paths
                           /\ \A p \in Paths: <<p, p>> \in CharPrefix

VARIABLES
  list, temp,  \* the inode monitor_list.txt and temp.txt name, or NoFile
  data,        \* per inode, the lines of the file
  pc,          \* per shell, the next step of the command it executes
  cmd,         \* per shell, the command ("none" at the prompt)
  path,        \* per shell, real_path of an add or a tree
  target,      \* per shell, the pid argument of a delete
  fp, tfp,     \* per shell, the inodes its streams fp and temp_fp are open on
  lines,       \* per shell, the lines buffered by fp and not yet read
  kept,        \* per shell, the lines buffered in temp_fp and not yet written
  found,       \* per shell, is_exist_pid of a delete
  st,          \* per pid, the phase of the daemon that has it
  dir,         \* per pid, the directory it watches
  dfp          \* per pid, the inode its stream fp is open on

fileVars   == <<list, temp, data>>
inputVars  == <<cmd, path, target>>
streamVars == <<fp, tfp>>
deleteVars == <<lines, kept, found>>
daemonVars == <<st, dir, dfp>>
vars == <<fileVars, pc, inputVars, streamVars, deleteVars, daemonVars>>

-----------------------------------------------------------------------------
(* A line of monitor_list.txt: "<dirpath> <pid>". *)
Entry  == [dir: Paths, pid: Pids]

Phases == {"none", "forked", "opened", "registered", "watching"}
Steps  == {"prompt", "exited", "create", "open", "add_scan", "add_fork",
           "tree_scan", "del_temp", "del_read", "del_line", "del_flush",
           "del_remove", "del_rename", "del_kill"}

TypeOK ==
  /\ list \in Inodes \cup {NoFile} /\ temp \in Inodes \cup {NoFile}
  /\ data \in [Inodes -> Seq(Entry)]
  /\ pc \in [Shells -> Steps]
  /\ cmd \in [Shells -> {"none", "add", "delete", "tree"}]
  /\ path \in [Shells -> Paths \cup {NoPath}]
  /\ target \in [Shells -> Pids \cup {NoPid}]
  /\ fp \in [Shells -> Inodes \cup {NoFile}]
  /\ tfp \in [Shells -> Inodes \cup {NoFile}]
  /\ lines \in [Shells -> Seq(Entry)]
  /\ kept \in [Shells -> Seq(Entry)]
  /\ found \in [Shells -> BOOLEAN]
  /\ st \in [Pids -> Phases]
  /\ dir \in [Pids -> Paths \cup {NoPath}]
  /\ dfp \in [Pids -> Inodes \cup {NoFile}]

Init ==
  /\ list = NoFile /\ temp = NoFile
  /\ data = [i \in Inodes |-> << >>]
  /\ pc = [s \in Shells |-> "prompt"]
  /\ cmd = [s \in Shells |-> "none"]
  /\ path = [s \in Shells |-> NoPath]
  /\ target = [s \in Shells |-> NoPid]
  /\ fp = [s \in Shells |-> NoFile]
  /\ tfp = [s \in Shells |-> NoFile]
  /\ lines = [s \in Shells |-> << >>]
  /\ kept = [s \in Shells |-> << >>]
  /\ found = [s \in Shells |-> FALSE]
  /\ st = [p \in Pids |-> "none"]
  /\ dir = [p \in Pids |-> NoPath]
  /\ dfp = [p \in Pids |-> NoFile]

-----------------------------------------------------------------------------
(* Helpers. *)

(* A slip: only the directories inside a watched one are refused. *)
ClashBelowOnly(p, q) == <<q, p>> \in CharPrefix

Clash(p, q) == <<p, q>> \in CharPrefix \/ <<q, p>> \in CharPrefix

Live(p)    == st[p] # "none"
Pending(p) == st[p] \in {"forked", "opened"}
Idle(s)    == pc[s] \in {"prompt", "exited"}

Lines(i) == {data[i][k]: k \in DOMAIN data[i]}
Listed   == IF list = NoFile THEN {} ELSE Lines(list)
Watching == {[dir |-> dir[p], pid |-> p]: p \in {q \in Pids: Live(q)}}

(* No name and no stream refers to the inode. *)
Unused(i) == /\ i \notin {list, temp}
             /\ \A s \in Shells: i \notin {fp[s], tfp[s]}
             /\ \A p \in Pids: i # dfp[p]

(* The inode open(2) creates a file on.  Inodes are only ever compared, so *)
(* taking the lowest free one loses no behaviour.                          *)
Fresh(i) == Unused(i) /\ \A j \in Inodes: Unused(j) => i <= j

(* Bytes written at offset 0 over a file; lines stand for equal lengths. *)
Overlay(new, old) == new \o SubSeq(old, Len(new) + 1, Len(old))

(* Back to the prompt (or out of the process): streams and locals are gone. *)
Leave(s, at) ==
  /\ pc' = [pc EXCEPT ![s] = at]
  /\ cmd' = [cmd EXCEPT ![s] = "none"]
  /\ path' = [path EXCEPT ![s] = NoPath]
  /\ target' = [target EXCEPT ![s] = NoPid]
  /\ fp' = [fp EXCEPT ![s] = NoFile]
  /\ tfp' = [tfp EXCEPT ![s] = NoFile]
  /\ lines' = [lines EXCEPT ![s] = << >>]
  /\ kept' = [kept EXCEPT ![s] = << >>]
  /\ found' = [found EXCEPT ![s] = FALSE]

Goto(s, at) == pc' = [pc EXCEPT ![s] = at]

(* The daemon of pid p is gone; its line, if it wrote one, stays. *)
Die(p) == /\ st' = [st EXCEPT ![p] = "none"]
          /\ dir' = [dir EXCEPT ![p] = NoPath]
          /\ dfp' = [dfp EXCEPT ![p] = NoFile]

-----------------------------------------------------------------------------
(* The prompt and the opening of monitor_list.txt, which add, delete and   *)
(* tree share.                                                             *)

Ready(s) ==
  /\ pc[s] = "prompt"
  /\ Patient => \A t \in Shells: Idle(t)
  /\ Patient => \A p \in Pids: ~Pending(p)

(* access(monitor_list, F_OK): whether the file exists is decided here. *)
Access(s, c) ==
  /\ Ready(s)
  /\ cmd' = [cmd EXCEPT ![s] = c]
  /\ Goto(s, IF list = NoFile THEN "create" ELSE "open")
  /\ UNCHANGED <<fileVars, streamVars, deleteVars, daemonVars>>

AddCommand(s, d) ==
  /\ Access(s, "add")
  /\ path' = [path EXCEPT ![s] = d]
  /\ UNCHANGED target

TreeCommand(s, d) ==
  /\ Access(s, "tree")
  /\ path' = [path EXCEPT ![s] = d]
  /\ UNCHANGED target

DeleteCommand(s, p) ==
  /\ Access(s, "delete")
  /\ target' = [target EXCEPT ![s] = p]
  /\ UNCHANGED path

ExitCommand(s) ==
  /\ pc[s] = "prompt"
  /\ Leave(s, "exited")
  /\ UNCHANGED <<fileVars, daemonVars>>

(* Somebody runs ssu_monitor in this directory again. *)
ShellStart(s) ==
  /\ pc[s] = "exited"
  /\ Goto(s, "prompt")
  /\ UNCHANGED <<fileVars, inputVars, streamVars, deleteVars, daemonVars>>

Opened(s) == CASE cmd[s] = "add"    -> "add_scan"
               [] cmd[s] = "delete" -> "del_temp"
               [] OTHER             -> "tree_scan"

(* fopen(monitor_list, "w+"): creates the file, or empties the one that    *)
(* appeared since access().                                                *)
OpenNew(s) ==
  /\ pc[s] = "create"
  /\ \E i \in Inodes:
       /\ IF list = NoFile THEN Fresh(i) ELSE i = list
       /\ list' = i
       /\ data' = [data EXCEPT ![i] = << >>]
       /\ fp' = [fp EXCEPT ![s] = i]
  /\ Goto(s, Opened(s))
  /\ UNCHANGED <<temp, inputVars, tfp, deleteVars, daemonVars>>

(* fopen(monitor_list, "r+"). *)
Open(s) ==
  /\ pc[s] = "open"
  /\ list # NoFile
  /\ fp' = [fp EXCEPT ![s] = list]
  /\ Goto(s, Opened(s))
  /\ UNCHANGED <<fileVars, inputVars, tfp, deleteVars, daemonVars>>

(* The file was there at access() and is not any more: exit(1). *)
OpenFails(s) ==
  /\ pc[s] = "open"
  /\ list = NoFile
  /\ Leave(s, "exited")
  /\ UNCHANGED <<fileVars, daemonVars>>

-----------------------------------------------------------------------------
(* add: except_add's scan, then init_daemon's fork. *)

(* A slip: what except_add returns is ignored. *)
AddScanIgnored(s) ==
  /\ pc[s] = "add_scan"
  /\ fp' = [fp EXCEPT ![s] = NoFile]
  /\ Goto(s, "add_fork")
  /\ UNCHANGED <<fileVars, inputVars, tfp, deleteVars, daemonVars>>

AddScan(s) ==
  /\ pc[s] = "add_scan"
  /\ \A e \in Lines(fp[s]): ~Clash(path[s], e.dir)
  /\ fp' = [fp EXCEPT ![s] = NoFile]
  /\ Goto(s, "add_fork")
  /\ UNCHANGED <<fileVars, inputVars, tfp, deleteVars, daemonVars>>

AddRefused(s) ==
  /\ pc[s] = "add_scan"
  /\ \E e \in Lines(fp[s]): Clash(path[s], e.dir)
  /\ Leave(s, "prompt")
  /\ UNCHANGED <<fileVars, daemonVars>>

(* The two forks of init_daemon and make_daemon; the parent goes back to   *)
(* its prompt at once.                                                     *)
AddFork(s) ==
  /\ pc[s] = "add_fork"
  /\ \E p \in Pids:
       /\ ~Live(p)
       /\ st' = [st EXCEPT ![p] = "forked"]
       /\ dir' = [dir EXCEPT ![p] = path[s]]
  /\ Leave(s, "prompt")
  /\ UNCHANGED <<fileVars, dfp>>

(* fork() < 0: nothing is forked, and "monitoring started" is printed. *)
AddForkFails(s) ==
  /\ pc[s] = "add_fork"
  /\ Faults \/ \A p \in Pids: Live(p)
  /\ Leave(s, "prompt")
  /\ UNCHANGED <<fileVars, daemonVars>>

(* tree: except_tree's scan; what it prints changes nothing. *)
TreeScan(s) ==
  /\ pc[s] = "tree_scan"
  /\ Leave(s, "prompt")
  /\ UNCHANGED <<fileVars, daemonVars>>

-----------------------------------------------------------------------------
(* delete *)

(* A slip: an existing temp.txt is opened without emptying it. *)
DelOpenTempOld(s) ==
  /\ pc[s] = "del_temp"
  /\ \E i \in Inodes:
       /\ IF temp = NoFile THEN Fresh(i) ELSE i = temp
       /\ temp' = i
       /\ data' = IF temp = NoFile THEN [data EXCEPT ![i] = << >>] ELSE data
       /\ tfp' = [tfp EXCEPT ![s] = i]
  /\ Goto(s, "del_read")
  /\ UNCHANGED <<list, inputVars, fp, deleteVars, daemonVars>>

(* fopen("temp.txt", "w"): creates it or empties it. *)
DelOpenTemp(s) ==
  /\ pc[s] = "del_temp"
  /\ \E i \in Inodes:
       /\ IF temp = NoFile THEN Fresh(i) ELSE i = temp
       /\ temp' = i
       /\ data' = [data EXCEPT ![i] = << >>]
       /\ tfp' = [tfp EXCEPT ![s] = i]
  /\ Goto(s, "del_read")
  /\ UNCHANGED <<list, inputVars, fp, deleteVars, daemonVars>>

(* The first fgets fills the stream's buffer with the whole small file. *)
DelRead(s) ==
  /\ pc[s] = "del_read"
  /\ lines' = [lines EXCEPT ![s] = data[fp[s]]]
  /\ Goto(s, "del_line")
  /\ UNCHANGED <<fileVars, inputVars, streamVars, kept, found, daemonVars>>

(* Slips of the copying loop, as what each pass does with its line. *)
DelLineAs(s, keep, rest) ==
  /\ pc[s] = "del_line"
  /\ lines[s] # << >>
  /\ LET line == Head(lines[s]) IN
       /\ found' = [found EXCEPT ![s] = @ \/ line.pid = target[s]]
       /\ kept' = [kept EXCEPT ![s] = keep]
  /\ lines' = [lines EXCEPT ![s] = rest]
  /\ UNCHANGED <<fileVars, pc, inputVars, streamVars, daemonVars>>

(* Only the pid of a line is copied. *)
DelLineCut(s) ==
  lines[s] # << >> /\ LET line == Head(lines[s]) IN
    DelLineAs(s, IF line.pid = target[s] THEN kept[s] ELSE Append(kept[s], line.pid),
                 Tail(lines[s]))

(* The loop is left at the line that is looked for. *)
DelLineBreak(s) ==
  lines[s] # << >> /\ LET line == Head(lines[s]) IN
    DelLineAs(s, IF line.pid = target[s] THEN kept[s] ELSE Append(kept[s], line),
                 IF line.pid = target[s] THEN << >> ELSE Tail(lines[s]))

(* The loop reads the same line again. *)
DelLineAgain(s) ==
  lines[s] # << >> /\ DelLineAs(s, kept[s], lines[s])

DelLine(s) ==
  /\ pc[s] = "del_line"
  /\ lines[s] # << >>
  /\ LET line == Head(lines[s]) IN
       /\ IF line.pid = target[s]
            THEN /\ found' = [found EXCEPT ![s] = TRUE]
                 /\ UNCHANGED kept
            ELSE /\ kept' = [kept EXCEPT ![s] = Append(kept[s], line)]
                 /\ UNCHANGED found
  /\ lines' = [lines EXCEPT ![s] = Tail(lines[s])]
  /\ UNCHANGED <<fileVars, pc, inputVars, streamVars, daemonVars>>

DelLinesDone(s) ==
  /\ pc[s] = "del_line"
  /\ lines[s] = << >>
  /\ Goto(s, "del_flush")
  /\ UNCHANGED <<fileVars, inputVars, streamVars, deleteVars, daemonVars>>

(* fclose(fp), fclose(temp_fp): the buffered lines reach temp_fp's inode,  *)
(* whatever name it has by now.                                            *)
Flushed(s) == data' = [data EXCEPT ![tfp[s]] = Overlay(kept[s], data[tfp[s]])]

(* A slip: temp_fp is still open, and unwritten, when the list is removed. *)
DelFlushLate(s) ==
  /\ pc[s] = "del_flush"
  /\ found[s]
  /\ Goto(s, "del_remove")
  /\ UNCHANGED <<fileVars, inputVars, streamVars, deleteVars, daemonVars>>

DelFlush(s) ==
  /\ pc[s] = "del_flush"
  /\ found[s]
  /\ Flushed(s)
  /\ fp' = [fp EXCEPT ![s] = NoFile]
  /\ tfp' = [tfp EXCEPT ![s] = NoFile]
  /\ kept' = [kept EXCEPT ![s] = << >>]
  /\ Goto(s, "del_remove")
  /\ UNCHANGED <<list, temp, inputVars, lines, found, daemonVars>>

(* No such pid: temp.txt stays behind, a copy of the list. *)
DelUnknown(s) ==
  /\ pc[s] = "del_flush"
  /\ ~found[s]
  /\ Flushed(s)
  /\ Leave(s, "prompt")
  /\ UNCHANGED <<list, temp, daemonVars>>

(* remove(monitor_list) *)
DelRemove(s) ==
  /\ pc[s] = "del_remove"
  /\ list' = NoFile
  /\ Goto(s, "del_rename")
  /\ UNCHANGED <<temp, data, inputVars, streamVars, deleteVars, daemonVars>>

(* rename("temp.txt", monitor_list): fails, unnoticed, without a temp.txt. *)
DelRename(s) ==
  /\ pc[s] = "del_rename"
  /\ list' = IF temp = NoFile THEN list ELSE temp
  /\ temp' = NoFile
  /\ Goto(s, "del_kill")
  /\ UNCHANGED <<data, inputVars, streamVars, deleteVars, daemonVars>>

(* A slip: the signal is one the daemon ignores. *)
DelKillIgnored(s) ==
  /\ pc[s] = "del_kill"
  /\ Leave(s, "prompt")
  /\ UNCHANGED <<fileVars, daemonVars>>

(* kill_daemon: no handler for SIGUSR1 is installed, its default action    *)
(* ends the process in whatever phase it is.                               *)
DelKill(s) ==
  /\ pc[s] = "del_kill"
  /\ Die(target[s])
  /\ Leave(s, "prompt")
  /\ UNCHANGED fileVars

(* The shell is killed; its buffered output is lost with it. *)
ShellKilled(s) ==
  /\ Interrupts
  /\ ~Idle(s)
  /\ Leave(s, "exited")
  /\ UNCHANGED <<fileVars, daemonVars>>

-----------------------------------------------------------------------------
(* The daemon *)

(* A slip: the daemon tries again as long as a shell has the list open. *)
DaemonOpenListAlone(p) ==
  /\ st[p] = "forked" /\ list # NoFile
  /\ \A s \in Shells: fp[s] # list
  /\ dfp' = [dfp EXCEPT ![p] = list]
  /\ st' = [st EXCEPT ![p] = "opened"]
  /\ UNCHANGED <<fileVars, pc, inputVars, streamVars, deleteVars, dir>>

(* fopen(monitor_list, "a+") creates the file if it is missing. *)
DaemonOpenList(p) ==
  /\ st[p] = "forked"
  /\ \E i \in Inodes:
       /\ IF list = NoFile THEN Fresh(i) ELSE i = list
       /\ list' = i
       /\ data' = IF list = NoFile THEN [data EXCEPT ![i] = << >>] ELSE data
       /\ dfp' = [dfp EXCEPT ![p] = i]
  /\ st' = [st EXCEPT ![p] = "opened"]
  /\ UNCHANGED <<temp, pc, inputVars, streamVars, deleteVars, dir>>

(* fprintf, fflush, fclose: O_APPEND puts the line at the end of the inode. *)
DaemonAppend(p) ==
  /\ st[p] = "opened"
  /\ data' = [data EXCEPT ![dfp[p]] = Append(data[dfp[p]], [dir |-> dir[p], pid |-> p])]
  /\ dfp' = [dfp EXCEPT ![p] = NoFile]
  /\ st' = [st EXCEPT ![p] = "registered"]
  /\ UNCHANGED <<list, temp, pc, inputVars, streamVars, deleteVars, dir>>

(* fopen(logPath, "a+") and into the loop. *)
DaemonOpenLog(p) ==
  /\ st[p] = "registered"
  /\ st' = [st EXCEPT ![p] = "watching"]
  /\ UNCHANGED <<fileVars, pc, inputVars, streamVars, deleteVars, dir, dfp>>

(* make_daemon's fork fails, or log.txt cannot be opened, or free_tree     *)
(* reads a node it has freed: the process ends.                            *)
DaemonFails(p) ==
  /\ Faults
  /\ st[p] \in {"forked", "registered", "watching"}
  /\ Die(p)
  /\ UNCHANGED <<fileVars, pc, inputVars, streamVars, deleteVars>>

-----------------------------------------------------------------------------
CommandStep(s) ==
  \/ OpenNew(s) \/ Open(s) \/ OpenFails(s)
  \/ AddScan(s) \/ AddRefused(s) \/ AddFork(s) \/ AddForkFails(s)
  \/ TreeScan(s)
  \/ DelOpenTemp(s) \/ DelRead(s) \/ DelLine(s) \/ DelLinesDone(s)
  \/ DelFlush(s) \/ DelUnknown(s)
  \/ DelRemove(s) \/ DelRename(s) \/ DelKill(s)

UserStep(s) ==
  \/ \E d \in Paths: AddCommand(s, d) \/ TreeCommand(s, d)
  \/ \E p \in Pids: DeleteCommand(s, p)
  \/ ExitCommand(s) \/ ShellStart(s) \/ ShellKilled(s)

DaemonStart(p) == DaemonOpenList(p) \/ DaemonAppend(p) \/ DaemonOpenLog(p)

Next == \/ \E s \in Shells: CommandStep(s) \/ UserStep(s)
        \/ \E p \in Pids: DaemonStart(p) \/ DaemonFails(p)

Spec == Init /\ [][Next]_vars

(* The kernel schedules every runnable process; the user owes nothing. *)
FairSpec == /\ Spec
            /\ \A s \in Shells: WF_vars(CommandStep(s))
            /\ \A p \in Pids: WF_vars(DaemonStart(p))
-----------------------------------------------------------------------------
(* Properties *)

(* Line 117-124's comments: a directory that is monitored, contained in a  *)
(* monitored one, or containing one, is not monitored a second time.       *)
NoOverlap ==
  \A p, q \in Pids: p # q /\ Live(p) /\ Live(q) => <<dir[p], dir[q]>> \notin CharPrefix

Registered == {w \in Watching: ~Pending(w.pid)}
Quiet      == (\A s \in Shells: Idle(s)) /\ (\A p \in Pids: ~Pending(p))

(* Between commands every daemon can be found, and so ended, through the   *)
(* list: no rewrite of the file by delete loses a line.                    *)
AllListed == Quiet => Registered \subseteq Listed

(* Where nothing fails, the list between commands has no line of a daemon  *)
(* that was ended: its directory can be added again.                       *)
NoStaleLine == Quiet => Listed \subseteq Registered

(* When delete removes the old list, the new one in temp.txt has every     *)
(* other line: a shell that dies before rename has lost nothing.           *)
NothingLostAtRemove ==
  [][\A s \in Shells: DelRemove(s) =>
       \A e \in Listed: e.pid # target[s] => temp # NoFile /\ e \in Lines(temp)]_vars

WR == INSTANCE WatchRegistry WITH watched <- Watching

(* The prompts and daemons together implement the registry of watches.     *)
ImplementsRegistry == WR!Spec

(* A delete of a daemon that is watching ends it and takes its line away.  *)
DeleteEnds ==
  \A s \in Shells, p \in Pids:
    cmd[s] = "delete" /\ target[s] = p /\ st[p] = "watching"
      ~> Idle(s) /\ ~Live(p) /\ \A e \in Listed: e.pid # p

(* An accepted add ends with a daemon that watches (or has died).          *)
AddTakesEffect == \A p \in Pids: st[p] = "forked" ~> st[p] \in {"watching", "none"}

(* Every command comes back to the prompt, or the shell has exited.        *)
CommandsEnd == \A s \in Shells: ~Idle(s) ~> Idle(s)
-----------------------------------------------------------------------------
(* Inductive invariants *)

(* What each step finds in the shell's and the daemon's variables, however *)
(* the processes interleave.                                               *)
At(s, steps) == pc[s] \in steps

Shape ==
  /\ \A s \in Shells:
       /\ At(s, {"create", "open"}) => cmd[s] # "none"
       /\ At(s, {"create", "open"}) /\ cmd[s] = "add" => path[s] \in Paths
       /\ At(s, {"create", "open"}) /\ cmd[s] = "delete" => target[s] \in Pids
       /\ At(s, {"add_scan", "add_fork"}) => path[s] \in Paths
       /\ At(s, {"del_temp", "del_read", "del_line", "del_flush",
                 "del_remove", "del_rename", "del_kill"}) => target[s] \in Pids
       /\ At(s, {"add_scan", "tree_scan", "del_temp", "del_read"}) => fp[s] \in Inodes
       /\ At(s, {"del_read", "del_line", "del_flush"}) => tfp[s] \in Inodes
  /\ \A p \in Pids:
       /\ Live(p) => dir[p] \in Paths
       /\ st[p] = "opened" => dfp[p] \in Inodes

TypeInv == TypeOK /\ Shape

(* The patient user: commands and start-ups take turns. *)
OneAtATime ==
  /\ \A s, t \in Shells: ~Idle(s) /\ ~Idle(t) => s = t
  /\ \A p \in Pids: Pending(p) => \A s \in Shells: Idle(s)
  /\ \A p, q \in Pids: Pending(p) /\ Pending(q) => p = q

(* ... so that nobody else touches the files a command works on. *)
FilesOwned ==
  /\ list = temp => list = NoFile
  /\ \A s \in Shells:
       /\ At(s, {"create", "del_rename"}) => list = NoFile
       /\ At(s, {"open", "add_scan", "del_temp", "del_read", "del_line",
                 "del_flush", "del_remove"}) => list # NoFile
       /\ At(s, {"add_scan", "del_read", "del_temp"}) => fp[s] = list
       /\ At(s, {"del_read", "del_line", "del_flush"}) =>
            tfp[s] = temp /\ data[temp] = << >>
       /\ At(s, {"del_remove", "del_rename"}) => temp # NoFile
       /\ At(s, {"prompt", "exited", "create", "open", "del_temp", "del_read"}) => kept[s] = << >>
  /\ \A p \in Pids: st[p] = "opened" => dfp[p] = list

Line(p)  == [dir |-> dir[p], pid |-> p]
Has(q, e) == \E k \in DOMAIN q: q[k] = e

(* Where the line of every running daemon is while a delete rewrites the   *)
(* list; the line it deletes may be gone before its daemon is.             *)
LinesSafe ==
  \A p \in Pids: st[p] \in {"registered", "watching"} =>
    /\ (\A s \in Shells: ~At(s, {"del_rename", "del_kill"})) => Line(p) \in Listed
    /\ \A s \in Shells: p # target[s] =>
         /\ At(s, {"del_line"}) => Has(lines[s], Line(p)) \/ Has(kept[s], Line(p))
         /\ At(s, {"del_flush"}) => Has(kept[s], Line(p))
         /\ At(s, {"del_remove", "del_rename"}) => Line(p) \in Lines(temp)
         /\ At(s, {"del_kill"}) => Line(p) \in Listed

(* What except_add has established when it forks. *)
ScanHolds ==
  \A s \in Shells: At(s, {"add_fork"}) =>
    \A p \in Pids: Live(p) => ~Clash(path[s], dir[p])

PatientInv == TypeInv /\ OneAtATime /\ FilesOwned /\ LinesSafe /\ ScanHolds /\ NoOverlap

(* Where each other line of the list is while a delete copies it.          *)
CopyComplete ==
  \A s \in Shells: \A e \in Listed: e.pid # target[s] =>
    /\ At(s, {"del_line"}) => Has(lines[s], e) \/ Has(kept[s], e)
    /\ At(s, {"del_flush"}) => Has(kept[s], e)
    /\ At(s, {"del_remove"}) => e \in Lines(temp)

(* One command runs at a time: there is one shell, or the user is patient. *)
OneCommand == \A s, t \in Shells: ~Idle(s) /\ ~Idle(t) => s = t

(* The line is that of a daemon that runs and has written it. *)
Runs(p)    == st[p] \in {"registered", "watching"}
Running(e) == Runs(e.pid) /\ e.dir = dir[e.pid]

(* The list, the file a delete fills and the files daemons append to are   *)
(* different ones, whoever was killed before.                              *)
FilesApart ==
  /\ list = temp => list = NoFile
  /\ \A p \in Pids: st[p] = "opened" => dfp[p] # temp
  /\ \A s \in Shells:
       /\ At(s, {"del_temp", "del_read"}) => fp[s] = list
       /\ At(s, {"del_read", "del_line", "del_flush"}) => tfp[s] = temp /\ data[temp] = << >>
       /\ At(s, {"del_remove", "del_rename"}) => temp # NoFile

(* What a delete copies, and what it puts in the list's place, are lines   *)
(* of running daemons other than the one it is about to end.               *)
CopyTrue ==
  \A s \in Shells:
    /\ At(s, {"prompt", "exited", "create", "open", "del_temp", "del_read"}) =>
         kept[s] = << >> /\ ~found[s]
    /\ At(s, {"del_line", "del_flush"}) =>
         /\ \A k \in DOMAIN lines[s]: Running(lines[s][k])
         /\ \A k \in DOMAIN kept[s]: Running(kept[s][k]) /\ kept[s][k].pid # target[s]
         /\ found[s] => Runs(target[s])
    /\ At(s, {"del_remove", "del_rename", "del_kill"}) => Runs(target[s])
    /\ At(s, {"del_remove", "del_rename"}) =>
         \A e \in Lines(temp): Running(e) /\ e.pid # target[s]
    /\ At(s, {"del_kill"}) => \A e \in Listed: e.pid # target[s]

ListTrue == \A e \in Listed: Running(e)

TrueInv == TypeInv /\ OneCommand /\ FilesApart /\ CopyTrue /\ ListTrue
=============================================================================
