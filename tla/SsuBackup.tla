------------------------------ MODULE SsuBackup ------------------------------
(***************************************************************************)
(* ssu_backup: prompts that run add, remove and recover, each as a child   *)
(* process, over the files under HOME and their versions under HOME/backup *)
(* while the user goes on changing the files.  A step is one scandir, one  *)
(* comparison of two files, one file opened, copied or removed.            *)
(***************************************************************************)
EXTENDS Integers, SequencesExt

CONSTANTS
  Shells,      \* the ssu_backup prompts
  Files,       \* the user's files: paths below HOME, as sequences of names
  NewPaths,    \* what users give to recover -n
  NamePrefix,  \* <<m, n>> such that the file name m is a prefix of the name n
  Contents,    \* what users write: sequences of bytes
  Digest(_, _),\* the digest of a content by "md5" or "sha1" (16 bytes of it)
  Mode,        \* the algorithm ssu_backup was started with
  Ops,         \* the commands the user of each shell gives
  MaxTime,     \* bound: seconds the clock counts
  MaxWrites,   \* bound: changes the user makes to files
  Concurrent,  \* TRUE: the user changes files while commands run
  Interrupts   \* the shells whose commands may be interrupted

Names == UNION {ToSet(p): p \in Files \cup NewPaths}
Bytes == UNION {ToSet(c): c \in Contents}

ASSUME PathsAssumption == /\ Files \cup NewPaths \subseteq Seq(Names) /\ IsFiniteSet(Files \cup NewPaths)
                          /\ \A p \in Files \cup NewPaths: p # << >>
                          /\ \A p, q \in Files \cup NewPaths: ~IsStrictPrefix(p, q)
ASSUME PrefixAssumption == \A f \in Files: <<Last(f), Last(f)>> \in NamePrefix
ASSUME ContentsAssumption == Contents \subseteq Seq(Bytes)
ASSUME ModeAssumption == /\ Mode \in {"md5", "sha1"}
                         /\ Concurrent \in BOOLEAN /\ Interrupts \subseteq Shells
                         /\ Ops \in [Shells -> SUBSET {"add", "remove", "clear", "recover"}]
ASSUME BoundsAssumption == MaxTime \in Nat \ {0} /\ MaxWrites \in Nat

VARIABLES
  home,     \* the files under HOME: a function from nodes to contents
  backup,   \* the versions under HOME/backup: a function from nodes to contents
  bdirs,    \* the directories under HOME/backup
  now,      \* the clock, in seconds
  writes,   \* how many changes the user has made
  pc, cmd,  \* per shell, the step and the arguments of its child
  tree,     \* per shell, the tree makeFileTree built: a set of nodes
  todo,     \* per shell, the pending calls of the child, as a stack
  list,     \* per shell, the versions the user is to choose from, a set
  open,     \* per shell, where its child writes: what it has named or opened and not flushed
  chosen    \* history: per shell, the versions the child was to restore

userVars  == <<now, writes>>
childVars == <<pc, cmd, tree, todo, list, open, chosen>>
vars == <<home, backup, bdirs, userVars, childVars>>

(* A version is the path of its file with the second of the backup; a file *)
(* under HOME, and a directory in a tree, has no such suffix (0).          *)
Node(p, t) == [path |-> p, at |-> t]
IsVersion(n) == n.at # 0

Dirs == {d \in UNION {{SubSeq(p, 1, k): k \in 1..Len(p)}: p \in Files \cup NewPaths}:
           \E p \in Files \cup NewPaths: IsStrictPrefix(d, p)}
NoCmd == [op |-> "none", path |-> << >>, new |-> << >>, all |-> FALSE]

Init ==
  /\ home = [n \in {} |-> << >>] /\ backup = [n \in {} |-> << >>]
  /\ bdirs = {}
  /\ now = 1 /\ writes = 0
  /\ pc = [s \in Shells |-> "prompt"] /\ cmd = [s \in Shells |-> NoCmd]
  /\ tree = [s \in Shells |-> {}]
  /\ todo = [s \in Shells |-> << >>] /\ list = [s \in Shells |-> {}]
  /\ open = [s \in Shells |-> << >>] /\ chosen = [s \in Shells |-> {}]

-----------------------------------------------------------------------------
(* Helpers *)

With(f, n, c) == [m \in DOMAIN f \cup {n} |-> IF m = n THEN c ELSE f[m]]

(* What a stream flushes at offset 0, over what the file has by then. *)
Overlay(new, onto) == new \o SubSeq(onto, Len(new) + 1, Len(onto))
Written(f, stream) ==
  IF stream.to \in DOMAIN f THEN [f EXCEPT ![stream.to] = Overlay(stream.data, @)] ELSE f

(* isSameFile.  strcmp is not 0 for strings that differ: each mode takes   *)
(* the other algorithm.                                                    *)
SameFile(c, d) == LET alg == IF Mode # "md5" THEN "md5" ELSE "sha1"
                  IN Digest(alg, c) = Digest(alg, d)

Single(S) == \E v \in S: S = {v}
Goto(s, at) == pc' = [pc EXCEPT ![s] = at]
Push(s, nodes, op, rest) ==
  todo' = [todo EXCEPT ![s] = [k \in DOMAIN nodes |-> [op |-> op, node |-> nodes[k]]] \o rest]
Top(s)  == Head(todo[s]).node
Pop(s)  == todo' = [todo EXCEPT ![s] = Tail(@)]

(* The child is gone and its parent prompts again; what it had not written *)
(* is lost.                                                                *)
Leave(s) ==
  /\ Goto(s, "prompt")
  /\ cmd' = [cmd EXCEPT ![s] = NoCmd]
  /\ tree' = [tree EXCEPT ![s] = {}]
  /\ todo' = [todo EXCEPT ![s] = << >>]
  /\ list' = [list EXCEPT ![s] = {}]
  /\ open' = [open EXCEPT ![s] = << >>]
  /\ chosen' = [chosen EXCEPT ![s] = {}]

IsHomeDir(d) == \E f \in Files: IsStrictPrefix(d, f)
HomeChildren(d) ==
  {n \in {Node(p, 0): p \in Dirs \cup Files}:
     Front(n.path) = d /\ (IsHomeDir(n.path) \/ n \in DOMAIN home)}

Tree == DOMAIN backup \cup {Node(d, 0): d \in bdirs}
Children(nodes, d) == {n \in nodes: n.path # << >> /\ Front(n.path) = d}

(* mkdir fails where the parent is missing. *)
HasDir(p)  == Front(p) = << >> \/ Front(p) \in bdirs
Parents(p) == {SubSeq(p, 1, k): k \in 1..(Len(p) - 1)}

-----------------------------------------------------------------------------
(* The user *)

MayWrite == /\ writes < MaxWrites
            /\ Concurrent \/ \A s \in Shells: pc[s] = "prompt"
            /\ writes' = writes + 1
            /\ UNCHANGED <<backup, bdirs, now, childVars>>

Write(f, c) == MayWrite /\ home' = With(home, Node(f, 0), c)

Erase(f) == /\ MayWrite
            /\ Node(f, 0) \in DOMAIN home
            /\ home' = Restrict(home, DOMAIN home \ {Node(f, 0)})

Tick == /\ now < MaxTime
        /\ now' = now + 1
        /\ UNCHANGED <<home, backup, bdirs, writes, childVars>>

-----------------------------------------------------------------------------
(* main: fork, exec, wait.  A command that is refused changes nothing.     *)

Run(s, op, p, new, all, at) ==
  /\ pc[s] = "prompt" /\ op \in Ops[s]
  /\ Goto(s, at)
  /\ cmd' = [cmd EXCEPT ![s] = [op |-> op, path |-> p, new |-> new, all |-> all]]
  /\ UNCHANGED <<home, backup, bdirs, userVars, tree, todo, list, open, chosen>>

(* ExceptAdd: the file exists, or is a directory and -d is given. *)
AddCommand(s, p) ==
  /\ IsHomeDir(p) \/ Node(p, 0) \in DOMAIN home
  /\ Run(s, "add", p, << >>, FALSE, "mkdirs")

RemoveCommand(s, p, all) == Run(s, "remove", p, << >>, all, "snapshot")
ClearCommand(s) == Run(s, "clear", << >>, << >>, TRUE, "snapshot")

(* all stands for -d, new for the argument of -n, if there is one. *)
RecoverCommand(s, p, new, all) == Run(s, "recover", p, new, all, "snapshot")

Interrupt(s) == /\ s \in Interrupts /\ pc[s] # "prompt"
                /\ Leave(s)
                /\ UNCHANGED <<home, backup, bdirs, userVars>>

-----------------------------------------------------------------------------
(* add *)

(* addPathDir: the directories down to the argument. *)
AddMkdirs(s) ==
  /\ pc[s] = "mkdirs"
  /\ bdirs' = bdirs \cup Parents(cmd[s].path)
  /\ Push(s, <<Node(cmd[s].path, 0)>>, "visit", << >>)
  /\ Goto(s, "add")
  /\ UNCHANGED <<home, backup, userVars, cmd, tree, list, open, chosen>>

(* recursiveAddDir, in the order of the directory's entries. *)
AddDir(s) ==
  /\ pc[s] = "add" /\ todo[s] # << >> /\ IsHomeDir(Top(s).path)
  /\ bdirs' = IF HasDir(Top(s).path) THEN bdirs \cup {Top(s).path} ELSE bdirs
  /\ \E order \in SetToSeqs(HomeChildren(Top(s).path)):
       Push(s, order, "visit", Tail(todo[s]))
  /\ UNCHANGED <<home, backup, userVars, pc, cmd, tree, list, open, chosen>>

AddFile(s) ==
  /\ pc[s] = "add" /\ todo[s] # << >> /\ Top(s) \in DOMAIN home
  /\ Goto(s, "scan")
  /\ UNCHANGED <<home, backup, bdirs, userVars, cmd, tree, todo, list, open, chosen>>

(* A slip: the loop does not go on to the next name. *)
AddGoneStays(s) ==
  /\ pc[s] = "add" /\ todo[s] # << >>
  /\ ~IsHomeDir(Top(s).path) /\ Top(s) \notin DOMAIN home
  /\ UNCHANGED vars

(* get_filetype of what has been erased since: neither of the two. *)
AddGone(s) ==
  /\ pc[s] = "add" /\ todo[s] # << >>
  /\ ~IsHomeDir(Top(s).path) /\ Top(s) \notin DOMAIN home
  /\ Pop(s)
  /\ UNCHANGED <<home, backup, bdirs, userVars, pc, cmd, tree, list, open, chosen>>

AddDone(s) == /\ pc[s] = "add" /\ todo[s] = << >>
              /\ Leave(s)
              /\ UNCHANGED <<home, backup, bdirs, userVars>>

(* A slip: the names are not compared. *)
CandidatesAny(f) == DOMAIN backup

(* dupBackupFile compares with every version whose name, without its last  *)
(* 13 characters, is a prefix of the name of the file.                     *)
Candidates(f) ==
  {v \in DOMAIN backup: /\ Front(v.path) = Front(f)
                        /\ <<Last(v.path), Last(f)>> \in NamePrefix}
AlreadyBackuped(f) ==
  /\ Node(f, 0) \in DOMAIN home
  /\ \E v \in Candidates(f): SameFile(home[Node(f, 0)], backup[v])

AddSkip(s) ==
  /\ pc[s] = "scan" /\ AlreadyBackuped(Top(s).path)
  /\ Pop(s)
  /\ Goto(s, "add")
  /\ UNCHANGED <<home, backup, bdirs, userVars, cmd, tree, list, open, chosen>>

AddNew(s) ==
  /\ pc[s] = "scan" /\ ~AlreadyBackuped(Top(s).path)
  /\ Goto(s, "name")
  /\ UNCHANGED <<home, backup, bdirs, userVars, cmd, tree, todo, list, open, chosen>>

(* retCurTime: the version is named for this second.                       *)
AddName(s) ==
  /\ pc[s] = "name"
  /\ open' = [open EXCEPT ![s] = <<[to |-> Node(Top(s).path, now), data |-> << >>]>>]
  /\ Goto(s, "create")
  /\ UNCHANGED <<home, backup, bdirs, userVars, cmd, tree, todo, list, chosen>>

(* The version that the child has named, or is writing. *)
Named(s) == open[s][1].to

(* fopen "w+" of the version that has been named, which creates it or, in  *)
(* whatever second this is, empties it; and the first fgetc, which reads   *)
(* the whole small file.                                                   *)
AddCreate(s) ==
  /\ pc[s] = "create" /\ HasDir(Top(s).path) /\ Top(s) \in DOMAIN home
  /\ backup' = With(backup, Named(s), << >>)
  /\ open' = [open EXCEPT ![s] = <<[to |-> Named(s), data |-> home[Top(s)]]>>]
  /\ Goto(s, "copy")
  /\ UNCHANGED <<home, bdirs, userVars, cmd, tree, todo, list, chosen>>

(* Neither fopen is checked (a pointer is never < 0): the child dies of a  *)
(* null stream, with an empty version made if there was a place for it.    *)
AddDies(s) ==
  /\ pc[s] = "create" /\ ~(HasDir(Top(s).path) /\ Top(s) \in DOMAIN home)
  /\ backup' = IF HasDir(Top(s).path) THEN With(backup, Named(s), << >>) ELSE backup
  /\ Leave(s)
  /\ UNCHANGED <<home, bdirs, userVars>>

(* A slip: dupFd is not closed before the next file is dealt with. *)
AddCopyUnflushed(s) ==
  /\ pc[s] = "copy"
  /\ open' = [open EXCEPT ![s] = << >>]
  /\ Pop(s)
  /\ Goto(s, "add")
  /\ UNCHANGED <<home, backup, bdirs, userVars, cmd, tree, list, chosen>>

(* fclose(dupFd) *)
AddCopy(s) ==
  /\ pc[s] = "copy"
  /\ backup' = Written(backup, open[s][1])
  /\ open' = [open EXCEPT ![s] = << >>]
  /\ Pop(s)
  /\ Goto(s, "add")
  /\ UNCHANGED <<home, bdirs, userVars, cmd, tree, list, chosen>>

-----------------------------------------------------------------------------
(* remove and recover: the tree, and whether the argument is a directory.  *)

Snapshot(s) ==
  /\ pc[s] = "snapshot"
  /\ tree' = [tree EXCEPT ![s] = Tree]
  /\ Goto(s, "check")
  /\ UNCHANGED <<home, backup, bdirs, userVars, cmd, todo, list, open, chosen>>

(* A slip: one name too few. *)
FindNodeShort(nodes, p) ==
  LET cp[k \in 0..Len(p)] ==
        IF k = 0 THEN << >>
        ELSE IF Node(Append(cp[k-1], p[k]), 0) \in nodes THEN Append(cp[k-1], p[k]) ELSE cp[k-1]
  IN cp[IF p = << >> THEN 0 ELSE Len(p) - 1]

(* findNode goes on with the next name where it does not find one. *)
FindNode(nodes, p) ==
  LET cp[k \in 0..Len(p)] ==
        IF k = 0 THEN << >>
        ELSE IF Node(Append(cp[k-1], p[k]), 0) \in nodes THEN Append(cp[k-1], p[k]) ELSE cp[k-1]
  IN cp[Len(p)]

Found(s) == FindNode(tree[s], cmd[s].path)
Dir(s)   == cmd[s].op = "clear" \/ cmd[s].path \in bdirs
Loop(s)  == IF cmd[s].op = "recover" THEN "recover" ELSE "remove"

(* makeHypoPath knows the directories that are in the backup directory. *)
NewPathKnown(s) == cmd[s].new = << >> \/ HasDir(cmd[s].new)

CheckDir(s) ==
  /\ pc[s] = "check" /\ NewPathKnown(s) /\ Dir(s) /\ cmd[s].all
  /\ cmd[s].op = "recover" => Found(s) # << >>
  /\ \E order \in SetToSeqs(Children(tree[s], Found(s))): Push(s, order, "visit", << >>)
  /\ Goto(s, Loop(s))
  /\ UNCHANGED <<home, backup, bdirs, userVars, cmd, tree, list, open, chosen>>

(* findFiles: the versions of exactly this file. *)
Versions(f) == {v \in DOMAIN backup: v.path = f}

CheckFile(s) ==
  /\ pc[s] = "check" /\ NewPathKnown(s) /\ ~Dir(s) /\ Versions(cmd[s].path) # {}
  /\ LET found == Versions(cmd[s].path)
     IN IF cmd[s].op = "remove" /\ (cmd[s].all \/ Single(found))
          THEN /\ \E order \in SetToSeqs(found): Push(s, order, "visit", << >>)
               /\ Goto(s, "remove") /\ UNCHANGED list
          ELSE /\ list' = [list EXCEPT ![s] = found]
               /\ Goto(s, IF Single(found) THEN "restore" ELSE "pick") /\ UNCHANGED todo
  /\ chosen' = [chosen EXCEPT ![s] = IF pc'[s] = "restore" THEN Versions(cmd[s].path) ELSE {}]
  /\ UNCHANGED <<home, backup, bdirs, userVars, cmd, tree, open>>

(* An unknown new path; a directory without -a or -d; no version; or       *)
(* recover of root->path, which is null.                                   *)
CheckRefused(s) ==
  /\ pc[s] = "check"
  /\ \/ ~NewPathKnown(s)
     \/ Dir(s) /\ ~cmd[s].all
     \/ ~Dir(s) /\ Versions(cmd[s].path) = {}
     \/ Dir(s) /\ cmd[s].op = "recover" /\ Found(s) = << >>
  /\ Leave(s)
  /\ UNCHANGED <<home, backup, bdirs, userVars>>

(* scanf: a number of the list, or 0 for exit(0). *)
Pick(s) ==
  /\ pc[s] = "pick"
  /\ \E v \in list[s]:
       IF cmd[s].op = "remove"
         THEN /\ Push(s, <<v>>, "visit", << >>)
              /\ Goto(s, "remove")
              /\ list' = [list EXCEPT ![s] = {}]
              /\ UNCHANGED chosen
         ELSE /\ list' = [list EXCEPT ![s] = {v}]
              /\ chosen' = [chosen EXCEPT ![s] = @ \cup {v}]
              /\ Goto(s, "restore") /\ UNCHANGED todo
  /\ UNCHANGED <<home, backup, bdirs, userVars, cmd, tree, open>>

PickNone(s) ==
  /\ pc[s] = "pick"
  /\ Goto(s, "exit")
  /\ UNCHANGED <<home, backup, bdirs, userVars, cmd, tree, todo, list, open, chosen>>

-----------------------------------------------------------------------------
(* remove: removeFilesByLinked and clearLink *)

Removing(s, op) == pc[s] = "remove" /\ todo[s] # << >> /\ Head(todo[s]).op = op

RemoveFile(s) ==
  /\ Removing(s, "visit") /\ Top(s).path \notin bdirs
  /\ backup' = Restrict(backup, DOMAIN backup \ {Top(s)})
  /\ Pop(s)
  /\ UNCHANGED <<home, bdirs, userVars, pc, cmd, tree, list, open, chosen>>

(* A slip: what is in the directory is left to rmdir. *)
RemoveDirShallow(s) ==
  /\ Removing(s, "visit") /\ Top(s).path \in bdirs
  /\ Push(s, <<Top(s)>>, "rmdir", Tail(todo[s]))
  /\ UNCHANGED <<home, backup, bdirs, userVars, pc, cmd, tree, list, open, chosen>>

RemoveDir(s) ==
  /\ Removing(s, "visit") /\ Top(s).path \in bdirs
  /\ \E order \in SetToSeqs(Children(tree[s], Top(s).path)):
       Push(s, order, "visit", <<[op |-> "rmdir", node |-> Top(s)]>> \o Tail(todo[s]))
  /\ UNCHANGED <<home, backup, bdirs, userVars, pc, cmd, tree, list, open, chosen>>

(* rmdir fails if the directory is not empty. *)
Rmdir(s) ==
  /\ Removing(s, "rmdir")
  /\ bdirs' = IF Children(Tree, Top(s).path) = {} THEN bdirs \ {Top(s).path} ELSE bdirs
  /\ Pop(s)
  /\ UNCHANGED <<home, backup, userVars, pc, cmd, tree, list, open, chosen>>

RemoveDone(s) == /\ pc[s] = "remove" /\ todo[s] = << >>
                 /\ Leave(s)
                 /\ UNCHANGED <<home, backup, bdirs, userVars>>

-----------------------------------------------------------------------------
(* recover: backupFilesByLinked and backupFile *)

Recovering(s) == pc[s] = "recover" /\ todo[s] # << >>

RecoverDir(s) ==
  /\ Recovering(s) /\ Top(s).path \in bdirs
  /\ \E order \in SetToSeqs(Children(tree[s], Top(s).path)):
       Push(s, order, "visit", Tail(todo[s]))
  /\ UNCHANGED <<home, backup, bdirs, userVars, pc, cmd, tree, list, open, chosen>>

(* The version with the others of its file further down its list.  They    *)
(* are not marked as done (already_n is not advanced for them), so each    *)
(* comes up again, the last one alone.                                     *)
RecoverGroup(s) ==
  /\ Recovering(s) /\ Top(s).path \notin bdirs /\ IsVersion(Top(s))
  /\ LET same == {c.node: c \in {d \in ToSet(todo[s]): d.node.path = Top(s).path}}
     IN /\ list' = [list EXCEPT ![s] = same]
        /\ Goto(s, IF Single(same) THEN "restore" ELSE "pick")
  /\ UNCHANGED <<home, backup, bdirs, userVars, cmd, tree, todo, open, chosen>>

(* A directory that is gone is taken for a file, which cannot be opened. *)
RecoverGone(s) ==
  /\ Recovering(s) /\ Top(s).path \notin bdirs /\ ~IsVersion(Top(s))
  /\ Pop(s)
  /\ UNCHANGED <<home, backup, bdirs, userVars, pc, cmd, tree, list, open, chosen>>

RecoverDone(s) ==
  /\ pc[s] = "recover" /\ todo[s] = << >>
  /\ Goto(s, "exit")
  /\ UNCHANGED <<home, backup, bdirs, userVars, cmd, tree, todo, list, open, chosen>>

(* Where the version goes.  Under a directory, a version that comes up     *)
(* alone keeps its suffix under the new path; a chosen one goes back to    *)
(* the old path (of the two calls, the one with the new path names a       *)
(* version converted twice, and does no more than make directories).       *)
InDir(s) == todo[s] # << >>
Alone(s) == \A k \in 2..Len(todo[s]): todo[s][k].node.path # Top(s).path
(* A slip: -n is forgotten. *)
TargetOld(s, v) == Node(v.path, 0)

Target(s, v) ==
  IF cmd[s].new = << >> \/ (InDir(s) /\ ~Alone(s)) THEN Node(v.path, 0)
  ELSE IF ~InDir(s) THEN Node(cmd[s].new, 0)
  ELSE Node(cmd[s].new \o SubSeq(v.path, Len(Found(s)) + 1, Len(v.path)), v.at)

(* After the choice, or for the only version: backupFile.  The stream to   *)
(* the file is not closed before the process ends.                         *)
Restore(s) ==
  /\ pc[s] = "restore"
  /\ \E v \in list[s]:
       LET to == Target(s, v)
           converted == InDir(s) /\ ~Alone(s)
       IN /\ IF v \in DOMAIN backup /\ ~(to \in DOMAIN home /\ SameFile(home[to], backup[v]))
               THEN /\ home' = With(home, to, << >>)
                    /\ open' = [open EXCEPT ![s] = Append(@, [to |-> to, data |-> backup[v]])]
               ELSE UNCHANGED <<home, open>>
          /\ bdirs' = IF converted /\ cmd[s].new = << >> THEN bdirs \cup Parents(v.path) ELSE bdirs
  /\ list' = [list EXCEPT ![s] = {}]
  /\ todo' = [todo EXCEPT ![s] = IF InDir(s) THEN Tail(@) ELSE @]
  /\ Goto(s, IF InDir(s) THEN "recover" ELSE "exit")
  /\ UNCHANGED <<backup, userVars, cmd, tree, chosen>>

(* exit() flushes the open streams, the one opened last first. *)
Flush(s) ==
  /\ pc[s] = "exit" /\ open[s] # << >>
  /\ home' = Written(home, Last(open[s]))
  /\ open' = [open EXCEPT ![s] = Front(@)]
  /\ UNCHANGED <<backup, bdirs, userVars, pc, cmd, tree, todo, list, chosen>>

Exit(s) == /\ pc[s] = "exit" /\ open[s] = << >>
           /\ Leave(s)
           /\ UNCHANGED <<home, backup, bdirs, userVars>>

-----------------------------------------------------------------------------
AddStep(s) ==
  \/ AddMkdirs(s) \/ AddDir(s) \/ AddFile(s) \/ AddGone(s) \/ AddDone(s)
  \/ AddSkip(s) \/ AddNew(s) \/ AddName(s) \/ AddCreate(s) \/ AddDies(s) \/ AddCopy(s)

RemoveStep(s) == RemoveFile(s) \/ RemoveDir(s) \/ Rmdir(s) \/ RemoveDone(s)

RecoverStep(s) ==
  \/ RecoverDir(s) \/ RecoverGroup(s) \/ RecoverGone(s) \/ RecoverDone(s)
  \/ Restore(s) \/ Flush(s) \/ Exit(s)

ChildStep(s) ==
  \/ AddStep(s) \/ RemoveStep(s) \/ RecoverStep(s)
  \/ Snapshot(s) \/ CheckDir(s) \/ CheckFile(s) \/ CheckRefused(s)

UserStep(s) ==
  \/ \E p \in Files \cup Dirs:
       \/ AddCommand(s, p)
       \/ \E all \in BOOLEAN:
            \/ RemoveCommand(s, p, all)
            \/ \E new \in NewPaths \cup {<< >>}: RecoverCommand(s, p, new, all)
  \/ ClearCommand(s) \/ Pick(s) \/ PickNone(s) \/ Interrupt(s)

Next == \/ \E s \in Shells: ChildStep(s) \/ UserStep(s)
        \/ \E f \in Files: (\E c \in Contents: Write(f, c)) \/ Erase(f)
        \/ Tick

Spec == Init /\ [][Next]_vars

(* The children are scheduled; the user owes nothing, not even an answer. *)
FairSpec == Spec /\ \A s \in Shells: WF_vars(ChildStep(s))

-----------------------------------------------------------------------------
(* Properties *)

(* The store of versions that the files and the children amount to: what   *)
(* is in the backup directory, but for the empty files, which are not yet  *)
(* written, or never will be.                                              *)
StoreFiles    == [f \in {n.path: n \in {m \in DOMAIN home: ~IsVersion(m)}} |-> home[Node(f, 0)]]
StoreVersions == Restrict(backup, {v \in DOMAIN backup: backup[v] # << >>})
StoreSession(s) ==
  IF pc[s] = "prompt" THEN [doing |-> "nothing"]
  ELSE IF pc[s] = "create" THEN [doing |-> "beginning", version |-> Named(s)]
  ELSE IF pc[s] = "copy" /\ Named(s) \in DOMAIN backup
    THEN [doing |-> "saving", version |-> Named(s), content |-> open[s][1].data]
  ELSE [doing |-> "waiting"]

Store == INSTANCE VersionStore WITH
  Clients <- Shells, Paths <- Files \cup Dirs, Empty <- << >>,
  files <- StoreFiles, versions <- StoreVersions, session <- [s \in Shells |-> StoreSession(s)]

(* However commands, users and interruptions interleave, what is in the    *)
(* backup directory is a store of versions.                                *)
ImplementsStore == Store!Spec

(* After add has dealt with a file, "already backuped" or not, a version   *)
(* under the file's own name holds what add has read.                      *)
AddedRecoverable ==
  [][\A s \in Shells: pc[s] \in {"scan", "copy"} /\ pc'[s] = "add" =>
       \E v \in DOMAIN backup':
         /\ v.path = Top(s).path
         /\ backup'[v] = IF pc[s] = "scan" THEN home[Top(s)] ELSE open[s][1].data]_vars

(* remove takes away nothing outside the path it was given, and recover    *)
(* and add take away nothing at all.                                       *)
RemovesOnlyUnder ==
  [][\A v \in DOMAIN backup \ DOMAIN backup':
       \E s \in Shells: RemoveFile(s) /\ IsPrefix(cmd[s].path, v.path)]_vars

(* When remove -a or -c ends, there is no version left under its path, and *)
(* for -c no directory either.                                             *)
RemovedAll ==
  \A s \in Shells: pc[s] = "remove" /\ todo[s] = << >> /\ cmd[s].all =>
    /\ \A v \in DOMAIN backup: ~IsPrefix(cmd[s].path, v.path)
    /\ cmd[s].op = "clear" => bdirs = {}

(* What recover promises for the versions that were to be restored.        *)
Promised(s, v) ==
  Node(IF cmd[s].new = << >> THEN v.path
       ELSE cmd[s].new \o SubSeq(v.path, Len(cmd[s].path) + 1, Len(v.path)), 0)
Ended(s) == pc[s] = "exit" /\ open[s] = << >>

(* When recover ends, the file it was to restore is the version the user   *)
(* chose (or the only one), at the old path or at the new one.             *)
RecoverExact ==
  \A s \in Shells: Ended(s) /\ cmd[s].path \in Files =>
    \A v \in chosen[s]:
      Promised(s, v) \in DOMAIN home /\ home[Promised(s, v)] = backup[v]

(* Every command ends, or waits for the user's choice.                     *)
CommandsEnd == \A s \in Shells: pc[s] # "prompt" ~> pc[s] \in {"prompt", "pick"}
=============================================================================
