--------------------------- MODULE SsuBackupProofs ---------------------------
(***************************************************************************)
(* Theorems about SsuBackup, for any prompts, files and contents: that the *)
(* backup directory implements VersionStore, and what each command does:   *)
(* what add leaves in the directory, what remove takes out of it, and what *)
(* recover makes of a file.                                                *)
(***************************************************************************)
EXTENDS SsuBackup, DataLemmas

Places  == [path: Seq(Names) \ {<< >>}, at: Nat]
Nodes   == [path: Files \cup Dirs, at: Nat]
Calls   == [op: {"visit", "rmdir"}, node: Nodes]
Streams == [to: Places, data: Seq(Bytes)]
Steps  == {"prompt", "mkdirs", "add", "scan", "name", "create", "copy", "snapshot", "check", "pick",
           "remove", "recover", "restore", "exit"}
Cmds   == [op: {"none", "add", "remove", "clear", "recover"}, path: Files \cup Dirs \cup {<< >>},
           new: NewPaths \cup {<< >>}, all: BOOLEAN]

(* The types of the state. *)
FileMap(f) == DOMAIN f \subseteq Places /\ f \in [DOMAIN f -> Seq(Bytes)]
Typed ==
  /\ FileMap(home)
  /\ FileMap(backup) /\ DOMAIN backup \subseteq Nodes /\ IsFiniteSet(DOMAIN backup)
  /\ bdirs \subseteq Dirs
  /\ now \in Nat \ {0}
  /\ pc \in [Shells -> Steps] /\ cmd \in [Shells -> Cmds]
  /\ \A s \in Shells: pc[s] = "mkdirs" => cmd[s].path # << >>
  /\ tree \in [Shells -> SUBSET Nodes] /\ \A s \in Shells: IsFiniteSet(tree[s])
  /\ todo \in [Shells -> Seq(Calls)]
  /\ list \in [Shells -> SUBSET Nodes]
  /\ open \in [Shells -> Seq(Streams)]
  /\ chosen \in [Shells -> SUBSET Nodes]

(* Conditions on the users.  While one adds, no other does. *)
OneAdds == \A s, t \in Shells: cmd[s].op = "add" /\ cmd[t].op = "add" => s = t

(* While one adds, no other adds or removes. *)
AddsUndisturbed ==
  \A s, t \in Shells: s # t /\ cmd[s].op = "add" => cmd[t].op \notin {"add", "remove", "clear"}

(* While one removes, no other adds or recovers. *)
RemovesUndisturbed ==
  \A s, t \in Shells: s # t /\ cmd[s].op \in {"remove", "clear"} => cmd[t].op \notin {"add", "recover"}

(* While one recovers, nobody else does anything, not even to the files. *)
RecoversUndisturbed ==
  ~Concurrent /\ \A s, t \in Shells: s # t /\ cmd[s].op = "recover" => cmd[t].op = "none"

(* What the child of an add is at. *)
Adding == {"mkdirs", "add", "scan", "name", "create", "copy"}
AtWork(s) ==
  /\ pc[s] \in Adding => cmd[s].op = "add"
  /\ pc[s] \in Adding \ {"mkdirs"} => \A k \in DOMAIN todo[s]: ~IsVersion(todo[s][k].node)
  /\ pc[s] \in {"scan", "name", "create", "copy"} => todo[s] # << >>
  /\ pc[s] \in {"create", "copy"} => /\ Len(open[s]) = 1 /\ IsVersion(Named(s))
                                     /\ Named(s).path = Top(s).path
AddAtWork == \A s \in Shells: AtWork(s)

WorkInv == Typed /\ AddAtWork

(* The version that is being saved is empty, unless somebody removes it. *)
SavesInto(s) ==
  pc[s] = "copy" /\ open[s][1].to \in DOMAIN backup => backup[open[s][1].to] = << >>
OpenIsEmpty == \A s \in Shells: SavesInto(s)

StoreInv == WorkInv /\ OpenIsEmpty

(* Where the files, the directories and the versions of files are: every   *)
(* directory on the way to what is stored is there.                        *)
Versioned == [path: Files, at: Nat \ {0}]
Stored    == Versioned \cup [path: Dirs, at: {0}]
Apart  == /\ DOMAIN backup \subseteq Versioned
          /\ \A n \in DOMAIN home: n.path \in Dirs => IsVersion(n)
Housed == \A n \in Tree: Parents(n.path) \subseteq bdirs

(* What a child works on. *)
Kinds(s) ==
  /\ tree[s] \subseteq Stored /\ list[s] \subseteq Versioned
  /\ pc[s] \notin Adding => \A k \in DOMAIN todo[s]: todo[s][k].node \in Stored
  /\ pc[s] \in {"scan", "name", "create", "copy"} => Top(s).path \in Files

(* Each command goes through steps of its own. *)
Fits(s) ==
  /\ cmd[s].op = "none" => pc[s] = "prompt"
  /\ cmd[s].op = "add" => pc[s] \in Adding
  /\ cmd[s].op = "remove" => pc[s] \in {"snapshot", "check", "pick", "remove", "exit"}
  /\ cmd[s].op = "clear" => /\ pc[s] \in {"snapshot", "check", "remove"}
                            /\ cmd[s].path = << >> /\ cmd[s].all
  /\ cmd[s].op = "recover" => pc[s] \in {"snapshot", "check", "pick", "recover", "restore", "exit"}
  /\ cmd[s].op \in {"remove", "recover"} => cmd[s].path # << >>
  /\ pc[s] \in {"prompt", "mkdirs", "snapshot", "check"} => todo[s] = << >> /\ open[s] = << >>

CommandInv == WorkInv /\ Apart /\ Housed /\ \A s \in Shells: Kinds(s) /\ Fits(s)

(* A child that removes knows the whole backup directory, and what it has  *)
(* before it is under its argument.                                        *)
Knows(s) ==
  cmd[s].op \in {"remove", "clear"} /\ pc[s] \in {"check", "pick", "remove"} => Tree \subseteq tree[s]
UnderArg(s) ==
  cmd[s].op = "remove" =>
    /\ pc[s] = "pick" => \A v \in list[s]: IsPrefix(cmd[s].path, v.path)
    /\ \A k \in DOMAIN todo[s]: IsPrefix(cmd[s].path, todo[s][k].node.path)

(* What remove -a and -c have before them are all that is under it, and    *)
(* what is in a directory comes before the directory.                      *)
Covers(e, n) == e.node = n \/ (e.op = "visit" /\ IsStrictPrefix(e.node.path, n.path))
Left(s, n) == IsPrefix(cmd[s].path, n.path) /\ n # Node(cmd[s].path, 0)
AllOnStack(s) ==
  \A n \in Tree: Left(s, n) => \E k \in DOMAIN todo[s]: Covers(todo[s][k], n)
InsideFirst(s) ==
  \A k \in DOMAIN todo[s]: todo[s][k].op = "rmdir" =>
    /\ todo[s][k].node.path \in Dirs
    /\ \A n \in Tree: IsStrictPrefix(todo[s][k].node.path, n.path) =>
         \E j \in 1..(k - 1): Covers(todo[s][j], n)
AllBefore(s) ==
  /\ cmd[s].op = "remove" /\ pc[s] = "pick" => ~cmd[s].all
  /\ pc[s] = "remove" /\ cmd[s].all => AllOnStack(s) /\ InsideFirst(s)

(* Only recover chooses versions. *)
NoneChosen(s) == cmd[s].op \in {"none", "remove"} => chosen[s] = {}

(* What recover of a file is at, when nobody changes anything meanwhile. *)
Goal(s) == Node(IF cmd[s].new = << >> THEN cmd[s].path ELSE cmd[s].new, 0)
Restores(s) ==
  cmd[s].op = "recover" /\ cmd[s].path \in Files =>
    /\ pc[s] # "recover"
    /\ pc[s] \in {"pick", "restore"} => /\ todo[s] = << >> /\ open[s] = << >>
                                        /\ list[s] \subseteq Versions(cmd[s].path)
    /\ pc[s] = "pick" => chosen[s] = {}
    /\ pc[s] = "restore" => chosen[s] = list[s] /\ \E v \in list[s]: list[s] = {v}
    /\ pc[s] = "exit" => \A v \in chosen[s]:
         /\ v \in Versions(cmd[s].path) /\ Goal(s) \in DOMAIN home
         /\ \/ open[s] = << >> /\ home[Goal(s)] = backup[v]
            \/ home[Goal(s)] = << >> /\ open[s] = <<[to |-> Goal(s), data |-> backup[v]]>>

-----------------------------------------------------------------------------
(* Paths *)

LEMMA PathsAreSeqs ==
  /\ Files \cup Dirs \subseteq Seq(Names) \ {<< >>}
  /\ Dirs \cap Files = {}
  /\ \A p \in Files \cup Dirs: Parents(p) \subseteq Dirs
  /\ \A d: IsHomeDir(d) /\ d \in Seq(Names) \ {<< >>} => d \in Dirs
  /\ IsFiniteSet(Files \cup Dirs)
<1> DEFINE Given == Files \cup NewPaths
<1>0. Given \subseteq Seq(Names) /\ IsFiniteSet(Given) /\ << >> \notin Given
      /\ \A p, q \in Given: ~IsStrictPrefix(p, q)
  BY PathsAssumption
<1>1. \A d \in Dirs: \E p \in Given: \E k \in 1..Len(p): d = SubSeq(p, 1, k)
  BY DEF Dirs
<1>2. \A p \in Seq(Names): \A k \in 1..Len(p):
        /\ SubSeq(p, 1, k) \in Seq(Names) \ {<< >>} /\ Len(SubSeq(p, 1, k)) = k
        /\ k < Len(p) => IsStrictPrefix(SubSeq(p, 1, k), p)
  <2> SUFFICES ASSUME NEW p \in Seq(Names), NEW k \in 1..Len(p)
               PROVE  /\ SubSeq(p, 1, k) \in Seq(Names) \ {<< >>} /\ Len(SubSeq(p, 1, k)) = k
                      /\ k < Len(p) => IsStrictPrefix(SubSeq(p, 1, k), p)
    OBVIOUS
  <2>1. Len(p) \in Nat /\ k \in Nat /\ \A i \in 1..k: p[i] \in Names  OBVIOUS
  <2>2. SubSeq(p, 1, k) \in Seq(Names) /\ Len(SubSeq(p, 1, k)) = k
        /\ \A i \in 1..k: SubSeq(p, 1, k)[i] = p[i]
    BY <2>1, SubSeqProperties
  <2>3. SubSeq(SubSeq(p, 1, k), 1, k) = SubSeq(p, 1, k)
    BY <2>1, <2>2, SubSeqFull
  <2> QED  BY <2>1, <2>2, <2>3 DEF IsStrictPrefix, IsPrefix
<1>3. Dirs \subseteq Seq(Names) \ {<< >>}
  BY <1>0, <1>1, <1>2
<1>4. Dirs \cap Files = {}
  BY <1>0 DEF Dirs
<1>5. ASSUME NEW p \in Files \cup Dirs, NEW k \in 1..(Len(p) - 1)
      PROVE  SubSeq(p, 1, k) \in Dirs
  <2>1. PICK q \in Given: \E j \in 1..Len(q): p = SubSeq(q, 1, j)
    <3>1. CASE p \in Files
      <4>1. p \in Seq(Names) \ {<< >>} /\ p \in Given  BY <1>0, <3>1
      <4>2. p = SubSeq(p, 1, Len(p)) /\ Len(p) \in 1..Len(p)  BY <4>1, SubSeqFull
      <4> QED  BY <4>1, <4>2
    <3> QED  BY <1>1, <3>1
  <2>2. PICK j \in 1..Len(q): p = SubSeq(q, 1, j)  BY <2>1
  <2>3. q \in Seq(Names) /\ Len(q) \in Nat /\ Len(p) = j /\ k < j  BY <1>0, <1>2, <2>2
  <2>4. SubSeq(p, 1, k) = SubSeq(q, 1, k)
    <3>1. 1 \in 1..Len(q) /\ j \in 1..Len(q) /\ 1 \in 1..(j-1+1) /\ k \in 1..(j-1+1)  BY <2>3
    <3> QED  BY <2>2, <2>3, <3>1, SubSeqOfSubSeq
  <2>5. k \in 1..Len(q) /\ k < Len(q)  BY <2>3
  <2>6. IsStrictPrefix(SubSeq(q, 1, k), q)  BY <1>2, <2>3, <2>5
  <2>7. SubSeq(q, 1, k) \in {SubSeq(q, 1, i): i \in 1..Len(q)}  BY <2>5
  <2>8. SubSeq(q, 1, k) \in Dirs  BY <2>6, <2>7 DEF Dirs
  <2> QED  BY <2>4, <2>8
<1>6. ASSUME NEW d \in Seq(Names) \ {<< >>}, IsHomeDir(d)
      PROVE  d \in Dirs
  <2>1. PICK f \in Files: IsStrictPrefix(d, f)  BY <1>6 DEF IsHomeDir
  <2>2. Len(d) \in 1..Len(f) /\ d = SubSeq(f, 1, Len(d))
    BY <2>1, SubSeqFull DEF IsStrictPrefix, IsPrefix
  <2>3. d \in {SubSeq(f, 1, i): i \in 1..Len(f)}  BY <2>2
  <2> QED  BY <2>1, <2>3 DEF Dirs
<1>7. IsFiniteSet(Dirs)
  <2> DEFINE Of(p) == {SubSeq(p, 1, k): k \in 1..Len(p)}
  <2>1. \A p \in Given: IsFiniteSet(Of(p))
    <3> SUFFICES ASSUME NEW p \in Given PROVE IsFiniteSet(Of(p))  OBVIOUS
    <3> DEFINE f == [k \in 1..Len(p) |-> SubSeq(p, 1, k)]
    <3>1. IsFiniteSet(1..Len(p))  BY <1>0, FS_Interval
    <3>2. IsFiniteSet({f[k]: k \in 1..Len(p)})  BY <3>1, ImageFinite
    <3> QED  BY <3>2
  <2>2. IsFiniteSet({Of(p): p \in Given})
    <3> DEFINE f == [p \in Given |-> Of(p)]
    <3>1. IsFiniteSet({f[p]: p \in Given})  BY <1>0, ImageFinite
    <3> QED  BY <3>1
  <2>3. IsFiniteSet(UNION {Of(p): p \in Given})
    BY <2>1, <2>2, FS_UNION
  <2>4. Dirs \subseteq UNION {Of(p): p \in Given}  BY DEF Dirs
  <2> QED  BY <2>3, <2>4, FS_Subset
<1>8. IsFiniteSet(Files \cup Dirs)
  <2>1. IsFiniteSet(Files)  BY <1>0, FS_Subset
  <2> QED  BY <2>1, <1>7, FS_Union
<1>9. Files \subseteq Seq(Names) \ {<< >>}  BY <1>0
<1>10. \A p \in Files \cup Dirs: Parents(p) \subseteq Dirs  BY <1>5 DEF Parents
<1> QED  BY <1>3, <1>4, <1>6, <1>8, <1>9, <1>10

-----------------------------------------------------------------------------
(* What the helpers return *)

LEMMA WithTyped ==
  ASSUME NEW f, FileMap(f), NEW n \in Places, NEW c \in Seq(Bytes)
  PROVE  /\ FileMap(With(f, n, c))
         /\ DOMAIN With(f, n, c) = DOMAIN f \cup {n}
         /\ With(f, n, c)[n] = c
         /\ \A m \in DOMAIN f: m # n => With(f, n, c)[m] = f[m]
BY DEF FileMap, With

LEMMA RestrictTyped ==
  ASSUME NEW f, FileMap(f), NEW S \in SUBSET DOMAIN f
  PROVE  FileMap(Restrict(f, S)) /\ DOMAIN Restrict(f, S) = S
         /\ \A m \in S: Restrict(f, S)[m] = f[m]
BY DEF FileMap, Restrict

LEMMA OverlayTyped ==
  ASSUME NEW new \in Seq(Bytes), NEW onto \in Seq(Bytes)
  PROVE  Overlay(new, onto) \in Seq(Bytes) /\ Overlay(new, << >>) = new
<1>1. SubSeq(onto, Len(new) + 1, Len(onto)) \in Seq(Bytes)
  <2>1. \A i \in (Len(new) + 1)..Len(onto): onto[i] \in Bytes  OBVIOUS
  <2> QED  BY <2>1, SubSeqProperties
<1>2. SubSeq(<< >>, Len(new) + 1, Len(<< >>)) = << >>
  BY SubSeqEmpty
<1> QED  BY <1>1, <1>2, ConcatProperties, ConcatEmptySeq DEF Overlay

LEMMA WrittenTyped ==
  ASSUME NEW f, FileMap(f), NEW stream \in Streams
  PROVE  /\ FileMap(Written(f, stream)) /\ DOMAIN Written(f, stream) = DOMAIN f
         /\ stream.to \notin DOMAIN f => Written(f, stream) = f
         /\ \A n \in DOMAIN f: n # stream.to => Written(f, stream)[n] = f[n]
         /\ stream.to \in DOMAIN f /\ f[stream.to] = << >> => Written(f, stream)[stream.to] = stream.data
BY OverlayTyped DEF FileMap, Written, Streams

LEMMA PushTyped ==
  ASSUME NEW s \in Shells, todo \in [Shells -> Seq(Calls)],
         NEW nodes \in Seq(Nodes), NEW op \in {"visit", "rmdir"}, NEW rest \in Seq(Calls),
         Push(s, nodes, op, rest)
  PROVE  /\ todo' \in [Shells -> Seq(Calls)]
         /\ \A t \in Shells: t # s => todo'[t] = todo[t]
         /\ Len(todo'[s]) = Len(nodes) + Len(rest)
         /\ \A k \in 1..Len(nodes): todo'[s][k] = [op |-> op, node |-> nodes[k]]
         /\ \A k \in 1..Len(rest): todo'[s][Len(nodes) + k] = rest[k]
<1> DEFINE new == [k \in DOMAIN nodes |-> [op |-> op, node |-> nodes[k]]]
<1>1. new \in Seq(Calls) /\ Len(new) = Len(nodes)
      /\ \A k \in 1..Len(nodes): new[k] = [op |-> op, node |-> nodes[k]]
  <2>1. DOMAIN nodes = 1..Len(nodes) /\ Len(nodes) \in Nat  OBVIOUS
  <2>2. new \in [1..Len(nodes) -> Calls]  BY <2>1 DEF Calls
  <2> QED  BY <2>1, <2>2
<1> HIDE DEF new
<1>2. /\ new \o rest \in Seq(Calls)
      /\ Len(new \o rest) = Len(nodes) + Len(rest)
      /\ \A k \in 1..Len(nodes): (new \o rest)[k] = new[k]
      /\ \A k \in 1..Len(rest): (new \o rest)[Len(nodes) + k] = rest[k]
  <2>1. /\ new \o rest \in Seq(Calls) /\ Len(new \o rest) = Len(new) + Len(rest)
    BY <1>1, ConcatParts
  <2>2. \A k \in 1..Len(new): (new \o rest)[k] = new[k]
    BY <1>1, ConcatParts
  <2>3. \A k \in 1..Len(rest): (new \o rest)[Len(new) + k] = rest[k]
    BY <1>1, ConcatParts
  <2> QED  BY <1>1, <2>1, <2>2, <2>3
<1>3. todo' = [todo EXCEPT ![s] = new \o rest]  BY DEF Push, new
<1> QED  BY <1>1, <1>2, <1>3

LEMMA TopTyped ==
  ASSUME Typed, NEW s \in Shells, todo[s] # << >>
  PROVE  /\ Head(todo[s]) \in Calls /\ Head(todo[s]) = todo[s][1] /\ 1 \in DOMAIN todo[s]
         /\ Top(s) \in Nodes /\ Tail(todo[s]) \in Seq(Calls)
         /\ Len(Tail(todo[s])) = Len(todo[s]) - 1
         /\ \A k \in 1..Len(Tail(todo[s])): Tail(todo[s])[k] = todo[s][k + 1]
<1>1. todo[s] \in Seq(Calls)  BY DEF Typed
<1>2. Head(todo[s]) \in Calls /\ Head(todo[s]) = todo[s][1] /\ 1 \in DOMAIN todo[s]  BY <1>1
<1> QED  BY <1>1, <1>2, HeadTailProperties DEF Top, Calls

-----------------------------------------------------------------------------
(* The types are kept: one lemma per kind of step *)

LEMMA LeaveTyped ==
  ASSUME Typed, NEW s \in Shells, Leave(s), FileMap(home'), FileMap(backup'),
         DOMAIN backup' \subseteq Nodes, IsFiniteSet(DOMAIN backup'), bdirs' \subseteq Dirs, now' \in Nat \ {0}
  PROVE  Typed'
<1>1. NoCmd \in Cmds  BY DEF NoCmd, Cmds
<1>2. IsFiniteSet({})  BY FS_EmptySet
<1>3. cmd' \in [Shells -> Cmds] /\ pc' \in [Shells -> Steps]
      /\ \A t \in Shells: pc'[t] = "mkdirs" => cmd'[t].path # << >>
  BY <1>1 DEF Typed, Leave, Goto, Steps
<1>4. tree' \in [Shells -> SUBSET Nodes] /\ \A t \in Shells: IsFiniteSet(tree'[t])
  BY <1>2 DEF Typed, Leave
<1>5. todo' \in [Shells -> Seq(Calls)] /\ open' \in [Shells -> Seq(Streams)]
  BY DEF Typed, Leave
<1>6. list' \in [Shells -> SUBSET Nodes] /\ chosen' \in [Shells -> SUBSET Nodes]
  BY DEF Typed, Leave
<1> QED  BY <1>3, <1>4, <1>5, <1>6 DEF Typed, FileMap

LEMMA UserTyped ==
  ASSUME Typed, \/ \E f \in Files: (\E c \in Contents: Write(f, c)) \/ Erase(f)
                \/ Tick
  PROVE  Typed'
<1>1. ASSUME NEW f \in Files, NEW c \in Contents, Write(f, c) PROVE Typed'
  <2>1. Node(f, 0) \in Places  BY PathsAreSeqs DEF Node, Places
  <2>2. c \in Seq(Bytes)  BY ContentsAssumption
  <2>3. FileMap(home')  BY <1>1, <2>1, <2>2, WithTyped DEF Typed, Write
  <2> QED  BY <1>1, <2>3 DEF Typed, FileMap, Write, MayWrite, childVars
<1>2. ASSUME NEW f \in Files, Erase(f) PROVE Typed'
  <2>1. FileMap(home')  BY <1>2, RestrictTyped DEF Typed, Erase
  <2> QED  BY <1>2, <2>1 DEF Typed, FileMap, Erase, MayWrite, childVars
<1>3. ASSUME Tick PROVE Typed'
  BY <1>3 DEF Typed, FileMap, Tick, childVars
<1> QED  BY <1>1, <1>2, <1>3

LEMMA RunTyped ==
  ASSUME Typed, NEW s \in Shells, NEW op \in {"add", "remove", "clear", "recover"},
         NEW p \in Files \cup Dirs \cup {<< >>}, NEW new \in NewPaths \cup {<< >>},
         NEW all \in BOOLEAN, NEW at \in {"mkdirs", "snapshot"}, at = "mkdirs" => p # << >>,
         Run(s, op, p, new, all, at)
  PROVE  Typed'
<1>1. [op |-> op, path |-> p, new |-> new, all |-> all] \in Cmds  BY DEF Cmds
<1>2. pc' \in [Shells -> Steps] /\ cmd' \in [Shells -> Cmds]
      /\ \A t \in Shells: pc'[t] = "mkdirs" => cmd'[t].path # << >>
  BY <1>1 DEF Typed, Run, Goto, Steps
<1> QED  BY <1>2 DEF Typed, FileMap, Run, userVars

LEMMA ChildrenTyped ==
  /\ \A d: HomeChildren(d) \subseteq Nodes /\ IsFiniteSet(HomeChildren(d))
           /\ \A n \in HomeChildren(d): ~IsVersion(n)
  /\ Typed => Tree \subseteq Nodes /\ IsFiniteSet(Tree)
  /\ Nodes \subseteq Places
<1>1. ASSUME NEW d PROVE HomeChildren(d) \subseteq Nodes /\ IsFiniteSet(HomeChildren(d))
                         /\ \A n \in HomeChildren(d): ~IsVersion(n)
  <2> DEFINE f == [p \in Files \cup Dirs |-> Node(p, 0)]
  <2>1. IsFiniteSet({f[p]: p \in Files \cup Dirs})  BY PathsAreSeqs, ImageFinite
  <2>2. HomeChildren(d) \subseteq {f[p]: p \in Files \cup Dirs}  BY DEF HomeChildren
  <2>3. IsFiniteSet(HomeChildren(d))  BY <2>1, <2>2, FS_Subset
  <2>4. \A p \in Files \cup Dirs: f[p] \in Nodes /\ ~IsVersion(f[p])
    BY DEF Nodes, Node, IsVersion
  <2> HIDE DEF f
  <2> QED  BY <2>2, <2>3, <2>4
<1>2. ASSUME Typed PROVE Tree \subseteq Nodes /\ IsFiniteSet(Tree)
  <2> DEFINE f == [d \in bdirs |-> Node(d, 0)]
  <2>1. IsFiniteSet(bdirs) /\ bdirs \subseteq Files \cup Dirs
    BY <1>2, PathsAreSeqs, FS_Subset DEF Typed
  <2>2. IsFiniteSet({f[d]: d \in bdirs})  BY <2>1, ImageFinite
  <2>3. {f[d]: d \in bdirs} \subseteq Nodes  BY <2>1 DEF Nodes, Node
  <2>4. Tree = DOMAIN backup \cup {f[d]: d \in bdirs}  BY DEF Tree
  <2>5. IsFiniteSet(DOMAIN backup) /\ DOMAIN backup \subseteq Nodes  BY <1>2 DEF Typed
  <2> HIDE DEF f
  <2> QED  BY <2>2, <2>3, <2>4, <2>5, FS_Union
<1>3. Nodes \subseteq Places  BY PathsAreSeqs DEF Nodes, Places
<1> QED  BY <1>1, <1>2, <1>3

LEMMA AddTyped ==
  ASSUME WorkInv, NEW s \in Shells, AddStep(s)
  PROVE  Typed'
<1>0. /\ todo \in [Shells -> Seq(Calls)] /\ cmd[s] \in Cmds /\ pc \in [Shells -> Steps]
      /\ FileMap(home) /\ FileMap(backup) /\ Typed /\ AtWork(s)
  BY DEF WorkInv, AddAtWork, Typed
<1>1. ASSUME AddMkdirs(s) PROVE Typed'
  <2>1. cmd[s].path \in Files \cup Dirs  BY <1>0, <1>1 DEF AddMkdirs, Typed, Cmds
  <2>2. <<Node(cmd[s].path, 0)>> \in Seq(Nodes)  BY <2>1 DEF Node, Nodes
  <2>3. << >> \in Seq(Calls)  OBVIOUS
  <2>4. todo' \in [Shells -> Seq(Calls)]
    BY <1>0, <1>1, <2>2, <2>3, PushTyped DEF AddMkdirs
  <2>5. bdirs' \subseteq Dirs  BY <1>0, <1>1, <2>1, PathsAreSeqs DEF AddMkdirs, Typed
  <2>6. pc' \in [Shells -> Steps] /\ \A t \in Shells: pc'[t] = "mkdirs" => pc[t] = "mkdirs"
    BY <1>0, <1>1 DEF AddMkdirs, Goto, Steps
  <2> QED  BY <1>0, <1>1, <2>4, <2>5, <2>6 DEF AddMkdirs, Typed, FileMap, userVars
<1>2. ASSUME AddDir(s) PROVE Typed'
  <2> DEFINE d == Top(s).path
  <2>1. Top(s) \in Nodes /\ Tail(todo[s]) \in Seq(Calls)  BY <1>2, <1>0, TopTyped DEF AddDir
  <2>2. PICK order \in SetToSeqs(HomeChildren(d)): Push(s, order, "visit", Tail(todo[s]))
    BY <1>2 DEF AddDir
  <2>3. order \in Seq(Nodes)  BY <1>0, <2>2, ChildrenTyped, OrderIsSeq
  <2>4. todo' \in [Shells -> Seq(Calls)]  BY <1>0, <2>1, <2>2, <2>3, PushTyped
  <2>5. d \in Seq(Names) \ {<< >>} /\ IsHomeDir(d)
    BY <1>2, <2>1, PathsAreSeqs DEF AddDir, Nodes
  <2>6. d \in Dirs  BY <2>5, PathsAreSeqs
  <2>7. bdirs' \subseteq Dirs  BY <1>0, <1>2, <2>6 DEF AddDir, Typed
  <2> QED  BY <1>0, <1>2, <2>4, <2>7 DEF AddDir, Typed, FileMap, userVars
<1>3. ASSUME AddFile(s) \/ AddNew(s) PROVE Typed'
  BY <1>0, <1>3 DEF AddFile, AddNew, Goto, Typed, FileMap, userVars, Steps
<1>4. ASSUME AddGone(s) PROVE Typed'
  <2>1. todo' \in [Shells -> Seq(Calls)]
    BY <1>0, <1>4, TopTyped DEF AddGone, Pop
  <2> QED  BY <1>0, <1>4, <2>1 DEF AddGone, Typed, FileMap, userVars
<1>5. ASSUME AddSkip(s) PROVE Typed'
  <2>1. todo[s] # << >>  BY <1>0, <1>5 DEF AddSkip, AtWork
  <2>2. todo' \in [Shells -> Seq(Calls)]
    BY <1>0, <1>5, <2>1, TopTyped DEF AddSkip, Pop
  <2> QED  BY <1>0, <1>5, <2>2 DEF AddSkip, Goto, Typed, FileMap, userVars, Steps
<1>6. ASSUME AddDone(s) PROVE Typed'
  BY <1>0, <1>6, LeaveTyped DEF AddDone, Typed, userVars
<1>7. ASSUME AddCreate(s) \/ AddDies(s) PROVE Named(s) \in Nodes /\ Named(s) \in Places
  <2>1. pc[s] = "create"  BY <1>7 DEF AddCreate, AddDies
  <2>2. open[s] \in Seq(Streams) /\ Len(open[s]) = 1  BY <1>0, <2>1 DEF Typed, AtWork
  <2>3. Named(s) \in Places
    <3>1. open[s][1] \in Streams  BY <2>2
    <3> QED  BY <3>1 DEF Named, Streams
  <2>4. Top(s) \in Nodes /\ Named(s).path = Top(s).path  BY <1>0, <2>1, TopTyped DEF AtWork
  <2> QED  BY <2>3, <2>4 DEF Nodes, Places
<1>8. ASSUME AddCreate(s) PROVE Typed'
  <2> DEFINE v == Named(s)
  <2>1. v \in Nodes /\ v \in Places  BY <1>7, <1>8
  <2>2. backup' = With(backup, v, << >>)
        /\ open' = [open EXCEPT ![s] = <<[to |-> v, data |-> home[Top(s)]]>>]
    BY <1>8 DEF AddCreate
  <2> HIDE DEF v
  <2>3. FileMap(backup') /\ DOMAIN backup' = DOMAIN backup \cup {v}
    <3>1. << >> \in Seq(Bytes)  OBVIOUS
    <3> QED  BY <1>0, <2>1, <2>2, <3>1, WithTyped
  <2>4. IsFiniteSet(DOMAIN backup')
    <3>1. IsFiniteSet(DOMAIN backup)  BY <1>0 DEF Typed
    <3> QED  BY <2>3, <3>1, FS_AddElement
  <2>5. home[Top(s)] \in Seq(Bytes)  BY <1>0, <1>8 DEF AddCreate, FileMap
  <2>6. open' \in [Shells -> Seq(Streams)]
    <3>1. [to |-> v, data |-> home[Top(s)]] \in Streams  BY <2>1, <2>5 DEF Streams
    <3>2. <<[to |-> v, data |-> home[Top(s)]]>> \in Seq(Streams)  BY <3>1
    <3> QED  BY <1>0, <2>2, <3>2 DEF Typed
  <2> QED  BY <1>0, <1>8, <2>1, <2>3, <2>4, <2>6 DEF AddCreate, Goto, Typed, FileMap, userVars, Steps
<1>9. ASSUME AddDies(s) PROVE Typed'
  <2> DEFINE v == Named(s)
  <2>1. v \in Nodes /\ v \in Places  BY <1>7, <1>9
  <2>2. backup' = backup \/ backup' = With(backup, v, << >>)
    BY <1>9 DEF AddDies
  <2> HIDE DEF v
  <2>3. FileMap(backup') /\ DOMAIN backup' \subseteq DOMAIN backup \cup {v}
    <3>1. << >> \in Seq(Bytes)  OBVIOUS
    <3>2. FileMap(With(backup, v, << >>)) /\ DOMAIN With(backup, v, << >>) = DOMAIN backup \cup {v}
      BY <1>0, <2>1, <3>1, WithTyped
    <3>3. CASE backup' = backup  BY <1>0, <3>3 DEF FileMap
    <3>4. CASE backup' = With(backup, v, << >>)  BY <3>2, <3>4 DEF FileMap
    <3> QED  BY <2>2, <3>3, <3>4
  <2>4. IsFiniteSet(DOMAIN backup \cup {v})  BY <1>0, FS_AddElement DEF Typed
  <2>5. IsFiniteSet(DOMAIN backup') /\ DOMAIN backup' \subseteq Nodes
    BY <1>0, <2>1, <2>3, <2>4, FS_Subset DEF Typed
  <2> QED  BY <1>0, <1>9, <2>3, <2>5, LeaveTyped DEF AddDies, Typed, FileMap, userVars
<1>10. ASSUME AddCopy(s) PROVE Typed'
  <2>1. todo[s] # << >> /\ Len(open[s]) = 1  BY <1>0, <1>10 DEF AddCopy, AtWork
  <2>2. todo' \in [Shells -> Seq(Calls)]
    BY <1>0, <1>10, <2>1, TopTyped DEF AddCopy, Pop
  <2>3. open[s][1] \in Streams
    <3>1. open[s] \in Seq(Streams)  BY <1>0 DEF Typed
    <3> QED  BY <2>1, <3>1
  <2>4. FileMap(backup') /\ DOMAIN backup' = DOMAIN backup
    BY <1>0, <1>10, <2>3, WrittenTyped DEF AddCopy
  <2>5. open' \in [Shells -> Seq(Streams)] /\ pc' \in [Shells -> Steps]
        /\ \A t \in Shells: pc'[t] = "mkdirs" => pc[t] = "mkdirs"
    BY <1>0, <1>10 DEF AddCopy, Goto, Typed, Steps
  <2> QED  BY <1>0, <1>10, <2>2, <2>4, <2>5 DEF AddCopy, Goto, Typed, FileMap, userVars, Steps
<1>11. ASSUME AddName(s) PROVE Typed'
  <2> DEFINE v == Node(Top(s).path, now)
  <2>1. Top(s) \in Nodes  BY <1>0, <1>11, TopTyped DEF AddName, AtWork
  <2>2. v \in Places  BY <1>0, <2>1, ChildrenTyped DEF Typed, Nodes, Places, Node
  <2>3. open' = [open EXCEPT ![s] = <<[to |-> v, data |-> << >>]>>]  BY <1>11 DEF AddName
  <2> HIDE DEF v
  <2>4. open' \in [Shells -> Seq(Streams)]
    <3>1. [to |-> v, data |-> << >>] \in Streams  BY <2>2 DEF Streams
    <3>2. <<[to |-> v, data |-> << >>]>> \in Seq(Streams)  BY <3>1
    <3> QED  BY <1>0, <2>3, <3>2 DEF Typed
  <2> QED  BY <1>0, <1>11, <2>4 DEF AddName, Goto, Typed, FileMap, userVars, Steps
<1> QED  BY <1>1, <1>2, <1>3, <1>4, <1>5, <1>6, <1>8, <1>9, <1>10, <1>11 DEF AddStep

(* findNode on the way through the names of a path. *)
LEMMA FindNodeWay ==
  ASSUME NEW nodes, NEW p \in Seq(Names)
  PROVE  \E cp \in [0..Len(p) -> Seq(Names)]:
           /\ FindNode(nodes, p) = cp[Len(p)] /\ cp[0] = << >>
           /\ \A k \in 1..Len(p): cp[k] = IF Node(Append(cp[k-1], p[k]), 0) \in nodes
                                         THEN Append(cp[k-1], p[k]) ELSE cp[k-1]
<1> DEFINE Body(f, k) == IF k = 0 THEN << >>
                         ELSE IF Node(Append(f[k-1], p[k]), 0) \in nodes
                                THEN Append(f[k-1], p[k]) ELSE f[k-1]
           Solves(f) == f = [k \in 0..Len(p) |-> Body(f, k)]
           cp == CHOOSE f: Solves(f)
           Upto(n, f) == f \in [0..n -> Seq(Names)] /\ \A k \in 0..n: f[k] = Body(f, k)
           Done == {n \in Nat: n <= Len(p) => \E f: Upto(n, f)}
<1>0. Len(p) \in Nat /\ \A k \in 1..Len(p): p[k] \in Names  OBVIOUS
<1> HIDE DEF Upto
<1>1. Nat \subseteq Done
  <2>1. 0 \in Done
    <3> DEFINE f == [k \in 0..0 |-> << >>]
    <3>1. Upto(0, f)  BY DEF Upto
    <3> QED  BY <3>1
  <2>2. ASSUME NEW n \in Nat, n + 1 <= Len(p), NEW f, Upto(n, f) PROVE \E g: Upto(n + 1, g)
    <3> DEFINE g == [k \in 0..(n + 1) |-> IF k <= n THEN f[k] ELSE Body(f, n + 1)]
    <3>1. f \in [0..n -> Seq(Names)] /\ \A k \in 0..n: f[k] = Body(f, k)  BY <2>2 DEF Upto
    <3>2. n + 1 \in 1..Len(p) /\ p[n + 1] \in Names /\ f[n] \in Seq(Names)  BY <1>0, <2>2, <3>1
    <3>3. Body(f, n + 1) \in Seq(Names)  BY <3>2
    <3>4. g \in [0..(n + 1) -> Seq(Names)]  BY <3>1, <3>3
    <3>5. \A k \in 0..n: g[k] = f[k]  OBVIOUS
    <3>6. \A k \in 0..(n + 1): Body(g, k) = Body(f, k)
      <4> SUFFICES ASSUME NEW k \in 1..(n + 1) PROVE Body(g, k) = Body(f, k)  OBVIOUS
      <4>1. g[k - 1] = f[k - 1]  BY <3>5
      <4> QED  BY <4>1
    <3>7. g[n + 1] = Body(f, n + 1)  OBVIOUS
    <3> HIDE DEF g, Body
    <3>8. \A k \in 0..(n + 1): g[k] = Body(g, k)  BY <3>1, <3>5, <3>6, <3>7
    <3> QED  BY <3>4, <3>8 DEF Upto
  <2>3. \A n \in Done \cap Nat: n + 1 \in Done
    <3> SUFFICES ASSUME NEW n \in Done \cap Nat, n + 1 <= Len(p) PROVE \E g: Upto(n + 1, g)
      OBVIOUS
    <3>1. PICK f: Upto(n, f)  BY <1>0
    <3> QED  BY <2>2, <3>1
  <2> HIDE DEF Done
  <2> QED  BY <2>1, <2>3, SetInduction
<1>2. PICK f: Upto(Len(p), f)
  <2>1. Len(p) \in Done  BY <1>0, <1>1
  <2> QED  BY <1>0, <2>1
<1>3. Solves(f)  BY <1>2 DEF Upto
<1> HIDE DEF Solves
<1>4. Solves(cp)  BY <1>3
<1>5. FindNode(nodes, p) = cp[Len(p)]  BY DEF FindNode, Solves
<1> HIDE DEF cp
<1>6. \A k \in 0..Len(p): cp[k] = Body(cp, k)  BY <1>4 DEF Solves
<1>7. \A k \in 0..Len(p): cp[k] \in Seq(Names)
  <2> DEFINE Good == {n \in Nat: n <= Len(p) => cp[n] \in Seq(Names)}
  <2>1. 0 \in Good
    <3>1. 0 \in 0..Len(p) /\ Body(cp, 0) = << >>  BY <1>0
    <3>2. cp[0] = << >>  BY <1>6, <3>1
    <3>3. << >> \in Seq(Names)  OBVIOUS
    <3> QED  BY <3>2, <3>3
  <2>2. \A n \in Good \cap Nat: n + 1 \in Good
    <3> SUFFICES ASSUME NEW n \in Good \cap Nat, n + 1 <= Len(p) PROVE cp[n + 1] \in Seq(Names)
      OBVIOUS
    <3>1. n + 1 \in 1..Len(p) /\ p[n + 1] \in Names /\ cp[n] \in Seq(Names)  BY <1>0
    <3>2. cp[n + 1] = Body(cp, n + 1)  BY <1>6, <3>1
    <3> QED  BY <3>1, <3>2
  <2> HIDE DEF Good
  <2>3. Nat \subseteq Good  BY <2>1, <2>2, SetInduction
  <2> QED  BY <1>0, <2>3 DEF Good
<1>8. cp \in [0..Len(p) -> Seq(Names)]  BY <1>4, <1>7 DEF Solves
<1>9. cp[0] = << >> /\ \A k \in 1..Len(p): cp[k] = Body(cp, k)  BY <1>0, <1>6
<1> QED  BY <1>5, <1>8, <1>9

LEMMA CheckTyped ==
  ASSUME Typed, NEW s \in Shells,
         Snapshot(s) \/ CheckDir(s) \/ CheckFile(s) \/ CheckRefused(s) \/ Pick(s) \/ PickNone(s)
  PROVE  Typed'
<1>0. todo \in [Shells -> Seq(Calls)] /\ << >> \in Seq(Calls) /\ pc \in [Shells -> Steps]
      /\ list \in [Shells -> SUBSET Nodes]
  BY DEF Typed
<1>1. ASSUME Snapshot(s) PROVE Typed'
  <2>1. tree' \in [Shells -> SUBSET Nodes] /\ \A t \in Shells: IsFiniteSet(tree'[t])
    BY <1>1, ChildrenTyped DEF Snapshot, Typed
  <2> QED  BY <1>1, <2>1 DEF Snapshot, Goto, Typed, FileMap, userVars, Steps
<1>2. ASSUME CheckDir(s) PROVE Typed'
  <2> DEFINE below == Children(tree[s], Found(s))
  <2>1. PICK order \in SetToSeqs(below): Push(s, order, "visit", << >>)
    BY <1>2 DEF CheckDir
  <2>2. below \in SUBSET Nodes /\ IsFiniteSet(below)
    BY FS_Subset DEF Typed, Children
  <2>3. todo' \in [Shells -> Seq(Calls)]
    <3>1. order \in Seq(Nodes)  BY <2>1, <2>2, OrderIsSeq
    <3> QED  BY <1>0, <2>1, <3>1, PushTyped
  <2>4. pc' \in [Shells -> Steps] /\ \A t \in Shells: pc'[t] = "mkdirs" => pc[t] = "mkdirs"
    BY <1>0, <1>2 DEF CheckDir, Goto, Loop, Steps
  <2> QED  BY <1>2, <2>3, <2>4 DEF CheckDir, Typed, FileMap, userVars
<1>3. ASSUME CheckFile(s) PROVE Typed'
  <2> DEFINE found == Versions(cmd[s].path)
  <2>1. found \in SUBSET Nodes /\ IsFiniteSet(found)
    BY FS_Subset DEF Typed, Versions
  <2>2. todo' \in [Shells -> Seq(Calls)] /\ list' \in [Shells -> SUBSET Nodes]
        /\ pc' \in [Shells -> Steps] /\ \A t \in Shells: pc'[t] = "mkdirs" => pc[t] = "mkdirs"
    <3>1. CASE cmd[s].op = "remove" /\ (cmd[s].all \/ Single(found))
      <4>1. PICK order \in SetToSeqs(found): Push(s, order, "visit", << >>)
        BY <1>3, <3>1 DEF CheckFile
      <4>2. order \in Seq(Nodes)  BY <2>1, <4>1, OrderIsSeq
      <4>3. todo' \in [Shells -> Seq(Calls)]  BY <1>0, <4>1, <4>2, PushTyped
      <4> QED  BY <1>0, <1>3, <3>1, <4>3 DEF CheckFile, Goto, Steps
    <3>2. CASE ~(cmd[s].op = "remove" /\ (cmd[s].all \/ Single(found)))
      BY <1>0, <1>3, <2>1, <3>2 DEF CheckFile, Goto, Steps
    <3> QED  BY <3>1, <3>2
  <2>3. chosen' \in [Shells -> SUBSET Nodes]
    BY <1>3, <2>1 DEF CheckFile, Typed
  <2> QED  BY <1>3, <2>2, <2>3 DEF CheckFile, Typed, FileMap, userVars
<1>4. ASSUME CheckRefused(s) PROVE Typed'
  BY <1>4, LeaveTyped DEF CheckRefused, Typed, FileMap, userVars
<1>5. ASSUME Pick(s) PROVE Typed'
  <2>1. PICK v \in list[s]:
          IF cmd[s].op = "remove"
            THEN /\ Push(s, <<v>>, "visit", << >>) /\ Goto(s, "remove")
                 /\ list' = [list EXCEPT ![s] = {}] /\ UNCHANGED chosen
            ELSE /\ list' = [list EXCEPT ![s] = {v}]
                 /\ chosen' = [chosen EXCEPT ![s] = @ \cup {v}]
                 /\ Goto(s, "restore") /\ UNCHANGED todo
    BY <1>5 DEF Pick
  <2>2. v \in Nodes /\ <<v>> \in Seq(Nodes)  BY <1>0
  <2>3. todo' \in [Shells -> Seq(Calls)]  BY <1>0, <2>1, <2>2, PushTyped
  <2>4. list' \in [Shells -> SUBSET Nodes] /\ chosen' \in [Shells -> SUBSET Nodes]
        /\ pc' \in [Shells -> Steps] /\ \A t \in Shells: pc'[t] = "mkdirs" => pc[t] = "mkdirs"
    <3>1. CASE cmd[s].op = "remove"  BY <1>0, <2>1, <2>2, <3>1 DEF Goto, Steps, Typed
    <3>2. CASE cmd[s].op # "remove"
      <4>1. chosen' = [chosen EXCEPT ![s] = @ \cup {v}] /\ chosen \in [Shells -> SUBSET Nodes]
        BY <2>1, <3>2 DEF Typed
      <4>2. chosen' \in [Shells -> SUBSET Nodes]  BY <2>2, <4>1
      <4>3. list' = [list EXCEPT ![s] = {v}] /\ pc' = [pc EXCEPT ![s] = "restore"]
            /\ todo' = todo
        BY <2>1, <3>2 DEF Goto
      <4>4. list' \in [Shells -> SUBSET Nodes]  BY <1>0, <2>2, <4>3
      <4> QED  BY <1>0, <4>2, <4>3, <4>4 DEF Steps
    <3> QED  BY <3>1, <3>2
  <2> QED  BY <1>5, <2>3, <2>4 DEF Pick, Typed, FileMap, userVars
<1>6. ASSUME PickNone(s) PROVE Typed'
  BY <1>6 DEF PickNone, Goto, Typed, FileMap, userVars, Steps
<1> QED  BY <1>1, <1>2, <1>3, <1>4, <1>5, <1>6

LEMMA RemoveTyped ==
  ASSUME Typed, NEW s \in Shells, RemoveStep(s)
  PROVE  Typed'
<1>0. todo \in [Shells -> Seq(Calls)] /\ FileMap(backup)  BY DEF Typed
<1>1. ASSUME RemoveFile(s) PROVE Typed'
  <2>1. FileMap(backup') /\ DOMAIN backup' \subseteq DOMAIN backup
    BY <1>0, <1>1, RestrictTyped DEF RemoveFile
  <2>2. IsFiniteSet(DOMAIN backup')  BY <2>1, FS_Subset DEF Typed
  <2>3. todo' \in [Shells -> Seq(Calls)]
    BY <1>0, <1>1, TopTyped DEF RemoveFile, Removing, Pop
  <2> QED  BY <1>1, <2>1, <2>2, <2>3 DEF RemoveFile, Typed, FileMap, userVars
<1>2. ASSUME RemoveDir(s) PROVE Typed'
  <2> DEFINE below == Children(tree[s], Top(s).path)
             rest == <<[op |-> "rmdir", node |-> Top(s)]>> \o Tail(todo[s])
  <2>1. PICK order \in SetToSeqs(below): Push(s, order, "visit", rest)
    BY <1>2 DEF RemoveDir
  <2>2. below \in SUBSET Nodes /\ IsFiniteSet(below)
    BY FS_Subset DEF Typed, Children
  <2>3. Top(s) \in Nodes /\ Tail(todo[s]) \in Seq(Calls)
    BY <1>2, TopTyped DEF RemoveDir, Removing
  <2>4. rest \in Seq(Calls)
    <3>1. <<[op |-> "rmdir", node |-> Top(s)]>> \in Seq(Calls)  BY <2>3 DEF Calls
    <3> QED  BY <2>3, <3>1, ConcatProperties
  <2>5. order \in Seq(Nodes)  BY <2>1, <2>2, OrderIsSeq
  <2> HIDE DEF rest
  <2>6. todo' \in [Shells -> Seq(Calls)]  BY <1>0, <2>1, <2>4, <2>5, PushTyped
  <2> QED  BY <1>2, <2>6 DEF RemoveDir, Typed, FileMap, userVars
<1>3. ASSUME Rmdir(s) PROVE Typed'
  <2>1. todo' \in [Shells -> Seq(Calls)]
    BY <1>0, <1>3, TopTyped DEF Rmdir, Removing, Pop
  <2> QED  BY <1>3, <2>1 DEF Rmdir, Typed, FileMap, userVars
<1>4. ASSUME RemoveDone(s) PROVE Typed'
  BY <1>4, LeaveTyped DEF RemoveDone, Typed, FileMap, userVars
<1> QED  BY <1>1, <1>2, <1>3, <1>4 DEF RemoveStep

LEMMA TargetTyped ==
  ASSUME Typed, NEW s \in Shells, NEW v \in Nodes
  PROVE  Target(s, v) \in Places
<1>1. cmd[s].new \in NewPaths \cup {<< >>} /\ cmd[s].path \in Seq(Names)
  <2>1. cmd[s] \in Cmds  BY DEF Typed
  <2>2. << >> \in Seq(Names)  OBVIOUS
  <2> QED  BY <2>1, <2>2, PathsAreSeqs DEF Cmds
<1>2. v.path \in Seq(Names) \ {<< >>} /\ v.at \in Nat  BY PathsAreSeqs DEF Nodes
<1>3. cmd[s].new # << >> => cmd[s].new \in Seq(Names) \ {<< >>}
  BY <1>1, PathsAssumption
<1>4. Len(Found(s)) \in Nat
  <2>1. Found(s) \in Seq(Names)  BY <1>1, FindNodeWay DEF Found
  <2> QED  BY <2>1
<1>5. SubSeq(v.path, Len(Found(s)) + 1, Len(v.path)) \in Seq(Names)
  <2>1. \A i \in (Len(Found(s)) + 1)..Len(v.path): v.path[i] \in Names  BY <1>2, <1>4
  <2> QED  BY <1>2, <1>4, <2>1, SubSeqProperties
<1>6. cmd[s].new # << >> =>
        cmd[s].new \o SubSeq(v.path, Len(Found(s)) + 1, Len(v.path)) \in Seq(Names) \ {<< >>}
  BY <1>3, <1>5, ConcatProperties
<1>7. \A p \in Seq(Names) \ {<< >>}, t \in Nat: Node(p, t) \in Places  BY DEF Node, Places
<1> DEFINE moved == cmd[s].new \o SubSeq(v.path, Len(Found(s)) + 1, Len(v.path))
<1>8. \/ Target(s, v) = Node(v.path, 0)
      \/ cmd[s].new # << >> /\ Target(s, v) = Node(cmd[s].new, 0)
      \/ cmd[s].new # << >> /\ Target(s, v) = Node(moved, v.at)
  BY DEF Target
<1> HIDE DEF moved
<1>9. cmd[s].new # << >> => moved \in Seq(Names) \ {<< >>}  BY <1>6 DEF moved
<1>10. 0 \in Nat  OBVIOUS
<1> QED  BY <1>2, <1>3, <1>7, <1>8, <1>9, <1>10

LEMMA RecoverTyped ==
  ASSUME Typed, NEW s \in Shells, RecoverStep(s)
  PROVE  Typed'
<1>0. todo \in [Shells -> Seq(Calls)] /\ FileMap(backup) /\ FileMap(home)
      /\ pc \in [Shells -> Steps] /\ list \in [Shells -> SUBSET Nodes]
      /\ open \in [Shells -> Seq(Streams)]
  BY DEF Typed
<1>1. ASSUME RecoverDir(s) PROVE Typed'
  <2> DEFINE below == Children(tree[s], Top(s).path)
  <2>1. PICK order \in SetToSeqs(below): Push(s, order, "visit", Tail(todo[s]))
    BY <1>1 DEF RecoverDir
  <2>2. below \in SUBSET Nodes /\ IsFiniteSet(below)
    BY FS_Subset DEF Typed, Children
  <2>3. Tail(todo[s]) \in Seq(Calls)  BY <1>1, TopTyped DEF RecoverDir, Recovering
  <2>4. order \in Seq(Nodes)  BY <2>1, <2>2, OrderIsSeq
  <2>5. todo' \in [Shells -> Seq(Calls)]  BY <1>0, <2>1, <2>3, <2>4, PushTyped
  <2> QED  BY <1>1, <2>5 DEF RecoverDir, Typed, FileMap, userVars
<1>2. ASSUME RecoverGroup(s) PROVE Typed'
  <2> DEFINE same == {c.node: c \in {d \in ToSet(todo[s]): d.node.path = Top(s).path}}
  <2>1. ToSet(todo[s]) \subseteq Calls  BY <1>0 DEF ToSet
  <2>2. same \in SUBSET Nodes  BY <2>1 DEF Calls
  <2>3. list' \in [Shells -> SUBSET Nodes] /\ pc' \in [Shells -> Steps]
        /\ \A t \in Shells: pc'[t] = "mkdirs" => pc[t] = "mkdirs"
    BY <1>0, <1>2, <2>2 DEF RecoverGroup, Goto, Steps
  <2> QED  BY <1>2, <2>3 DEF RecoverGroup, Typed, FileMap, userVars
<1>3. ASSUME RecoverGone(s) PROVE Typed'
  <2>1. todo' \in [Shells -> Seq(Calls)]
    BY <1>0, <1>3, TopTyped DEF RecoverGone, Recovering, Pop
  <2> QED  BY <1>3, <2>1 DEF RecoverGone, Typed, FileMap, userVars
<1>4. ASSUME RecoverDone(s) PROVE Typed'
  BY <1>4 DEF RecoverDone, Goto, Typed, FileMap, userVars, Steps
<1>5. ASSUME Restore(s) PROVE Typed'
  <2>1. PICK v \in list[s]:
          /\ \/ /\ v \in DOMAIN backup /\ home' = With(home, Target(s, v), << >>)
                /\ open' = [open EXCEPT ![s] = Append(@, [to |-> Target(s, v), data |-> backup[v]])]
             \/ UNCHANGED <<home, open>>
          /\ bdirs' = bdirs \/ bdirs' = bdirs \cup Parents(v.path)
    BY <1>5 DEF Restore
  <2>2. v \in Nodes /\ Target(s, v) \in Places  BY <1>0, TargetTyped
  <2>3. FileMap(home') /\ open' \in [Shells -> Seq(Streams)]
    <3>1. CASE UNCHANGED <<home, open>>  BY <1>0, <3>1 DEF FileMap
    <3>2. CASE /\ v \in DOMAIN backup /\ home' = With(home, Target(s, v), << >>)
               /\ open' = [open EXCEPT ![s] = Append(@, [to |-> Target(s, v), data |-> backup[v]])]
      <4>1. << >> \in Seq(Bytes) /\ backup[v] \in Seq(Bytes)  BY <1>0, <3>2 DEF FileMap
      <4>2. FileMap(home')  BY <1>0, <2>2, <3>2, <4>1, WithTyped
      <4>3. [to |-> Target(s, v), data |-> backup[v]] \in Streams  BY <2>2, <4>1 DEF Streams
      <4>4. Append(open[s], [to |-> Target(s, v), data |-> backup[v]]) \in Seq(Streams)
        BY <1>0, <4>3
      <4> QED  BY <1>0, <3>2, <4>2, <4>4
    <3> QED  BY <2>1, <3>1, <3>2
  <2>4. bdirs' \subseteq Dirs  BY <2>1, <2>2, PathsAreSeqs DEF Typed, Nodes
  <2>5. todo' \in [Shells -> Seq(Calls)] /\ list' \in [Shells -> SUBSET Nodes]
    <3>1. todo[s] # << >> => Tail(todo[s]) \in Seq(Calls)  BY TopTyped
    <3>2. todo' = [todo EXCEPT ![s] = IF todo[s] # << >> THEN Tail(@) ELSE @]
          /\ list' = [list EXCEPT ![s] = {}]
      BY <1>5 DEF Restore, InDir
    <3> QED  BY <1>0, <3>1, <3>2
  <2>6. pc' \in [Shells -> Steps] /\ \A t \in Shells: pc'[t] = "mkdirs" => pc[t] = "mkdirs"
    BY <1>0, <1>5 DEF Restore, Goto, Steps
  <2> QED  BY <1>5, <2>3, <2>4, <2>5, <2>6 DEF Restore, Typed, FileMap, userVars
<1>6. ASSUME Flush(s) PROVE Typed'
  <2>1. open[s] \in Seq(Streams) /\ open[s] # << >>  BY <1>0, <1>6 DEF Flush
  <2>2. Last(open[s]) \in Streams  BY <2>1 DEF Last
  <2>3. FileMap(home')  BY <1>0, <1>6, <2>2, WrittenTyped DEF Flush
  <2>4. Front(open[s]) \in Seq(Streams)
    <3>1. \A i \in 1..(Len(open[s]) - 1): open[s][i] \in Streams  BY <2>1
    <3>2. Len(open[s]) \in Nat  BY <2>1
    <3> QED  BY <3>1, <3>2, SubSeqProperties DEF Front
  <2>5. open' \in [Shells -> Seq(Streams)]  BY <1>0, <1>6, <2>4 DEF Flush
  <2> QED  BY <1>6, <2>3, <2>5 DEF Flush, Typed, FileMap, userVars
<1>7. ASSUME Exit(s) PROVE Typed'
  BY <1>7, LeaveTyped DEF Exit, Typed, FileMap, userVars
<1> QED  BY <1>1, <1>2, <1>3, <1>4, <1>5, <1>6, <1>7 DEF RecoverStep

-----------------------------------------------------------------------------
(* Every step keeps the types and what is known of an add at work. *)

LEMMA StoreInvInit == Init => StoreInv
<1> SUFFICES ASSUME Init PROVE StoreInv  OBVIOUS
<1>1. NoCmd \in Cmds  BY DEF NoCmd, Cmds
<1>2. Typed  BY <1>1, FS_EmptySet DEF Init, Typed, FileMap, Steps
<1> QED  BY <1>2 DEF Init, StoreInv, WorkInv, AddAtWork, AtWork, Adding, OpenIsEmpty, SavesInto

LEMMA TypedStep ==
  ASSUME WorkInv, [Next]_vars
  PROVE  Typed'
<1>0. Typed  BY DEF WorkInv
<1>1. ASSUME NEW s \in Shells, ChildStep(s) PROVE Typed'
  BY <1>0, <1>1, AddTyped, RemoveTyped, RecoverTyped, CheckTyped DEF ChildStep
<1>2. ASSUME NEW s \in Shells, UserStep(s) PROVE Typed'
  <2>1. ASSUME Interrupt(s) PROVE Typed'
    BY <1>0, <2>1, LeaveTyped DEF Interrupt, Typed, FileMap, userVars
  <2>2. ASSUME ClearCommand(s) PROVE Typed'
    BY <1>0, <2>2, RunTyped DEF ClearCommand
  <2>3. ASSUME NEW p \in Files \cup Dirs, AddCommand(s, p) PROVE Typed'
    <3>1. p # << >>  BY PathsAreSeqs
    <3> QED  BY <1>0, <2>3, <3>1, RunTyped DEF AddCommand
  <2>4. ASSUME NEW p \in Files \cup Dirs, NEW all \in BOOLEAN, RemoveCommand(s, p, all) PROVE Typed'
    BY <1>0, <2>4, RunTyped DEF RemoveCommand
  <2>5. ASSUME NEW p \in Files \cup Dirs, NEW all \in BOOLEAN, NEW new \in NewPaths \cup {<< >>},
               RecoverCommand(s, p, new, all)
        PROVE Typed'
    BY <1>0, <2>5, RunTyped DEF RecoverCommand
  <2> QED  BY <1>0, <1>2, <2>1, <2>2, <2>3, <2>4, <2>5, CheckTyped DEF UserStep
<1>3. ASSUME UNCHANGED vars PROVE Typed'
  BY <1>0, <1>3 DEF Typed, FileMap, vars, userVars, childVars
<1> QED  BY <1>0, <1>1, <1>2, <1>3, UserTyped DEF Next

(* A step of one prompt or of its child leaves the others where they are. *)
LEMMA OthersKept ==
  ASSUME Typed, NEW s \in Shells, ChildStep(s) \/ UserStep(s), NEW t \in Shells, t # s
  PROVE  /\ pc'[t] = pc[t] /\ cmd'[t] = cmd[t] /\ tree'[t] = tree[t] /\ todo'[t] = todo[t]
         /\ list'[t] = list[t] /\ open'[t] = open[t] /\ chosen'[t] = chosen[t]
<1> DEFINE Kept == /\ pc'[t] = pc[t] /\ cmd'[t] = cmd[t] /\ tree'[t] = tree[t] /\ todo'[t] = todo[t]
                   /\ list'[t] = list[t] /\ open'[t] = open[t] /\ chosen'[t] = chosen[t]
<1> USE DEF Typed, Goto, Push, Pop
<1>1. ASSUME Leave(s) PROVE Kept  BY <1>1 DEF Leave
<1>2. ASSUME AddStep(s) PROVE Kept
  <2>1. CASE AddDone(s) \/ AddDies(s)  BY <1>1, <2>1 DEF AddDone, AddDies
  <2>2. CASE AddMkdirs(s) \/ AddDir(s) \/ AddFile(s) \/ AddGone(s)
    BY <2>2 DEF AddMkdirs, AddDir, AddFile, AddGone
  <2>3. CASE AddSkip(s) \/ AddNew(s) \/ AddName(s) \/ AddCreate(s) \/ AddCopy(s)
    BY <2>3 DEF AddSkip, AddNew, AddName, AddCreate, AddCopy
  <2> QED  BY <1>2, <2>1, <2>2, <2>3 DEF AddStep
<1>3. ASSUME RemoveStep(s) PROVE Kept
  <2>1. CASE RemoveDone(s)  BY <1>1, <2>1 DEF RemoveDone
  <2> QED  BY <1>3, <2>1 DEF RemoveStep, RemoveFile, RemoveDir, Rmdir
<1>4. ASSUME RecoverStep(s) PROVE Kept
  <2>1. CASE Exit(s)  BY <1>1, <2>1 DEF Exit
  <2>2. CASE RecoverDir(s) \/ RecoverGroup(s) \/ RecoverGone(s) \/ RecoverDone(s)
    BY <2>2 DEF RecoverDir, RecoverGroup, RecoverGone, RecoverDone
  <2>3. CASE Restore(s)  BY <2>3 DEF Restore
  <2>4. CASE Flush(s)  BY <2>4 DEF Flush
  <2> QED  BY <1>4, <2>1, <2>2, <2>3, <2>4 DEF RecoverStep
<1>5. ASSUME Snapshot(s) \/ CheckDir(s) \/ CheckRefused(s) \/ CheckFile(s) PROVE Kept
  <2>1. CASE CheckRefused(s)  BY <1>1, <2>1 DEF CheckRefused
  <2>2. CASE Snapshot(s) \/ CheckDir(s)  BY <2>2 DEF Snapshot, CheckDir
  <2>3. CASE CheckFile(s)  BY <2>3 DEF CheckFile
  <2> QED  BY <1>5, <2>1, <2>2, <2>3
<1>6. ASSUME UserStep(s) PROVE Kept
  <2>1. ASSUME NEW op, NEW p, NEW new, NEW all, NEW at, Run(s, op, p, new, all, at) PROVE Kept
    BY <2>1 DEF Run
  <2>2. CASE Interrupt(s)  BY <1>1, <2>2 DEF Interrupt
  <2>3. CASE Pick(s)  BY <2>3 DEF Pick
  <2>4. CASE PickNone(s)  BY <2>4 DEF PickNone
  <2>5. CASE ClearCommand(s)  BY <2>1, <2>5 DEF ClearCommand
  <2>6. ASSUME NEW p, NEW all, NEW new,
               AddCommand(s, p) \/ RemoveCommand(s, p, all) \/ RecoverCommand(s, p, new, all)
        PROVE Kept
    BY <2>1, <2>6 DEF AddCommand, RemoveCommand, RecoverCommand
  <2> QED  BY <1>6, <2>2, <2>3, <2>4, <2>5, <2>6 DEF UserStep
<1> QED  BY <1>2, <1>3, <1>4, <1>5, <1>6 DEF ChildStep

(* But for the end of a copy, versions are emptied, removed or left alone. *)
LEMMA VersionsKept ==
  ASSUME Typed, NEW s \in Shells, ChildStep(s) \/ UserStep(s), ~AddCopy(s),
         NEW v \in DOMAIN backup'
  PROVE  backup'[v] = << >> \/ (v \in DOMAIN backup /\ backup'[v] = backup[v])
<1>1. FileMap(backup) /\ << >> \in Seq(Bytes)  BY DEF Typed
<1>2. ASSUME AddCreate(s) \/ AddDies(s)
      PROVE  backup'[v] = << >> \/ (v \in DOMAIN backup /\ backup'[v] = backup[v])
  <2>1. backup' = backup \/ backup' = With(backup, Named(s), << >>)
    BY <1>2 DEF AddCreate, AddDies
  <2> QED  BY <2>1 DEF With
<1>3. ASSUME RemoveFile(s) PROVE v \in DOMAIN backup /\ backup'[v] = backup[v]
  BY <1>3 DEF RemoveFile, Restrict
<1>4. ASSUME ~AddCreate(s), ~AddDies(s), ~RemoveFile(s) PROVE backup' = backup
  <2>1. CASE AddStep(s)
    BY <1>4, <2>1 DEF AddStep, AddMkdirs, AddDir, AddFile, AddGone, AddDone, AddSkip, AddNew, AddName
  <2>2. CASE RemoveStep(s)
    BY <1>4, <2>2 DEF RemoveStep, RemoveDir, Rmdir, RemoveDone
  <2>3. CASE RecoverStep(s)
    BY <2>3 DEF RecoverStep, RecoverDir, RecoverGroup, RecoverGone, RecoverDone, Restore, Flush, Exit
  <2>4. CASE Snapshot(s) \/ CheckDir(s) \/ CheckFile(s) \/ CheckRefused(s)
    BY <2>4 DEF Snapshot, CheckDir, CheckFile, CheckRefused
  <2>5. CASE UserStep(s)
    BY <2>5 DEF UserStep, AddCommand, RemoveCommand, RecoverCommand, ClearCommand, Run, Pick,
                PickNone, Interrupt
  <2> QED  BY <2>1, <2>2, <2>3, <2>4, <2>5 DEF ChildStep
<1> QED  BY <1>2, <1>3, <1>4

(* What a child does while it adds, and how it comes to add. *)
LEMMA AddersStep ==
  ASSUME Typed, Typed', AddAtWork, NEW s \in Shells, ChildStep(s) \/ UserStep(s),
         pc'[s] \in Adding
  PROVE  AtWork(s)' /\ SavesInto(s)'
<1>0. pc \in [Shells -> Steps] /\ todo \in [Shells -> Seq(Calls)] /\ open \in [Shells -> Seq(Streams)]
      /\ FileMap(backup) /\ now \in Nat \ {0} /\ AtWork(s)
  BY DEF Typed, AddAtWork
<1>1. ASSUME NEW p, AddCommand(s, p) PROVE AtWork(s)' /\ SavesInto(s)'
  <2>1. cmd \in [Shells -> Cmds]  BY DEF Typed
  <2>2. pc'[s] = "mkdirs" /\ cmd'[s].op = "add"  BY <1>0, <1>1, <2>1 DEF AddCommand, Run, Goto
  <2> QED  BY <2>2 DEF AtWork, SavesInto, Adding
<1>2. ASSUME AddMkdirs(s) PROVE AtWork(s)' /\ SavesInto(s)'
  <2>1. cmd[s].path \in Files \cup Dirs  BY <1>2 DEF AddMkdirs, Typed, Cmds
  <2>2. <<Node(cmd[s].path, 0)>> \in Seq(Nodes) /\ ~IsVersion(Node(cmd[s].path, 0))
    BY <2>1 DEF Node, Nodes, IsVersion
  <2>3. << >> \in Seq(Calls) /\ Len(<< >>) = 0  OBVIOUS
  <2>4. todo'[s] = <<[op |-> "visit", node |-> Node(cmd[s].path, 0)]>>
    BY <1>0, <1>2, <2>2, <2>3 DEF AddMkdirs, Push
  <2>5. pc'[s] = "add" /\ cmd'[s].op = "add"
    BY <1>0, <1>2 DEF AddMkdirs, Goto, AtWork, Adding
  <2> QED  BY <2>2, <2>4, <2>5 DEF AtWork, SavesInto, Adding
<1>3. ASSUME AddDir(s) PROVE AtWork(s)' /\ SavesInto(s)'
  <2> DEFINE d == Top(s).path
             rest == Tail(todo[s])
  <2>1. rest \in Seq(Calls) /\ \A k \in 1..Len(rest): ~IsVersion(rest[k].node)
    <3>1. \A k \in DOMAIN todo[s]: ~IsVersion(todo[s][k].node)
      BY <1>0, <1>3 DEF AddDir, AtWork, Adding
    <3>2. rest \in Seq(Calls) /\ \A k \in 1..Len(rest): rest[k] = todo[s][k + 1] /\ k + 1 \in DOMAIN todo[s]
      BY <1>0, <1>3, TopTyped DEF AddDir
    <3> QED  BY <3>1, <3>2
  <2>2. PICK order \in SetToSeqs(HomeChildren(d)): Push(s, order, "visit", rest)
    BY <1>3 DEF AddDir
  <2>3. order \in Seq(Nodes) /\ Len(order) \in Nat /\ \A k \in 1..Len(order): ~IsVersion(order[k])
    BY <2>2, ChildrenTyped, OrderIsSeq
  <2> HIDE DEF rest
  <2>4. /\ todo'[s] \in Seq(Calls) /\ Len(todo'[s]) = Len(order) + Len(rest)
        /\ \A k \in 1..Len(order): todo'[s][k] = [op |-> "visit", node |-> order[k]]
        /\ \A k \in 1..Len(rest): todo'[s][Len(order) + k] = rest[k]
    <3>0. todo' \in [Shells -> Seq(Calls)]  BY DEF Typed
    <3>1. /\ todo \in [Shells -> Seq(Calls)] /\ rest \in Seq(Calls) /\ order \in Seq(Nodes)
          /\ Push(s, order, "visit", rest)
      BY <1>0, <2>1, <2>2, <2>3
    <3>2. Len(todo'[s]) = Len(order) + Len(rest)
      BY <3>1, PushTyped
    <3>3. \A k \in 1..Len(order): todo'[s][k] = [op |-> "visit", node |-> order[k]]
      BY <3>1, PushTyped
    <3>4. \A k \in 1..Len(rest): todo'[s][Len(order) + k] = rest[k]
      BY <3>1, PushTyped
    <3> QED  BY <3>0, <3>2, <3>3, <3>4
  <2>5. \A k \in DOMAIN todo'[s]: ~IsVersion(todo'[s][k].node)
    <3> SUFFICES ASSUME NEW k \in 1..(Len(order) + Len(rest)) PROVE ~IsVersion(todo'[s][k].node)
      BY <2>4
    <3>1. Len(rest) \in Nat  BY <2>1
    <3>2. CASE k \in 1..Len(order)
      <4>1. todo'[s][k] = [op |-> "visit", node |-> order[k]]  BY <2>4, <3>2
      <4>2. todo'[s][k].node = order[k]  BY <4>1
      <4> QED  BY <2>3, <3>2, <4>2
    <3>3. CASE k \notin 1..Len(order)
      <4>1. k - Len(order) \in 1..Len(rest) /\ k = Len(order) + (k - Len(order))  BY <2>3, <3>1, <3>3
      <4>2. todo'[s][k] = rest[k - Len(order)]  BY <2>4, <4>1
      <4> QED  BY <2>1, <4>1, <4>2
    <3> QED  BY <3>2, <3>3
  <2>6. pc'[s] = "add" /\ cmd'[s].op = "add"
    BY <1>0, <1>3 DEF AddDir, AtWork, Adding
  <2> QED  BY <2>5, <2>6 DEF AtWork, SavesInto, Adding
<1>4. ASSUME AddFile(s) \/ AddNew(s) PROVE AtWork(s)' /\ SavesInto(s)'
  BY <1>0, <1>4 DEF AddFile, AddNew, Goto, AtWork, SavesInto, Adding
<1>5. ASSUME AddGone(s) \/ AddSkip(s) \/ AddCopy(s) PROVE AtWork(s)' /\ SavesInto(s)'
  <2>1. pc'[s] = "add" /\ cmd'[s].op = "add" /\ todo[s] # << >> /\ todo'[s] = Tail(todo[s])
        /\ \A k \in DOMAIN todo[s]: ~IsVersion(todo[s][k].node)
    BY <1>0, <1>5 DEF AddGone, AddSkip, AddCopy, Goto, Pop, AtWork, Adding
  <2>2. \A k \in DOMAIN todo'[s]: k + 1 \in DOMAIN todo[s] /\ todo'[s][k] = todo[s][k + 1]
    BY <1>0, <2>1, TopTyped
  <2> QED  BY <2>1, <2>2 DEF AtWork, SavesInto, Adding
<1>6. ASSUME AddCreate(s) PROVE AtWork(s)' /\ SavesInto(s)'
  <2> DEFINE v == Named(s)
  <2>1. backup' = With(backup, v, << >>) /\ open'[s] = <<[to |-> v, data |-> home[Top(s)]]>>
        /\ pc'[s] = "copy" /\ todo' = todo
    BY <1>0, <1>6 DEF AddCreate, Goto
  <2>2. backup'[v] = << >> /\ v.path = Top(s).path /\ IsVersion(v)
    <3>1. pc[s] = "create"  BY <1>6 DEF AddCreate
    <3> QED  BY <1>0, <2>1, <3>1 DEF With, AtWork
  <2>3. Len(open'[s]) = 1 /\ Named(s)' = v  BY <2>1 DEF Named
  <2>4. Top(s)' = Top(s)  BY <2>1 DEF Top
  <2>5. /\ cmd'[s].op = "add" /\ todo'[s] # << >>
        /\ \A k \in DOMAIN todo'[s]: ~IsVersion(todo'[s][k].node)
    BY <1>0, <1>6, <2>1 DEF AtWork, Adding, AddCreate
  <2>6. open'[s][1].to = v  BY <2>3 DEF Named
  <2> HIDE DEF v
  <2> QED  BY <2>1, <2>2, <2>3, <2>4, <2>5, <2>6 DEF AtWork, SavesInto, Adding
<1>12. ASSUME AddName(s) PROVE AtWork(s)' /\ SavesInto(s)'
  <2> DEFINE v == Node(Top(s).path, now)
  <2>1. open'[s] = <<[to |-> v, data |-> << >>]>> /\ pc'[s] = "create" /\ todo' = todo
    BY <1>0, <1>12 DEF AddName, Goto
  <2>2. v.path = Top(s).path /\ IsVersion(v)  BY <1>0 DEF Node, IsVersion
  <2>3. Len(open'[s]) = 1 /\ Named(s)' = v  BY <2>1 DEF Named
  <2>4. Top(s)' = Top(s)  BY <2>1 DEF Top
  <2>5. /\ cmd'[s].op = "add" /\ todo'[s] # << >>
        /\ \A k \in DOMAIN todo'[s]: ~IsVersion(todo'[s][k].node)
    BY <1>0, <1>12, <2>1 DEF AtWork, Adding, AddName
  <2> HIDE DEF v
  <2> QED  BY <2>1, <2>2, <2>3, <2>4, <2>5 DEF AtWork, SavesInto, Adding
<1> USE <1>0
<1>7. ASSUME AddDone(s) \/ AddDies(s) PROVE FALSE
  BY <1>7 DEF AddDone, AddDies, Leave, Goto, Adding
<1>8. ASSUME RemoveStep(s) PROVE FALSE
  BY <1>8 DEF RemoveStep, RemoveFile, RemoveDir, Rmdir, RemoveDone, Leave, Goto, Removing, Adding
<1>9. ASSUME RecoverStep(s) PROVE FALSE
  BY <1>9 DEF RecoverStep, RecoverDir, RecoverGroup, RecoverGone, RecoverDone, Restore, Flush, Exit,
              Leave, Goto, Recovering, Adding
<1>10. ASSUME Snapshot(s) \/ CheckDir(s) \/ CheckFile(s) \/ CheckRefused(s) PROVE FALSE
  BY <1>10 DEF Snapshot, CheckDir, CheckFile, CheckRefused, Leave, Goto, Loop, Adding
<1>11. ASSUME ~\E p: AddCommand(s, p), UserStep(s) PROVE FALSE
  BY <1>11 DEF UserStep, RemoveCommand, RecoverCommand, ClearCommand, Run, Pick, PickNone, Interrupt,
               Leave, Goto, Adding
<1> QED  BY <1>1, <1>2, <1>3, <1>4, <1>5, <1>6, <1>7, <1>8, <1>9, <1>10, <1>11, <1>12 DEF ChildStep, AddStep

LEMMA WorkInvStep ==
  ASSUME WorkInv, [Next]_vars
  PROVE  WorkInv'
<1>0. Typed /\ AddAtWork  BY DEF WorkInv
<1>1. Typed'  BY TypedStep
<1>2. ASSUME NEW s \in Shells, ChildStep(s) \/ UserStep(s), NEW t \in Shells PROVE AtWork(t)'
  <2>1. CASE t = s /\ pc'[s] \in Adding  BY <1>0, <1>1, <1>2, <2>1, AddersStep
  <2>2. CASE t = s /\ pc'[s] \notin Adding  BY <2>2 DEF AtWork, Adding
  <2>3. CASE t # s
    <3>1. pc'[t] = pc[t] /\ cmd'[t] = cmd[t] /\ todo'[t] = todo[t] /\ open'[t] = open[t]
      BY <1>0, <1>2, <2>3, OthersKept
    <3>2. AtWork(t)  BY <1>0 DEF AddAtWork
    <3> QED  BY <3>1, <3>2 DEF AtWork, Top, Named
  <2> QED  BY <2>1, <2>2, <2>3
<1>3. AddAtWork'
  <2>1. CASE \E s \in Shells: ChildStep(s) \/ UserStep(s)  BY <1>2, <2>1 DEF AddAtWork
  <2>2. CASE UNCHANGED childVars  BY <1>0, <2>2 DEF AddAtWork, AtWork, Top, Named, childVars
  <2> QED  BY <2>1, <2>2 DEF Next, Write, Erase, MayWrite, Tick, vars
<1> QED  BY <1>1, <1>3 DEF WorkInv

LEMMA StoreInvStep ==
  ASSUME OneAdds, StoreInv, [Next]_vars
  PROVE  StoreInv'
<1>0. WorkInv /\ Typed /\ AddAtWork /\ OpenIsEmpty  BY DEF StoreInv, WorkInv
<1>1. WorkInv' /\ Typed'  BY <1>0, WorkInvStep DEF WorkInv
<1>2. ASSUME NEW s \in Shells, ChildStep(s) \/ UserStep(s), NEW t \in Shells PROVE SavesInto(t)'
  <2>1. CASE t = s /\ pc'[s] \in Adding  BY <1>0, <1>1, <1>2, <2>1, AddersStep
  <2>2. CASE t = s /\ pc'[s] \notin Adding  BY <2>2 DEF SavesInto, Adding
  <2>3. CASE t # s
    <3>1. pc'[t] = pc[t] /\ open'[t] = open[t]
      BY <1>0, <1>2, <2>3, OthersKept
    <3>2. SavesInto(t)  BY <1>0 DEF OpenIsEmpty
    <3>3. ASSUME pc[t] = "copy" PROVE ~AddCopy(s)
      BY <1>0, <2>3, <3>3 DEF OneAdds, AddAtWork, AtWork, Adding, AddCopy
    <3>4. ASSUME pc[t] = "copy", open[t][1].to \in DOMAIN backup'
          PROVE  backup'[open[t][1].to] = << >>
      <4>1. \/ backup'[open[t][1].to] = << >>
            \/ open[t][1].to \in DOMAIN backup /\ backup'[open[t][1].to] = backup[open[t][1].to]
        BY <1>0, <1>2, <3>3, <3>4, VersionsKept
      <4> QED  BY <3>2, <3>4, <4>1 DEF SavesInto
    <3> QED  BY <3>1, <3>4 DEF SavesInto
  <2> QED  BY <2>1, <2>2, <2>3
<1>3. OpenIsEmpty'
  <2>1. CASE \E s \in Shells: ChildStep(s) \/ UserStep(s)  BY <1>2, <2>1 DEF OpenIsEmpty
  <2>2. CASE UNCHANGED <<backup, childVars>>
    BY <1>0, <2>2 DEF OpenIsEmpty, SavesInto, childVars
  <2> QED  BY <2>1, <2>2 DEF Next, Write, Erase, MayWrite, Tick, vars
<1> QED  BY <1>1, <1>3 DEF StoreInv

-----------------------------------------------------------------------------
(* The refinement of VersionStore *)

LEMMA StoreFilesAre ==
  ASSUME Typed, NEW n \in DOMAIN home, ~IsVersion(n)
  PROVE  n.path \in DOMAIN StoreFiles /\ StoreFiles[n.path] = home[n]
<1>1. n \in Places  BY DEF Typed, FileMap
<1>2. Node(n.path, 0) = n  BY <1>1 DEF Places, Node, IsVersion
<1> QED  BY <1>2 DEF StoreFiles

LEMMA StoreInit == Init => Store!Init
<1> SUFFICES ASSUME Init PROVE Store!Init  OBVIOUS
<1>1. StoreVersions = [v \in {} |-> << >>]  BY DEF Init, StoreVersions, Restrict
<1>2. [s \in Shells |-> StoreSession(s)] = [s \in Shells |-> Store!Away]
  BY DEF Init, StoreSession, Store!Away
<1> QED  BY <1>1, <1>2 DEF Init, Store!Init

(* A step that leaves versions and adds alone is an edit of files at most. *)
LEMMA EditStep ==
  ASSUME UNCHANGED <<backup, now>>,
         \A s \in Shells: \/ pc'[s] = pc[s] /\ (pc[s] \in {"create", "copy"} => open'[s] = open[s])
                          \/ {pc[s], pc'[s]} \cap {"prompt", "create", "copy"} = {}
  PROVE  Store!Edit
<1>1. \A s \in Shells: StoreSession(s)' = StoreSession(s)  BY DEF StoreSession, Named
<1>2. StoreVersions' = StoreVersions  BY DEF StoreVersions, Restrict
<1> QED  BY <1>1, <1>2 DEF Store!Edit

(* The session of one prompt changes; the others' sessions stay. *)
LEMMA SessionChange ==
  ASSUME NEW s \in Shells, NEW to, StoreSession(s)' = to,
         \A t \in Shells \ {s}: StoreSession(t)' = StoreSession(t)
  PROVE  [t \in Shells |-> StoreSession(t)]' = [[t \in Shells |-> StoreSession(t)] EXCEPT ![s] = to]
OBVIOUS

(* One version is emptied or removed. *)
LEMMA SmallerStore ==
  ASSUME NEW v, DOMAIN backup' \ {v} = DOMAIN backup \ {v},
         \A n \in DOMAIN backup \ {v}: backup'[n] = backup[n],
         v \in DOMAIN backup' => backup'[v] = << >>
  PROVE  /\ StoreVersions' = Store!But(v)
         /\ v \notin DOMAIN StoreVersions => StoreVersions' = StoreVersions
<1>1. /\ StoreVersions = [n \in {m \in DOMAIN backup: backup[m] # << >>} |-> backup[n]]
      /\ StoreVersions' = [n \in {m \in DOMAIN backup': backup'[m] # << >>} |-> backup'[n]]
      /\ Store!But(v) = [n \in DOMAIN StoreVersions \ {v} |-> StoreVersions[n]]
  <2>1. StoreVersions = [n \in {m \in DOMAIN backup: backup[m] # << >>} |-> backup[n]]
    BY DEF StoreVersions, Restrict
  <2>2. StoreVersions' = [n \in {m \in DOMAIN backup': backup'[m] # << >>} |-> backup'[n]]
    BY DEF StoreVersions, Restrict
  <2>3. Store!But(v) = [n \in DOMAIN StoreVersions \ {v} |-> StoreVersions[n]]
    BY DEF Store!But, Store!Restrict
  <2> QED  BY <2>1, <2>2, <2>3
<1>2. DOMAIN StoreVersions = {m \in DOMAIN backup: backup[m] # << >>}
      /\ \A n \in DOMAIN StoreVersions: StoreVersions[n] = backup[n]
  BY <1>1
<1>3. {m \in DOMAIN backup': backup'[m] # << >>} = DOMAIN StoreVersions \ {v}
  BY <1>2
<1>4. \A n \in DOMAIN StoreVersions \ {v}: backup'[n] = StoreVersions[n]
  BY <1>2
<1>5. StoreVersions' = [n \in DOMAIN StoreVersions \ {v} |-> StoreVersions[n]]
  BY <1>1, <1>3, <1>4
<1>6. StoreVersions = [n \in DOMAIN StoreVersions |-> StoreVersions[n]]  BY <1>1
<1>7. v \notin DOMAIN StoreVersions => DOMAIN StoreVersions \ {v} = DOMAIN StoreVersions
  OBVIOUS
<1> QED  BY <1>1, <1>5, <1>6, <1>7

(* The steps by which a prompt's child begins, ends, saves and removes. *)
LEMMA ComeStep ==
  ASSUME Typed, NEW s \in Shells, NEW op, NEW p, NEW new, NEW all,
         NEW at \in {"mkdirs", "snapshot"}, Run(s, op, p, new, all, at)
  PROVE  Store!Come(s)
<1>1. pc \in [Shells -> Steps] /\ pc[s] = "prompt" /\ pc' = [pc EXCEPT ![s] = at]
      /\ UNCHANGED <<home, backup, now, open>>
  BY DEF Typed, Run, Goto, userVars
<1>2. StoreSession(s) = Store!Away /\ StoreSession(s)' = Store!Idle
  BY <1>1 DEF StoreSession, Store!Away, Store!Idle
<1>3. \A t \in Shells \ {s}: StoreSession(t)' = StoreSession(t)
  BY <1>1 DEF StoreSession, Named
<1>4. [t \in Shells |-> StoreSession(t)]'
        = [[t \in Shells |-> StoreSession(t)] EXCEPT ![s] = Store!Idle]
  BY <1>2, <1>3, SessionChange
<1>5. StoreFiles' = StoreFiles /\ StoreVersions' = StoreVersions /\ now' = now
  BY <1>1 DEF StoreFiles, StoreVersions, Restrict
<1> QED  BY <1>2, <1>4, <1>5 DEF Store!Come

LEMMA GoStep ==
  ASSUME Typed, NEW s \in Shells, Leave(s), pc[s] # "prompt", UNCHANGED <<home, now>>,
         \/ backup' = backup
         \/ /\ pc[s] = "create" /\ backup' = With(backup, Named(s), << >>)
            /\ \A t \in Shells \ {s}: pc[t] # "copy"
  PROVE  Store!Go(s)
<1>1. pc \in [Shells -> Steps] /\ open \in [Shells -> Seq(Streams)]
      /\ pc' = [pc EXCEPT ![s] = "prompt"] /\ open' = [open EXCEPT ![s] = << >>]
  BY DEF Typed, Leave, Goto
<1>2. StoreSession(s) # Store!Away /\ StoreSession(s)' = Store!Away
  <2>1. pc'[s] = "prompt"  BY <1>1
  <2>2. StoreSession(s)' = Store!Away  BY <2>1 DEF StoreSession, Store!Away
  <2>3. StoreSession(s).doing # "nothing"  BY DEF StoreSession
  <2>4. Store!Away.doing = "nothing"  BY DEF Store!Away
  <2> QED  BY <2>2, <2>3, <2>4
<1>3. \A t \in Shells \ {s}: StoreSession(t)' = StoreSession(t)
  BY <1>1 DEF StoreSession, Named
<1>4. [t \in Shells |-> StoreSession(t)]'
        = [[t \in Shells |-> StoreSession(t)] EXCEPT ![s] = Store!Away]
  BY <1>2, <1>3, SessionChange
<1>5. StoreFiles' = StoreFiles /\ now' = now  BY DEF StoreFiles
<1>6. \/ StoreVersions' = StoreVersions
      \/ Store!IsBeginning(s) /\ StoreVersions' = Store!But([t \in Shells |-> StoreSession(t)][s].version)
  <2>1. CASE backup' = backup  BY <2>1 DEF StoreVersions, Restrict
  <2>2. CASE pc[s] = "create" /\ backup' = With(backup, Named(s), << >>)
    <3> DEFINE v == Named(s)
    <3>1. Store!IsBeginning(s) /\ [t \in Shells |-> StoreSession(t)][s].version = v
      BY <2>2 DEF StoreSession, Store!IsBeginning
    <3> HIDE DEF v
    <3>2. DOMAIN backup' = DOMAIN backup \cup {v} /\ backup'[v] = << >>
          /\ \A n \in DOMAIN backup \ {v}: backup'[n] = backup[n]
      BY <2>2 DEF With, v
    <3>3. StoreVersions' = Store!But(v)  BY <3>2, SmallerStore
    <3> QED  BY <3>1, <3>3
  <2> QED  BY <2>1, <2>2
<1> QED  BY <1>2, <1>4, <1>5, <1>6 DEF Store!Go

(* A version is named: its saving is beginning, and nothing else changes. *)
LEMMA NameStep ==
  ASSUME StoreInv, NEW s \in Shells, AddName(s)
  PROVE  Store!Name(s, Top(s).path) /\ Top(s).path \in Files \cup Dirs
<1> DEFINE v == Node(Top(s).path, now)
<1>1. Typed /\ AtWork(s) /\ pc \in [Shells -> Steps] /\ open \in [Shells -> Seq(Streams)]
  BY DEF StoreInv, WorkInv, AddAtWork, Typed
<1>2. /\ pc[s] = "name" /\ open' = [open EXCEPT ![s] = <<[to |-> v, data |-> << >>]>>]
      /\ pc' = [pc EXCEPT ![s] = "create"] /\ UNCHANGED <<home, backup, now>>
  BY DEF AddName, Goto, userVars
<1>3. Top(s).path \in Files \cup Dirs  BY <1>1, <1>2, TopTyped DEF AtWork, Nodes
<1>4. v = [path |-> Top(s).path, at |-> now]  BY DEF Node
<1> HIDE DEF v
<1>5. StoreSession(s) = Store!Idle  BY <1>2 DEF StoreSession, Store!Idle
<1>6. StoreSession(s)' = Store!Beginning(v)
  <2>1. pc'[s] = "create" /\ open'[s][1].to = v  BY <1>1, <1>2
  <2> QED  BY <2>1 DEF StoreSession, Named, Store!Beginning
<1>7. \A t \in Shells \ {s}: StoreSession(t)' = StoreSession(t)
  BY <1>1, <1>2 DEF StoreSession, Named
<1>8. [t \in Shells |-> StoreSession(t)]'
        = [[t \in Shells |-> StoreSession(t)] EXCEPT ![s] = Store!Beginning(v)]
  BY <1>6, <1>7, SessionChange
<1>9. StoreFiles' = StoreFiles /\ StoreVersions' = StoreVersions /\ now' = now
  BY <1>2 DEF StoreFiles, StoreVersions, Restrict
<1> QED  BY <1>3, <1>4, <1>5, <1>8, <1>9 DEF Store!Name

LEMMA BeginStep ==
  ASSUME StoreInv, StoreInv', OneAdds, NEW s \in Shells, AddCreate(s)
  PROVE  Store!Begin(s)
<1> DEFINE v == Named(s)
<1>1. Typed /\ AtWork(s) /\ \A t \in Shells: AtWork(t)
      /\ pc \in [Shells -> Steps] /\ open \in [Shells -> Seq(Streams)]
  BY DEF StoreInv, WorkInv, AddAtWork, Typed
<1>2. /\ pc[s] = "create" /\ Top(s) \in DOMAIN home /\ backup' = With(backup, v, << >>)
      /\ open' = [open EXCEPT ![s] = <<[to |-> v, data |-> home[Top(s)]]>>]
      /\ pc' = [pc EXCEPT ![s] = "copy"] /\ UNCHANGED <<home, now>>
  BY DEF AddCreate, Goto, userVars
<1>3. ~IsVersion(Top(s))
  BY <1>1, <1>2, TopTyped DEF AtWork, Adding, Top
<1>4. Top(s).path \in DOMAIN StoreFiles /\ StoreFiles[Top(s).path] = home[Top(s)]
  BY <1>1, <1>2, <1>3, StoreFilesAre
<1>5. StoreSession(s) = Store!Beginning(v)  BY <1>2 DEF StoreSession, Store!Beginning
<1>6. StoreSession(s)' = Store!Saving(v, StoreFiles[Top(s).path])
  <2>1. v \in DOMAIN backup'  BY <1>2 DEF With
  <2>2. pc'[s] = "copy" /\ open'[s] = <<[to |-> v, data |-> home[Top(s)]]>>  BY <1>1, <1>2
  <2>3. open'[s][1].to = v /\ open'[s][1].data = home[Top(s)]  BY <2>2
  <2>4. Named(s)' = v  BY <2>3 DEF Named
  <2> HIDE DEF v
  <2> QED  BY <1>4, <2>1, <2>2, <2>3, <2>4 DEF StoreSession, Store!Saving
<1>7. \A t \in Shells \ {s}: StoreSession(t)' = StoreSession(t)
  <2>1. \A t \in Shells \ {s}: pc[t] # "copy"
    BY <1>1, <1>2 DEF OneAdds, AtWork, Adding
  <2> QED  BY <1>1, <1>2, <2>1 DEF StoreSession, Named
<1>8. [t \in Shells |-> StoreSession(t)]'
        = [[t \in Shells |-> StoreSession(t)] EXCEPT ![s] = Store!Saving(v, StoreFiles[Top(s).path])]
  <2> HIDE DEF v
  <2> QED  BY <1>6, <1>7, SessionChange
<1>9. StoreVersions' = Store!But(v)
  <2> HIDE DEF v
  <2>1. DOMAIN backup' = DOMAIN backup \cup {v} /\ backup'[v] = << >>
        /\ \A n \in DOMAIN backup \ {v}: backup'[n] = backup[n]
    BY <1>2 DEF With
  <2> QED  BY <2>1, SmallerStore
<1>10. StoreFiles' = StoreFiles /\ now' = now  BY <1>2 DEF StoreFiles
<1>11. v.path = Top(s).path  BY <1>1, <1>2 DEF AtWork
<1> HIDE DEF v
<1>12. Store!IsBeginning(s) /\ [t \in Shells |-> StoreSession(t)][s].version = v
  BY <1>5 DEF Store!IsBeginning, Store!Beginning
<1> QED  BY <1>4, <1>8, <1>9, <1>10, <1>11, <1>12 DEF Store!Begin

LEMMA SaveStep ==
  ASSUME StoreInv, OneAdds, NEW s \in Shells, AddCopy(s)
  PROVE  Store!Save(s) \/ UNCHANGED Store!vars
<1> DEFINE stream == open[s][1]
           v == stream.to
<1>1. Typed /\ FileMap(backup) /\ pc \in [Shells -> Steps] /\ open \in [Shells -> Seq(Streams)]
      /\ SavesInto(s) /\ \A t \in Shells: AtWork(t)
  BY DEF StoreInv, WorkInv, AddAtWork, OpenIsEmpty, Typed
<1>2. /\ pc[s] = "copy" /\ backup' = Written(backup, stream) /\ open' = [open EXCEPT ![s] = << >>]
      /\ pc' = [pc EXCEPT ![s] = "add"] /\ UNCHANGED <<home, now>>
  BY DEF AddCopy, Goto, userVars
<1>3. stream \in Streams
  <2>1. open[s] \in Seq(Streams) /\ Len(open[s]) = 1  BY <1>1, <1>2 DEF AtWork
  <2> QED  BY <2>1
<1>4. \A t \in Shells \ {s}: pc[t] # "copy"
  BY <1>1, <1>2 DEF OneAdds, AtWork, Adding
<1>5. StoreSession(s)' = Store!Idle /\ \A t \in Shells \ {s}: StoreSession(t)' = StoreSession(t)
  BY <1>1, <1>2, <1>4 DEF StoreSession, Named, Store!Idle
<1>6. [t \in Shells |-> StoreSession(t)]'
        = [[t \in Shells |-> StoreSession(t)] EXCEPT ![s] = Store!Idle]
  BY <1>5, SessionChange
<1>7. StoreFiles' = StoreFiles /\ now' = now  BY <1>2 DEF StoreFiles
<1>8. CASE v \notin DOMAIN backup
  <2>1. backup' = backup  BY <1>1, <1>2, <1>3, <1>8, WrittenTyped
  <2>2. StoreSession(s) = Store!Idle  BY <1>2, <1>8 DEF StoreSession, Named, Store!Idle
  <2>3. [t \in Shells |-> StoreSession(t)]' = [t \in Shells |-> StoreSession(t)]
    BY <1>5, <2>2
  <2>4. StoreVersions' = StoreVersions  BY <2>1 DEF StoreVersions, Restrict
  <2> QED  BY <1>7, <2>3, <2>4 DEF Store!vars
<1>9. CASE v \in DOMAIN backup
  <2>1. backup[v] = << >>  BY <1>1, <1>2, <1>9 DEF SavesInto
  <2>2. FileMap(backup') /\ DOMAIN backup' = DOMAIN backup /\ backup'[v] = stream.data
        /\ \A n \in DOMAIN backup: n # v => backup'[n] = backup[n]
    BY <1>1, <1>2, <1>3, <1>9, <2>1, WrittenTyped
  <2>3. StoreSession(s) = Store!Saving(v, stream.data)
    BY <1>2, <1>9 DEF StoreSession, Named, Store!Saving
  <2> HIDE DEF stream, v
  <2>4. /\ DOMAIN StoreVersions = {n \in DOMAIN backup: backup[n] # << >>}
        /\ \A n \in DOMAIN StoreVersions: StoreVersions[n] = backup[n]
        /\ StoreVersions' = [n \in {m \in DOMAIN backup': backup'[m] # << >>} |-> backup'[n]]
        /\ StoreVersions = [n \in DOMAIN StoreVersions |-> StoreVersions[n]]
    BY DEF StoreVersions, Restrict
  <2>5. StoreVersions' = IF stream.data = << >> THEN StoreVersions
                         ELSE [w \in DOMAIN StoreVersions \cup {v} |->
                                 IF w = v THEN stream.data ELSE StoreVersions[w]]
    <3>1. CASE stream.data = << >>
      <4>1. {m \in DOMAIN backup': backup'[m] # << >>} = DOMAIN StoreVersions
        BY <2>1, <2>2, <2>4, <3>1
      <4>2. \A n \in DOMAIN StoreVersions: backup'[n] = StoreVersions[n]
        BY <2>1, <2>2, <2>4, <3>1
      <4> QED  BY <2>4, <3>1, <4>1, <4>2
    <3>2. CASE stream.data # << >>
      <4>1. {m \in DOMAIN backup': backup'[m] # << >>} = DOMAIN StoreVersions \cup {v}
        BY <1>9, <2>1, <2>2, <2>4, <3>2
      <4>2. \A n \in DOMAIN StoreVersions \cup {v}:
              backup'[n] = IF n = v THEN stream.data ELSE StoreVersions[n]
        BY <2>1, <2>2, <2>4, <3>2
      <4> QED  BY <2>4, <3>2, <4>1, <4>2
    <3> QED  BY <3>1, <3>2
  <2>6. Store!IsSaving(s) /\ [t \in Shells |-> StoreSession(t)][s].version = v
        /\ [t \in Shells |-> StoreSession(t)][s].content = stream.data
    BY <2>3 DEF Store!IsSaving, Store!Saving
  <2> QED  BY <1>6, <1>7, <2>5, <2>6 DEF Store!Save
<1> QED  BY <1>8, <1>9

LEMMA RemoveStoreStep ==
  ASSUME StoreInv, NEW s \in Shells, RemoveFile(s)
  PROVE  \/ UNCHANGED Store!vars
         \/ \E v \in DOMAIN StoreVersions
                  \cup {StoreSession(d).version: d \in {e \in Shells: StoreSession(e).doing = "saving"}}:
              Store!Remove(s, v)
<1> DEFINE v == Top(s)
<1>1. pc \in [Shells -> Steps] /\ pc[s] = "remove" /\ UNCHANGED <<pc, open, home, now>>
      /\ backup' = Restrict(backup, DOMAIN backup \ {v})
  BY DEF StoreInv, WorkInv, Typed, RemoveFile, Removing, userVars
<1> HIDE DEF v
<1>2. StoreSession(s) = Store!Idle  BY <1>1 DEF StoreSession, Named, Store!Idle
<1>3. /\ StoreVersions' = Store!But(v)
      /\ v \notin DOMAIN StoreVersions => StoreVersions' = StoreVersions
  <2>1. DOMAIN backup' = DOMAIN backup \ {v} /\ \A n \in DOMAIN backup \ {v}: backup'[n] = backup[n]
    BY <1>1 DEF Restrict
  <2> QED  BY <2>1, SmallerStore
<1>4. ASSUME NEW t \in Shells
      PROVE  StoreSession(t)' = IF StoreSession(t).doing = "saving" /\ StoreSession(t).version = v
                                THEN Store!Idle ELSE StoreSession(t)
  <2>1. DOMAIN backup' = DOMAIN backup \ {v}  BY <1>1 DEF Restrict
  <2>2. CASE pc[t] = "copy" /\ open[t][1].to \in DOMAIN backup
    <3>1. StoreSession(t) = [doing |-> "saving", version |-> open[t][1].to, content |-> open[t][1].data]
      BY <2>2 DEF StoreSession, Named
    <3>2. StoreSession(t)' = IF open[t][1].to # v THEN StoreSession(t) ELSE Store!Idle
      BY <1>1, <2>1, <2>2, <3>1 DEF StoreSession, Named, Store!Idle
    <3> QED  BY <3>1, <3>2
  <2>3. CASE ~(pc[t] = "copy" /\ open[t][1].to \in DOMAIN backup)
    <3>1. StoreSession(t)' = StoreSession(t) /\ StoreSession(t).doing # "saving"
      BY <1>1, <2>1, <2>3 DEF StoreSession, Named
    <3> QED  BY <3>1
  <2> QED  BY <2>2, <2>3
<1>5. StoreFiles' = StoreFiles /\ now' = now  BY <1>1 DEF StoreFiles
<1>6. [t \in Shells |-> StoreSession(t)]'
        = [t \in Shells |-> IF Store!IsSaving(t) /\ [u \in Shells |-> StoreSession(u)][t].version = v
                             THEN Store!Idle ELSE [u \in Shells |-> StoreSession(u)][t]]
  BY <1>4 DEF Store!IsSaving
<1>7. Store!Remove(s, v)
  BY <1>2, <1>3, <1>5, <1>6 DEF Store!Remove
<1>8. CASE v \in DOMAIN StoreVersions
            \cup {StoreSession(d).version: d \in {e \in Shells: StoreSession(e).doing = "saving"}}
  BY <1>7, <1>8
<1>9. CASE v \notin DOMAIN StoreVersions
            \cup {StoreSession(d).version: d \in {e \in Shells: StoreSession(e).doing = "saving"}}
  <2>1. \A t \in Shells: StoreSession(t)' = StoreSession(t)  BY <1>4, <1>9
  <2>2. StoreVersions' = StoreVersions  BY <1>3, <1>9
  <2> QED  BY <1>5, <2>1, <2>2 DEF Store!vars
<1> QED  BY <1>8, <1>9

LEMMA StoreStep ==
  ASSUME OneAdds, StoreInv, StoreInv', [Next]_vars
  PROVE  Store!Next \/ UNCHANGED Store!vars
<1>0. Typed /\ AddAtWork /\ OpenIsEmpty /\ FileMap(backup) /\ pc \in [Shells -> Steps]
      /\ open \in [Shells -> Seq(Streams)]
  BY DEF StoreInv, WorkInv, Typed
<1>1. CASE UNCHANGED vars
  BY <1>1, EditStep DEF vars, userVars, childVars, Store!Next
<1>2. ASSUME NEW f \in Files, (\E c \in Contents: Write(f, c)) \/ Erase(f) PROVE Store!Edit
  BY <1>2, EditStep DEF Write, Erase, MayWrite, childVars
<1>3. ASSUME Tick PROVE Store!Tick
  <2>1. now' = now + 1 /\ UNCHANGED <<home, backup, pc, open>>  BY <1>3 DEF Tick, childVars
  <2>2. \A t \in Shells: StoreSession(t)' = StoreSession(t)  BY <2>1 DEF StoreSession, Named
  <2>3. StoreFiles' = StoreFiles /\ StoreVersions' = StoreVersions
    BY <2>1 DEF StoreFiles, StoreVersions, Restrict
  <2> QED  BY <2>1, <2>2, <2>3 DEF Store!Tick
<1>4. ASSUME NEW s \in Shells, ChildStep(s) \/ UserStep(s) PROVE Store!Next \/ UNCHANGED Store!vars
  <2>1. ASSUME NEW op, NEW p, NEW new, NEW all, NEW at \in {"mkdirs", "snapshot"},
               Run(s, op, p, new, all, at)
        PROVE  Store!Next
    BY <1>0, <2>1, ComeStep DEF Store!Next
  <2>2. ASSUME Leave(s), pc[s] # "prompt", UNCHANGED <<home, now, backup>> PROVE Store!Next
    BY <1>0, <2>2, GoStep DEF Store!Next
  <2>3. CASE AddDies(s)
    <3>1. \A t \in Shells \ {s}: pc[t] # "copy"
      BY <1>0, <2>3 DEF OneAdds, AddAtWork, AtWork, Adding, AddDies
    <3>2. backup' = backup \/ backup' = With(backup, Named(s), << >>)
      BY <2>3 DEF AddDies
    <3>3. Leave(s) /\ pc[s] = "create" /\ UNCHANGED <<home, now>>
      BY <2>3 DEF AddDies, userVars
    <3> QED  BY <1>0, <3>1, <3>2, <3>3, GoStep DEF Store!Next
  <2>4. CASE AddCreate(s)
    BY <2>4, BeginStep DEF Store!Next
  <2>5. CASE AddCopy(s)
    BY <2>5, SaveStep DEF Store!Next
  <2>6. CASE RemoveFile(s)
    <3>1. \A t \in Shells: Store!IsSaving(t) <=> StoreSession(t).doing = "saving"
      BY DEF Store!IsSaving
    <3>2. \A d \in Shells: [t \in Shells |-> StoreSession(t)][d].version = StoreSession(d).version
      OBVIOUS
    <3>3. {[t \in Shells |-> StoreSession(t)][d].version: d \in {e \in Shells: Store!IsSaving(e)}}
            = {StoreSession(d).version: d \in {e \in Shells: StoreSession(e).doing = "saving"}}
      BY <3>1, <3>2
    <3> QED  BY <2>6, <3>3, RemoveStoreStep DEF Store!Next
  <2>8. CASE AddName(s)
    BY <2>8, NameStep DEF Store!Next
  <2>7. CASE ~AddDies(s) /\ ~AddName(s) /\ ~AddCreate(s) /\ ~AddCopy(s) /\ ~RemoveFile(s)
    <3>1. CASE AddDone(s) \/ RemoveDone(s) \/ CheckRefused(s) \/ Exit(s) \/ Interrupt(s)
      BY <2>2, <3>1 DEF AddDone, RemoveDone, Removing, CheckRefused, Exit, Interrupt, userVars
    <3>2. CASE \/ ClearCommand(s)
               \/ \E p, all, new: \/ AddCommand(s, p) \/ RemoveCommand(s, p, all)
                                 \/ RecoverCommand(s, p, new, all)
      BY <2>1, <3>2 DEF ClearCommand, AddCommand, RemoveCommand, RecoverCommand
    <3> DEFINE Stays == /\ UNCHANGED <<backup, now>>
                        /\ {pc[s], pc'[s]} \cap {"prompt", "create", "copy"} = {}
    <3>3. ASSUME Stays PROVE Store!Next
      <4>1. \A t \in Shells \ {s}: pc'[t] = pc[t] /\ open'[t] = open[t]
        BY <1>0, <1>4, OthersKept
      <4>2. Store!Edit  BY <3>3, <4>1, EditStep
      <4> QED  BY <4>2 DEF Store!Next
    <3>4. CASE AddMkdirs(s) \/ AddDir(s) \/ AddFile(s) \/ AddGone(s) \/ AddSkip(s) \/ AddNew(s)
      <4>1. Stays
        BY <1>0, <3>4 DEF AddMkdirs, AddDir, AddFile, AddGone, AddSkip, AddNew, Goto, userVars
      <4> QED  BY <3>3, <4>1
    <3>5. CASE RemoveDir(s) \/ Rmdir(s) \/ Snapshot(s) \/ CheckDir(s) \/ CheckFile(s)
      <4>1. Stays
        BY <1>0, <3>5 DEF RemoveDir, Rmdir, Removing, Snapshot, CheckDir, CheckFile, Loop, Goto, userVars
      <4> QED  BY <3>3, <4>1
    <3>6. CASE Pick(s) \/ PickNone(s)
      <4>1. Stays  BY <1>0, <3>6 DEF Pick, PickNone, Goto, userVars
      <4> QED  BY <3>3, <4>1
    <3>7. CASE RecoverDir(s) \/ RecoverGroup(s) \/ RecoverGone(s) \/ RecoverDone(s)
      <4>1. Stays
        BY <1>0, <3>7 DEF RecoverDir, RecoverGroup, RecoverGone, RecoverDone, Recovering, Goto, userVars
      <4> QED  BY <3>3, <4>1
    <3>8. CASE Restore(s) \/ Flush(s)
      <4>1. Stays  BY <1>0, <3>8 DEF Restore, Flush, Goto, userVars
      <4> QED  BY <3>3, <4>1
    <3> HIDE DEF Stays
    <3> QED
      BY <1>4, <2>7, <3>1, <3>2, <3>4, <3>5, <3>6, <3>7, <3>8
      DEF ChildStep, UserStep, AddStep, RemoveStep, RecoverStep
  <2> QED  BY <2>3, <2>4, <2>5, <2>6, <2>7, <2>8
<1> QED  BY <1>1, <1>2, <1>3, <1>4 DEF Next, Store!Next

-----------------------------------------------------------------------------
(* If only one prompt at a time adds, then whatever others remove and      *)
(* recover meanwhile, whatever users write and whenever commands are       *)
(* interrupted, the backup directory is a store of whole versions.         *)
THEOREM StoreImplemented == Spec /\ []OneAdds => ImplementsStore
<1>1. StoreInv /\ OneAdds /\ [Next]_vars => StoreInv'
  BY StoreInvStep
<1>2. StoreInv /\ StoreInv' /\ OneAdds /\ [Next]_vars => [Store!Next]_(Store!vars)
  BY StoreStep
<1> QED  BY <1>1, <1>2, StoreInvInit, StoreInit, PTL DEF Spec, ImplementsStore, Store!Spec

(* What a version holds it keeps, until a child removes it or an add that  *)
(* was named for it, within its second, begins it again, if only later.    *)
Begins(s, v)  == (AddCreate(s) \/ AddDies(s)) /\ v = Named(s)
Removes(s, v) == RemoveFile(s) /\ v = Top(s)
Lasts(v) == (v \in DOMAIN backup' /\ backup'[v] = backup[v]) \/ \E s \in Shells: Begins(s, v) \/ Removes(s, v)
VersionsLast == [][\A v \in DOMAIN backup: backup[v] # << >> => Lasts(v)]_vars

LEMMA VersionsLastStep ==
  ASSUME StoreInv, [Next]_vars, NEW v \in DOMAIN backup, backup[v] # << >>
  PROVE  Lasts(v)
<1>0. Typed /\ AddAtWork /\ OpenIsEmpty  BY DEF StoreInv, WorkInv
<1>1. CASE UNCHANGED backup  BY <1>1 DEF Lasts
<1>2. ASSUME NEW s \in Shells, AddCreate(s) \/ AddDies(s) PROVE Lasts(v)
  <2> DEFINE w == Named(s)
  <2>1. backup' = backup \/ backup' = With(backup, w, << >>)  BY <1>2 DEF AddCreate, AddDies
  <2>2. CASE v = w  BY <1>2, <2>2 DEF Lasts, Begins
  <2>3. CASE v # w
    <3> HIDE DEF w
    <3> QED  BY <2>1, <2>3 DEF Lasts, With
  <2> QED  BY <2>2, <2>3
<1>3. ASSUME NEW s \in Shells, AddCopy(s) PROVE Lasts(v)
  <2> DEFINE w == open[s][1].to
  <2>1. pc[s] = "copy" /\ backup' = Written(backup, open[s][1])  BY <1>3 DEF AddCopy
  <2>2. w \in DOMAIN backup => backup[w] = << >>  BY <1>0, <2>1 DEF OpenIsEmpty, SavesInto
  <2>3. v # w  BY <2>2
  <2>4. DOMAIN backup' = DOMAIN backup /\ backup'[v] = backup[v]
    <3> DEFINE new == Overlay(open[s][1].data, backup[w])
    <3>1. backup' = backup \/ backup' = [backup EXCEPT ![w] = new]  BY <2>1 DEF Written
    <3> HIDE DEF w, new
    <3> QED  BY <2>3, <3>1
  <2> QED  BY <2>4 DEF Lasts
<1>4. ASSUME NEW s \in Shells, RemoveFile(s) PROVE Lasts(v)
  <2>1. CASE v = Top(s)  BY <1>4, <2>1 DEF Lasts, Removes
  <2>2. CASE v # Top(s)
    <3>1. backup' = Restrict(backup, DOMAIN backup \ {Top(s)})  BY <1>4 DEF RemoveFile
    <3> QED  BY <2>2, <3>1 DEF Lasts, Restrict
  <2> QED  BY <2>1, <2>2
<1>5. ASSUME NEW s \in Shells, ChildStep(s) \/ UserStep(s),
             ~AddCreate(s), ~AddDies(s), ~AddCopy(s), ~RemoveFile(s)
      PROVE  UNCHANGED backup
  <2>1. CASE AddStep(s)
    BY <1>5, <2>1 DEF AddStep, AddMkdirs, AddDir, AddFile, AddGone, AddSkip, AddNew, AddName, AddDone, Leave
  <2>2. CASE RemoveStep(s)
    BY <1>5, <2>2 DEF RemoveStep, RemoveDir, Rmdir, RemoveDone, Leave
  <2>3. CASE RecoverStep(s)
    BY <2>3 DEF RecoverStep, RecoverDir, RecoverGroup, RecoverGone, RecoverDone, Restore, Flush, Exit, Leave
  <2>4. CASE Snapshot(s) \/ CheckDir(s) \/ CheckFile(s) \/ CheckRefused(s)
    BY <2>4 DEF Snapshot, CheckDir, CheckFile, CheckRefused, Loop, Leave
  <2>5. CASE UserStep(s)
    BY <2>5 DEF UserStep, AddCommand, RemoveCommand, RecoverCommand, ClearCommand, Run, Pick, PickNone,
                Interrupt, Leave
  <2> QED  BY <1>5, <2>1, <2>2, <2>3, <2>4, <2>5 DEF ChildStep
<1>6. ASSUME NEW f \in Files, (\E c \in Contents: Write(f, c)) \/ Erase(f) PROVE UNCHANGED backup
  BY <1>6 DEF Write, Erase, MayWrite, childVars
<1>7. CASE Tick \/ UNCHANGED vars  BY <1>1, <1>7 DEF Tick, vars
<1> QED  BY <1>1, <1>2, <1>3, <1>4, <1>5, <1>6, <1>7 DEF Next

(* If only one prompt at a time adds, then a version that holds something  *)
(* is never written to again: it lasts until it is removed, or begun anew  *)
(* by an add that took its name within its second.                         *)
THEOREM VersionsLastCorrect == Spec /\ []OneAdds => VersionsLast
<1>1. StoreInv /\ OneAdds /\ [Next]_vars => StoreInv'
  BY StoreInvStep
<1>2. StoreInv /\ [Next]_vars => [\A v \in DOMAIN backup: backup[v] # << >> => Lasts(v)]_vars
  BY VersionsLastStep
<1> QED  BY <1>1, <1>2, StoreInvInit, PTL DEF Spec, VersionsLast

-----------------------------------------------------------------------------
(* Where things are *)

LEMMA PathsOnTheWay ==
  /\ \A p \in Seq(Names): Parents(p) = {d \in Seq(Names) \ {<< >>}: IsStrictPrefix(d, p)}
  /\ \A f \in Files, p \in Files \cup Dirs: ~IsStrictPrefix(f, p)
  /\ Dirs \cap NewPaths = {}
<1> DEFINE Given == Files \cup NewPaths
<1>0. Given \subseteq Seq(Names) /\ \A p, q \in Given: ~IsStrictPrefix(p, q)
  BY PathsAssumption
<1>1. ASSUME NEW p \in Seq(Names)
      PROVE  Parents(p) = {d \in Seq(Names) \ {<< >>}: IsStrictPrefix(d, p)}
  <2>1. ASSUME NEW k \in 1..(Len(p) - 1)
        PROVE  SubSeq(p, 1, k) \in Seq(Names) \ {<< >>} /\ IsStrictPrefix(SubSeq(p, 1, k), p)
    <3> DEFINE d == SubSeq(p, 1, k)
    <3>1. Len(p) \in Nat /\ k \in 0..Len(p) /\ k > 0 /\ k < Len(p)  OBVIOUS
    <3>2. d \in Seq(Names) /\ Len(d) = k /\ \A i \in 1..k: d[i] = p[i]  BY <3>1, UptoIs
    <3> HIDE DEF d
    <3>3. d # << >>  BY <3>1, <3>2
    <3>4. IsPrefix(d, p)  BY <3>1, <3>2, PrefixIs
    <3> QED  BY <3>1, <3>2, <3>3, <3>4, StrictPrefixIs DEF d
  <2>2. ASSUME NEW d \in Seq(Names) \ {<< >>}, IsStrictPrefix(d, p)
        PROVE  Len(d) \in 1..(Len(p) - 1) /\ d = SubSeq(p, 1, Len(d))
    <3>1. Len(d) < Len(p) /\ IsPrefix(d, p) /\ d = SubSeq(p, 1, Len(d))
      BY <2>2, StrictPrefixIs DEF IsStrictPrefix
    <3>2. Len(d) \in Nat \ {0} /\ Len(p) \in Nat  OBVIOUS
    <3> QED  BY <3>1, <3>2
  <2> QED  BY <2>1, <2>2 DEF Parents
<1>2. ASSUME NEW f \in Files, NEW p \in Files \cup Dirs PROVE ~IsStrictPrefix(f, p)
  <2>1. CASE p \in Files  BY <1>0, <2>1
  <2>2. CASE p \in Dirs
    <3>1. PICK q \in Given: IsStrictPrefix(p, q)  BY <2>2 DEF Dirs
    <3>2. f \in Seq(Names) /\ p \in Seq(Names) /\ q \in Seq(Names)  BY <1>0, PathsAreSeqs
    <3>3. IsStrictPrefix(f, p) => IsStrictPrefix(f, q)
      BY <3>1, <3>2, PrefixOrder DEF IsStrictPrefix
    <3> QED  BY <1>0, <3>1, <3>3
  <2> QED  BY <2>1, <2>2
<1>3. Dirs \cap NewPaths = {}  BY <1>0 DEF Dirs
<1> QED  BY <1>1, <1>2, <1>3

LEMMA StoredAre ==
  /\ \A n \in Stored: /\ n \in Nodes /\ n.path \in Files \cup Dirs /\ n.at \in Nat
                      /\ n.path \in Seq(Names) \ {<< >>}
                      /\ n \in Versioned <=> n.path \in Files
                      /\ n \in Versioned <=> IsVersion(n)
                      /\ n \notin Versioned => n = Node(n.path, 0) /\ n.path \in Dirs
  /\ \A d \in Dirs: Node(d, 0) \in Stored
  /\ Typed /\ Apart => Tree \subseteq Stored
<1>1. Dirs \cap Files = {} /\ Files \cup Dirs \subseteq Seq(Names) \ {<< >>}  BY PathsAreSeqs
<1>2. ASSUME NEW n \in Stored
      PROVE  /\ n \in Nodes /\ n.path \in Files \cup Dirs /\ n.at \in Nat
             /\ n \in Versioned <=> n.path \in Files
             /\ n \in Versioned <=> IsVersion(n)
             /\ n \notin Versioned => n = Node(n.path, 0) /\ n.path \in Dirs
  BY <1>1 DEF Stored, Versioned, Nodes, IsVersion, Node
<1>3. \A d \in Dirs: Node(d, 0) \in Stored  BY DEF Stored, Node
<1>4. Typed /\ Apart => Tree \subseteq Stored
  BY <1>3 DEF Typed, Apart, Tree, Stored
<1> QED  BY <1>1, <1>2, <1>3, <1>4

-----------------------------------------------------------------------------
(* Each command goes through its steps *)

LEMMA FitsStep ==
  ASSUME WorkInv, NEW s \in Shells, ChildStep(s) \/ UserStep(s), Fits(s)
  PROVE  Fits(s)'
<1>0. /\ pc \in [Shells -> Steps] /\ cmd \in [Shells -> Cmds] /\ cmd[s] \in Cmds
      /\ todo \in [Shells -> Seq(Calls)] /\ open \in [Shells -> Seq(Streams)]
      /\ pc[s] \in Adding => cmd[s].op = "add"
      /\ pc[s] = "mkdirs" => cmd[s].path # << >>
  BY DEF WorkInv, Typed, AddAtWork, AtWork
<1>a. cmd[s].op \in {"none", "add", "remove", "clear", "recover"}  BY <1>0 DEF Cmds
<1>1. ASSUME Leave(s) PROVE Fits(s)'
  <2>1. /\ pc'[s] = "prompt" /\ cmd'[s] = NoCmd /\ todo'[s] = << >> /\ open'[s] = << >>
    BY <1>0, <1>1 DEF Leave, Goto
  <2> QED  BY <2>1 DEF Fits, NoCmd
<1>2. ASSUME AddStep(s) PROVE Fits(s)'
  <2>1. CASE AddDone(s) \/ AddDies(s)  BY <1>1, <2>1 DEF AddDone, AddDies
  <2>2. CASE ~AddDone(s) /\ ~AddDies(s)
    <3>1. pc[s] \in Adding /\ cmd' = cmd /\ pc'[s] \in Adding \ {"mkdirs"}
      BY <1>0, <1>2, <2>2 DEF AddStep, AddMkdirs, AddDir, AddFile, AddGone, AddSkip, AddNew, AddName, AddCreate,
                        AddCopy, Goto, Adding
    <3> QED  BY <1>0, <3>1 DEF Fits, Adding
  <2> QED  BY <2>1, <2>2
<1>3. ASSUME RemoveStep(s) PROVE Fits(s)'
  <2>1. CASE RemoveDone(s)  BY <1>1, <2>1 DEF RemoveDone
  <2>2. CASE ~RemoveDone(s)
    <3>1. cmd' = cmd /\ pc' = pc /\ pc[s] = "remove"
      BY <1>3, <2>2 DEF RemoveStep, RemoveFile, RemoveDir, Rmdir, Removing
    <3> QED  BY <3>1 DEF Fits
  <2> QED  BY <2>1, <2>2
<1>4. ASSUME RecoverStep(s) PROVE Fits(s)'
  <2>1. CASE Exit(s)  BY <1>1, <2>1 DEF Exit
  <2>2. CASE ~Exit(s)
    <3>1. cmd' = cmd /\ pc[s] \in {"recover", "restore", "exit"}
          /\ pc'[s] \in {"recover", "restore", "exit", "pick"} /\ (pc[s] = "exit" => pc'[s] = "exit")
      BY <1>0, <1>4, <2>2 DEF RecoverStep, RecoverDir, RecoverGroup, RecoverGone, RecoverDone, Restore,
                              Flush, Recovering, Goto
    <3> QED  BY <1>a, <3>1 DEF Fits, Adding
  <2> QED  BY <2>1, <2>2
<1>5. ASSUME Snapshot(s) PROVE Fits(s)'
  <2>1. pc[s] = "snapshot" /\ pc'[s] = "check" /\ cmd' = cmd /\ todo' = todo /\ open' = open
    BY <1>0, <1>5 DEF Snapshot, Goto
  <2> QED  BY <1>a, <2>1 DEF Fits, Adding
<1>6. ASSUME CheckDir(s) \/ CheckFile(s) PROVE Fits(s)'
  <2>1. pc[s] = "check" /\ cmd' = cmd
    BY <1>6 DEF CheckDir, CheckFile
  <2>2. pc'[s] = "recover" => cmd[s].op = "recover"
    BY <1>0, <1>6 DEF CheckDir, CheckFile, Goto, Loop
  <2>3. pc'[s] = "remove" => cmd[s].op # "recover"
    BY <1>0, <1>6 DEF CheckDir, CheckFile, Goto, Loop
  <2>4. pc'[s] \in {"recover", "remove", "restore", "pick"}
    BY <1>0, <1>6 DEF CheckDir, CheckFile, Goto, Loop
  <2>5. pc'[s] = "restore" => cmd[s].op # "remove"
    BY <1>0, <1>6 DEF CheckDir, CheckFile, Goto, Loop, Single
  <2>6. pc'[s] \in {"restore", "pick"} => cmd[s].op # "clear"
    BY <1>0, <1>6 DEF CheckDir, CheckFile, Goto, Loop, Dir
  <2> QED  BY <1>a, <2>1, <2>2, <2>3, <2>4, <2>5, <2>6 DEF Fits, Adding
<1>7. ASSUME CheckRefused(s) PROVE Fits(s)'  BY <1>1, <1>7 DEF CheckRefused
<1>8. ASSUME Pick(s) \/ PickNone(s) PROVE Fits(s)'
  <2>1. pc[s] = "pick" /\ cmd' = cmd /\ pc'[s] \in {"remove", "restore", "exit"}
        /\ (pc'[s] = "remove" => cmd[s].op = "remove") /\ (pc'[s] = "restore" => cmd[s].op # "remove")
    BY <1>0, <1>8 DEF Pick, PickNone, Goto
  <2> QED  BY <1>a, <2>1 DEF Fits, Adding
<1>9. ASSUME NEW op \in {"add", "remove", "clear", "recover"}, NEW p, NEW new, NEW all, NEW at,
             Run(s, op, p, new, all, at),
             op = "add" => at = "mkdirs", op # "add" => at = "snapshot",
             op \in {"remove", "recover"} => p # << >>, op = "clear" => p = << >> /\ all
      PROVE  Fits(s)'
  <2>1. pc[s] = "prompt" /\ pc'[s] = at /\ cmd'[s] = [op |-> op, path |-> p, new |-> new, all |-> all]
        /\ todo' = todo /\ open' = open
    BY <1>0, <1>9 DEF Run, Goto
  <2>2. cmd'[s].op = op /\ cmd'[s].path = p /\ cmd'[s].all = all  BY <2>1
  <2>3. todo[s] = << >> /\ open[s] = << >>  BY <2>1 DEF Fits
  <2> QED  BY <1>9, <2>1, <2>2, <2>3 DEF Fits, Adding
<1>10. ASSUME UserStep(s) PROVE Fits(s)'
  <2>1. \A p \in Files \cup Dirs: p # << >>  BY PathsAreSeqs
  <2>2. CASE Interrupt(s)  BY <1>1, <2>2 DEF Interrupt
  <2>3. CASE Pick(s) \/ PickNone(s)  BY <1>8, <2>3
  <2>4. CASE ClearCommand(s)  BY <1>9, <2>4 DEF ClearCommand
  <2>5. ASSUME NEW p \in Files \cup Dirs, AddCommand(s, p) PROVE Fits(s)'
    BY <1>9, <2>5 DEF AddCommand
  <2>6. ASSUME NEW p \in Files \cup Dirs, NEW all \in BOOLEAN, RemoveCommand(s, p, all) PROVE Fits(s)'
    BY <1>9, <2>1, <2>6 DEF RemoveCommand
  <2>7. ASSUME NEW p \in Files \cup Dirs, NEW all \in BOOLEAN, NEW new, RecoverCommand(s, p, new, all)
        PROVE  Fits(s)'
    BY <1>9, <2>1, <2>7 DEF RecoverCommand
  <2> QED  BY <1>10, <2>2, <2>3, <2>4, <2>5, <2>6, <2>7 DEF UserStep
<1> QED  BY <1>2, <1>3, <1>4, <1>5, <1>6, <1>7, <1>10 DEF ChildStep

-----------------------------------------------------------------------------
(* What commands work on *)

LEMMA Pushed ==
  ASSUME NEW s \in Shells, todo \in [Shells -> Seq(Calls)],
         NEW nodes \in Seq(Nodes), NEW op \in {"visit", "rmdir"}, NEW rest \in Seq(Calls),
         Push(s, nodes, op, rest)
  PROVE  \A i \in DOMAIN todo'[s]:
           \/ \E k \in 1..Len(nodes): todo'[s][i] = [op |-> op, node |-> nodes[k]] /\ i = k
           \/ \E k \in 1..Len(rest): todo'[s][i] = rest[k] /\ i = Len(nodes) + k
<1> SUFFICES ASSUME NEW i \in DOMAIN todo'[s]
             PROVE  \/ \E k \in 1..Len(nodes): todo'[s][i] = [op |-> op, node |-> nodes[k]] /\ i = k
                    \/ \E k \in 1..Len(rest): todo'[s][i] = rest[k] /\ i = Len(nodes) + k
  OBVIOUS
<1>a. todo' \in [Shells -> Seq(Calls)]  BY PushTyped
<1>b. Len(todo'[s]) = Len(nodes) + Len(rest)  BY PushTyped
<1>c. \A k \in 1..Len(nodes): todo'[s][k] = [op |-> op, node |-> nodes[k]]  BY PushTyped
<1>1. /\ Len(todo'[s]) = Len(nodes) + Len(rest) /\ todo'[s] \in Seq(Calls)
      /\ \A k \in 1..Len(nodes): todo'[s][k] = [op |-> op, node |-> nodes[k]]
  BY <1>a, <1>b, <1>c
<1>2. \A k \in 1..Len(rest): todo'[s][Len(nodes) + k] = rest[k]
  BY PushTyped
<1>3. Len(nodes) \in Nat /\ Len(rest) \in Nat /\ i \in 1..(Len(nodes) + Len(rest))
  BY <1>1
<1>4. CASE i <= Len(nodes)  BY <1>1, <1>3, <1>4
<1>5. CASE i > Len(nodes)
  <2>1. i - Len(nodes) \in 1..Len(rest) /\ i = Len(nodes) + (i - Len(nodes))  BY <1>3, <1>5
  <2> QED  BY <1>2, <2>1
<1> QED  BY <1>3, <1>4, <1>5

(* Pushed on the stack of a child that removes or recovers. *)
LEMMA PushedStored ==
  ASSUME WorkInv, NEW s \in Shells, NEW S \in SUBSET Stored, IsFiniteSet(S),
         NEW rest \in Seq(Calls), \A k \in 1..Len(rest): rest[k].node \in Stored,
         \E order \in SetToSeqs(S): Push(s, order, "visit", rest)
  PROVE  \A k \in DOMAIN todo'[s]: todo'[s][k].node \in Stored
<1>1. PICK order \in SetToSeqs(S): Push(s, order, "visit", rest)  OBVIOUS
<1>2. S \subseteq Nodes /\ todo \in [Shells -> Seq(Calls)]  BY StoredAre DEF WorkInv, Typed
<1>3. order \in Seq(Nodes) /\ \A k \in 1..Len(order): order[k] \in S  BY <1>2, OrderIsSeq
<1> SUFFICES ASSUME NEW i \in DOMAIN todo'[s] PROVE todo'[s][i].node \in Stored  OBVIOUS
<1>4. \/ \E k \in 1..Len(order): todo'[s][i] = [op |-> "visit", node |-> order[k]]
      \/ \E k \in 1..Len(rest): todo'[s][i] = rest[k]
  <2>1. /\ order \in Seq(Nodes) /\ "visit" \in {"visit", "rmdir"} /\ Push(s, order, "visit", rest)
        /\ todo \in [Shells -> Seq(Calls)]
    BY <1>1, <1>2, <1>3
  <2>2. \A j \in DOMAIN todo'[s]:
          \/ \E k \in 1..Len(order): todo'[s][j] = [op |-> "visit", node |-> order[k]] /\ j = k
          \/ \E k \in 1..Len(rest): todo'[s][j] = rest[k] /\ j = Len(order) + k
    BY <2>1, Pushed
  <2> QED  BY <2>2
<1>5. ASSUME NEW k \in 1..Len(order), todo'[s][i] = [op |-> "visit", node |-> order[k]]
      PROVE  todo'[s][i].node = order[k]
  BY <1>5
<1> QED  BY <1>3, <1>4, <1>5

LEMMA KindsStep ==
  ASSUME WorkInv, Apart, NEW s \in Shells, ChildStep(s) \/ UserStep(s), Kinds(s)
  PROVE  Kinds(s)'
<1>0. /\ Typed /\ AtWork(s) /\ pc \in [Shells -> Steps] /\ todo \in [Shells -> Seq(Calls)]
      /\ tree \in [Shells -> SUBSET Nodes] /\ list \in [Shells -> SUBSET Nodes]
      /\ IsFiniteSet(tree[s]) /\ tree[s] \subseteq Stored /\ list[s] \subseteq Versioned
  BY DEF WorkInv, Typed, AddAtWork, Kinds
<1>a. << >> \in Seq(Calls) /\ \A k \in 1..Len(<< >>): << >>[k].node \in Stored  OBVIOUS
<1>1. ASSUME Leave(s) PROVE Kinds(s)'
  <2>1. pc'[s] = "prompt" /\ tree'[s] = {} /\ todo'[s] = << >> /\ list'[s] = {}
    BY <1>0, <1>1 DEF Leave, Goto
  <2> QED  BY <2>1 DEF Kinds
<1>2. ASSUME todo'[s] = todo[s] \/ (todo[s] # << >> /\ todo'[s] = Tail(todo[s])), pc[s] \notin Adding
      PROVE  \A k \in DOMAIN todo'[s]: todo'[s][k].node \in Stored
  <2>1. \A k \in DOMAIN todo[s]: todo[s][k].node \in Stored  BY <1>2 DEF Kinds
  <2>2. CASE todo'[s] = todo[s]  BY <2>1, <2>2
  <2>3. CASE todo[s] # << >> /\ todo'[s] = Tail(todo[s])
    <3>1. \A k \in DOMAIN todo'[s]: k + 1 \in DOMAIN todo[s] /\ todo'[s][k] = todo[s][k + 1]
      BY <1>0, <2>3, TopTyped
    <3> QED  BY <2>1, <3>1
  <2> QED  BY <1>2, <2>2, <2>3
<1>3. ASSUME AddStep(s) PROVE Kinds(s)'
  <2>1. CASE AddDone(s) \/ AddDies(s)  BY <1>1, <2>1 DEF AddDone, AddDies
  <2>2. CASE AddMkdirs(s) \/ AddDir(s) \/ AddGone(s) \/ AddSkip(s) \/ AddCopy(s)
    <3>1. tree' = tree /\ list' = list /\ pc'[s] = "add"
      BY <1>0, <2>2 DEF AddMkdirs, AddDir, AddGone, AddSkip, AddCopy, Goto
    <3> QED  BY <1>0, <3>1 DEF Kinds, Adding
  <2>3. CASE AddFile(s)
    <3>1. tree' = tree /\ list' = list /\ todo' = todo /\ pc'[s] = "scan" /\ pc[s] = "add" /\ todo[s] # << >>
          /\ Top(s) \in DOMAIN home
      BY <1>0, <2>3 DEF AddFile, Goto
    <3>2. Top(s) \in Nodes /\ ~IsVersion(Top(s))
      BY <1>0, <3>1, TopTyped DEF AtWork, Adding, Top
    <3>3. Top(s).path \in Files  BY <3>1, <3>2 DEF Apart, Nodes
    <3> QED  BY <1>0, <3>1, <3>3 DEF Kinds, Adding, Top
  <2>4. CASE AddNew(s) \/ AddName(s) \/ AddCreate(s)
    <3>1. /\ tree' = tree /\ list' = list /\ todo' = todo
          /\ pc'[s] \in {"name", "create", "copy"} /\ pc[s] \in {"scan", "name", "create"}
      BY <1>0, <2>4 DEF AddNew, AddName, AddCreate, Goto
    <3> QED  BY <1>0, <3>1 DEF Kinds, Adding, Top
  <2> QED  BY <1>3, <2>1, <2>2, <2>3, <2>4 DEF AddStep
<1>4. ASSUME Snapshot(s) PROVE Kinds(s)'
  <2>1. tree'[s] = Tree /\ list' = list /\ todo' = todo /\ pc'[s] = "check" /\ pc[s] = "snapshot"
    BY <1>0, <1>4 DEF Snapshot, Goto
  <2>2. Tree \subseteq Stored  BY <1>0, StoredAre
  <2> QED  BY <1>0, <2>1, <2>2 DEF Kinds, Adding
<1>5. ASSUME CheckDir(s) PROVE Kinds(s)'
  <2> DEFINE below == Children(tree[s], Found(s))
  <2>1. below \in SUBSET Stored /\ IsFiniteSet(below)  BY <1>0, FS_Subset DEF Children
  <2>2. \A k \in DOMAIN todo'[s]: todo'[s][k].node \in Stored
    BY <1>5, <1>a, <2>1, PushedStored DEF CheckDir
  <2>3. tree' = tree /\ list' = list /\ pc'[s] \in {"remove", "recover"}
    BY <1>0, <1>5 DEF CheckDir, Goto, Loop
  <2> QED  BY <1>0, <2>2, <2>3 DEF Kinds, Adding
<1>6. ASSUME CheckFile(s) PROVE Kinds(s)'
  <2> DEFINE found == Versions(cmd[s].path)
  <2>1. found \subseteq Versioned /\ found \in SUBSET Stored /\ IsFiniteSet(found)
    <3>1. found \subseteq DOMAIN backup /\ IsFiniteSet(DOMAIN backup)  BY <1>0 DEF Versions, Typed
    <3> QED  BY <3>1, FS_Subset DEF Apart, Stored
  <2>2. CASE cmd[s].op = "remove" /\ (cmd[s].all \/ Single(found))
    <3>1. \E order \in SetToSeqs(found): Push(s, order, "visit", << >>)
      BY <1>6, <2>2 DEF CheckFile
    <3>2. \A k \in DOMAIN todo'[s]: todo'[s][k].node \in Stored
      BY <1>a, <2>1, <3>1, PushedStored
    <3>3. tree' = tree /\ list' = list /\ pc'[s] = "remove"
      BY <1>0, <1>6, <2>2 DEF CheckFile, Goto
    <3> QED  BY <1>0, <3>2, <3>3 DEF Kinds, Adding
  <2>3. CASE ~(cmd[s].op = "remove" /\ (cmd[s].all \/ Single(found)))
    <3>1. tree' = tree /\ list'[s] = found /\ todo' = todo /\ pc'[s] \in {"restore", "pick"} /\ pc[s] = "check"
      BY <1>0, <1>6, <2>3 DEF CheckFile, Goto
    <3>2. pc'[s] \notin {"scan", "name", "create", "copy"} /\ pc[s] \notin Adding  BY <3>1 DEF Adding
    <3>3. \A k \in DOMAIN todo'[s]: todo'[s][k].node \in Stored  BY <1>2, <3>1, <3>2
    <3> QED  BY <1>0, <2>1, <3>1, <3>2, <3>3 DEF Kinds
  <2> QED  BY <2>2, <2>3
<1>7. ASSUME Pick(s) \/ PickNone(s) PROVE Kinds(s)'
  <2>1. pc[s] = "pick" /\ tree' = tree /\ pc'[s] \in {"remove", "restore", "exit"}
    BY <1>0, <1>7 DEF Pick, PickNone, Goto
  <2>2. CASE \E v \in list[s]: Push(s, <<v>>, "visit", << >>) /\ list' = [list EXCEPT ![s] = {}]
    <3>1. PICK v \in list[s]: Push(s, <<v>>, "visit", << >>) /\ list' = [list EXCEPT ![s] = {}]
      BY <2>2
    <3>2. v \in Stored /\ v \in Nodes /\ <<v>> \in Seq(Nodes) /\ <<v>>[1] = v /\ Len(<<v>>) = 1
      BY <1>0 DEF Stored
    <3>3. \A i \in DOMAIN todo'[s]: \/ \E k \in 1..Len(<<v>>): todo'[s][i] = [op |-> "visit", node |-> <<v>>[k]]
                                   \/ \E k \in 1..Len(<< >>): todo'[s][i] = << >>[k]
      BY <1>0, <1>a, <3>1, <3>2, Pushed
    <3>4. \A i \in DOMAIN todo'[s]: todo'[s][i] = [op |-> "visit", node |-> v]
      <4>1. (\A k \in 1..Len(<<v>>): <<v>>[k] = v) /\ ~\E k \in 1..Len(<< >>): TRUE  OBVIOUS
      <4> QED  BY <3>3, <4>1
    <3>5. \A i \in DOMAIN todo'[s]: todo'[s][i].node \in Stored  BY <3>2, <3>4
    <3>6. list'[s] = {}  BY <1>0, <3>1
    <3> QED  BY <1>0, <2>1, <3>5, <3>6 DEF Kinds, Adding
  <2>3. CASE UNCHANGED todo /\ (list' = list \/ \E v \in list[s]: list' = [list EXCEPT ![s] = {v}])
    <3>1. list'[s] \subseteq Versioned  BY <1>0, <2>3
    <3>2. pc'[s] \notin {"scan", "name", "create", "copy"} /\ pc[s] \notin Adding  BY <2>1 DEF Adding
    <3>3. \A k \in DOMAIN todo'[s]: todo'[s][k].node \in Stored  BY <1>2, <2>3, <3>2
    <3> QED  BY <1>0, <2>1, <3>1, <3>2, <3>3 DEF Kinds
  <2> QED  BY <1>7, <2>2, <2>3 DEF Pick, PickNone
<1>8. ASSUME RemoveStep(s) PROVE Kinds(s)'
  <2>1. CASE RemoveDone(s)  BY <1>1, <2>1 DEF RemoveDone
  <2>2. CASE RemoveFile(s) \/ Rmdir(s)
    <3>1. pc[s] = "remove" /\ pc' = pc /\ tree' = tree /\ list' = list /\ todo[s] # << >> /\ todo'[s] = Tail(todo[s])
      BY <1>0, <2>2 DEF RemoveFile, Rmdir, Removing, Pop
    <3>2. pc[s] \notin Adding  BY <3>1 DEF Adding
    <3>3. \A k \in DOMAIN todo'[s]: todo'[s][k].node \in Stored  BY <1>2, <3>1, <3>2
    <3> QED  BY <1>0, <3>1, <3>2, <3>3 DEF Kinds, Adding
  <2>3. CASE RemoveDir(s)
    <3> DEFINE below == Children(tree[s], Top(s).path)
               rest  == <<[op |-> "rmdir", node |-> Top(s)]>> \o Tail(todo[s])
    <3>1. pc[s] = "remove" /\ pc' = pc /\ tree' = tree /\ list' = list /\ todo[s] # << >>
      BY <2>3 DEF RemoveDir, Removing
    <3>2. Top(s) \in Stored /\ \A k \in DOMAIN todo[s]: todo[s][k].node \in Stored
      BY <1>0, <3>1, TopTyped DEF Kinds, Adding, Top
    <3>3. rest \in Seq(Calls) /\ \A k \in 1..Len(rest): rest[k].node \in Stored
      <4> DEFINE one == <<[op |-> "rmdir", node |-> Top(s)]>>
                 tl  == Tail(todo[s])
      <4>1. one \in Seq(Calls) /\ Len(one) = 1 /\ one[1].node = Top(s)
        BY <1>0, <3>1, TopTyped DEF Calls
      <4>2. tl \in Seq(Calls) /\ \A k \in 1..Len(tl): k + 1 \in DOMAIN todo[s] /\ tl[k] = todo[s][k + 1]
        BY <1>0, <3>1, TopTyped
      <4> HIDE DEF one, tl
      <4>0. one \in Seq(Calls) /\ tl \in Seq(Calls)  BY <4>1, <4>2
      <4>3. one \o tl \in Seq(Calls) /\ Len(one \o tl) = Len(one) + Len(tl)
        BY <4>0, ConcatParts
      <4>4. \A k \in 1..Len(one): (one \o tl)[k] = one[k]
        BY <4>0, ConcatParts
      <4>5. \A k \in 1..Len(tl): (one \o tl)[Len(one) + k] = tl[k]
        BY <4>0, ConcatParts
      <4>6. ASSUME NEW k \in 1..Len(one \o tl) PROVE (one \o tl)[k].node \in Stored
        <5>1. CASE k = 1  BY <3>2, <4>1, <4>4, <5>1
        <5>2. CASE k > 1
          <6>1. k - 1 \in 1..Len(tl) /\ k = Len(one) + (k - 1)
            <7>1. Len(tl) \in Nat  BY <4>2
            <7> QED  BY <4>1, <4>3, <5>2, <7>1
          <6>2. (one \o tl)[k] = tl[k - 1]  BY <4>5, <6>1
          <6> QED  BY <3>2, <4>2, <6>1, <6>2
        <5> QED  BY <4>1, <5>1, <5>2
      <4> QED  BY <4>3, <4>6 DEF one, tl
    <3>4. below \in SUBSET Stored /\ IsFiniteSet(below)  BY <1>0, FS_Subset DEF Children
    <3>5. \E order \in SetToSeqs(below): Push(s, order, "visit", rest)  BY <2>3 DEF RemoveDir
    <3> HIDE DEF below, rest
    <3>6. \A k \in DOMAIN todo'[s]: todo'[s][k].node \in Stored
      BY <3>3, <3>4, <3>5, PushedStored
    <3> QED  BY <1>0, <3>1, <3>6 DEF Kinds, Adding
  <2> QED  BY <1>8, <2>1, <2>2, <2>3 DEF RemoveStep
<1>9. ASSUME RecoverStep(s) PROVE Kinds(s)'
  <2>1. CASE Exit(s)  BY <1>1, <2>1 DEF Exit
  <2>2. CASE RecoverGone(s) \/ RecoverDone(s) \/ Restore(s) \/ Flush(s)
    <3>1. /\ pc[s] \in {"recover", "restore", "exit"} /\ pc'[s] \in {"recover", "exit"} /\ tree' = tree
          /\ list'[s] \in {list[s], {}}
      BY <1>0, <2>2 DEF RecoverGone, RecoverDone, Restore, Flush, Recovering, Goto
    <3>2. todo'[s] = todo[s] \/ (todo[s] # << >> /\ todo'[s] = Tail(todo[s]))
      BY <1>0, <2>2 DEF RecoverGone, RecoverDone, Restore, Flush, Recovering, Pop, InDir
    <3>3. pc'[s] \notin {"scan", "name", "create", "copy"} /\ pc[s] \notin Adding  BY <3>1 DEF Adding
    <3>4. \A k \in DOMAIN todo'[s]: todo'[s][k].node \in Stored  BY <1>2, <3>2, <3>3
    <3> QED  BY <1>0, <3>1, <3>3, <3>4 DEF Kinds
  <2>3. CASE RecoverGroup(s)
    <3> DEFINE same == {c.node: c \in {d \in ToSet(todo[s]): d.node.path = Top(s).path}}
    <3>1. /\ pc[s] = "recover" /\ pc'[s] \in {"restore", "pick"} /\ tree' = tree /\ todo' = todo
          /\ list'[s] = same /\ IsVersion(Top(s)) /\ todo[s] # << >>
      BY <1>0, <2>3 DEF RecoverGroup, Recovering, Goto
    <3>2. \A k \in DOMAIN todo[s]: todo[s][k].node \in Stored  BY <3>1 DEF Kinds, Adding
    <3>3. Top(s) \in Stored  BY <1>0, <3>1, <3>2, TopTyped DEF Top
    <3>4. Top(s).path \in Files  BY <3>1, <3>3, StoredAre
    <3>5. same \subseteq Versioned  BY <3>2, <3>4, StoredAre DEF ToSet
    <3> QED  BY <1>0, <3>1, <3>2, <3>5 DEF Kinds, Adding
  <2>4. CASE RecoverDir(s)
    <3> DEFINE below == Children(tree[s], Top(s).path)
               rest  == Tail(todo[s])
    <3>1. pc[s] = "recover" /\ pc' = pc /\ tree' = tree /\ list' = list /\ todo[s] # << >>
      BY <2>4 DEF RecoverDir, Recovering
    <3>2. rest \in Seq(Calls) /\ \A k \in 1..Len(rest): rest[k].node \in Stored
      <4>1. \A k \in DOMAIN todo[s]: todo[s][k].node \in Stored  BY <3>1 DEF Kinds, Adding
      <4>2. rest \in Seq(Calls) /\ \A k \in 1..Len(rest): k + 1 \in DOMAIN todo[s] /\ rest[k] = todo[s][k + 1]
        BY <1>0, <3>1, TopTyped
      <4> QED  BY <4>1, <4>2
    <3>3. below \in SUBSET Stored /\ IsFiniteSet(below)  BY <1>0, FS_Subset DEF Children
    <3>4. \E order \in SetToSeqs(below): Push(s, order, "visit", rest)  BY <2>4 DEF RecoverDir
    <3> HIDE DEF below, rest
    <3>5. \A k \in DOMAIN todo'[s]: todo'[s][k].node \in Stored
      BY <3>2, <3>3, <3>4, PushedStored
    <3> QED  BY <1>0, <3>1, <3>5 DEF Kinds, Adding
  <2> QED  BY <1>9, <2>1, <2>2, <2>3, <2>4 DEF RecoverStep
<1>10. ASSUME CheckRefused(s) PROVE Kinds(s)'  BY <1>1, <1>10 DEF CheckRefused
<1>11. ASSUME NEW op, NEW p, NEW new, NEW all, NEW at \in {"mkdirs", "snapshot"}, Run(s, op, p, new, all, at)
       PROVE  Kinds(s)'
  <2>1. pc[s] = "prompt" /\ pc'[s] = at /\ tree' = tree /\ list' = list /\ todo' = todo
    BY <1>0, <1>11 DEF Run, Goto
  <2>2. \A k \in DOMAIN todo'[s]: todo'[s][k].node \in Stored  BY <2>1 DEF Kinds, Adding
  <2> QED  BY <1>0, <2>1, <2>2 DEF Kinds, Adding
<1>12. ASSUME UserStep(s) PROVE Kinds(s)'
  <2>1. CASE Interrupt(s)  BY <1>1, <2>1 DEF Interrupt
  <2>2. CASE Pick(s) \/ PickNone(s)  BY <1>7, <2>2
  <2>3. CASE ClearCommand(s)  BY <1>11, <2>3 DEF ClearCommand
  <2>4. ASSUME NEW p, NEW all, NEW new,
               AddCommand(s, p) \/ RemoveCommand(s, p, all) \/ RecoverCommand(s, p, new, all)
        PROVE  Kinds(s)'
    BY <1>11, <2>4 DEF AddCommand, RemoveCommand, RecoverCommand
  <2> QED  BY <1>12, <2>1, <2>2, <2>3, <2>4 DEF UserStep
<1> QED  BY <1>3, <1>4, <1>5, <1>6, <1>8, <1>9, <1>10, <1>12 DEF ChildStep

-----------------------------------------------------------------------------
(* Files, directories and versions stay where they belong *)

LEMMA ApartStep ==
  ASSUME WorkInv, Apart, NEW s \in Shells, ChildStep(s) \/ UserStep(s), Kinds(s)
  PROVE  Apart'
<1>0. /\ Typed /\ AtWork(s) /\ now \in Nat \ {0} /\ FileMap(backup) /\ FileMap(home)
      /\ list[s] \subseteq Versioned /\ cmd[s] \in Cmds /\ open[s] \in Seq(Streams)
  BY DEF WorkInv, Typed, AddAtWork, Kinds
<1>1. DOMAIN backup' \subseteq Versioned
  <2>1. ASSUME AddCreate(s) \/ AddDies(s) PROVE DOMAIN backup' \subseteq Versioned
    <3>1. Top(s).path \in Files  BY <2>1 DEF AddCreate, AddDies, Kinds
    <3>2. Named(s) \in Versioned
      <4>1. Len(open[s]) = 1 /\ IsVersion(Named(s)) /\ Named(s).path = Top(s).path
        BY <1>0, <2>1 DEF AddCreate, AddDies, AtWork
      <4>2. Named(s) \in Places
        <5>1. open[s][1] \in Streams  BY <1>0, <4>1
        <5> QED  BY <5>1 DEF Named, Streams
      <4> QED  BY <3>1, <4>1, <4>2 DEF Versioned, Places, IsVersion
    <3>3. backup' = backup \/ backup' = With(backup, Named(s), << >>)
      BY <2>1 DEF AddCreate, AddDies
    <3>4. DOMAIN backup' \subseteq DOMAIN backup \cup {Named(s)}
      BY <3>3 DEF With
    <3> QED  BY <3>2, <3>4 DEF Apart
  <2>2. ASSUME ~AddCreate(s), ~AddDies(s) PROVE DOMAIN backup' \subseteq DOMAIN backup
    <3>1. CASE AddCopy(s)
      <4>1. open[s][1] \in Streams  BY <1>0, <3>1 DEF AddCopy, AtWork
      <4> QED  BY <1>0, <3>1, <4>1, WrittenTyped DEF AddCopy
    <3>2. CASE RemoveFile(s)  BY <3>2 DEF RemoveFile, Restrict
    <3>3. CASE AddStep(s) /\ ~AddCopy(s)
      BY <2>2, <3>3 DEF AddStep, AddMkdirs, AddDir, AddFile, AddGone, AddDone, AddSkip, AddNew, AddName
    <3>4. CASE RemoveStep(s) /\ ~RemoveFile(s)
      BY <3>4 DEF RemoveStep, RemoveDir, Rmdir, RemoveDone
    <3>5. CASE RecoverStep(s)
      BY <3>5 DEF RecoverStep, RecoverDir, RecoverGroup, RecoverGone, RecoverDone, Restore, Flush, Exit
    <3>6. CASE Snapshot(s) \/ CheckDir(s) \/ CheckFile(s) \/ CheckRefused(s)
      BY <3>6 DEF Snapshot, CheckDir, CheckFile, CheckRefused
    <3>7. CASE UserStep(s)
      BY <3>7 DEF UserStep, AddCommand, RemoveCommand, RecoverCommand, ClearCommand, Run, Pick,
                  PickNone, Interrupt
    <3> QED  BY <3>1, <3>2, <3>3, <3>4, <3>5, <3>6, <3>7 DEF ChildStep
  <2> QED  BY <2>1, <2>2 DEF Apart
<1>2. \A n \in DOMAIN home': n.path \in Dirs => IsVersion(n)
  <2>1. ASSUME Restore(s) PROVE \A n \in DOMAIN home': n.path \in Dirs => IsVersion(n)
    <3>1. PICK v \in list[s]: home' = With(home, Target(s, v), << >>) \/ home' = home
      BY <2>1 DEF Restore
    <3>2. v.path \in Files /\ IsVersion(v)  BY <1>0 DEF Versioned, IsVersion
    <3>3. v.path \notin Dirs /\ (cmd[s].new # << >> => cmd[s].new \notin Dirs)
      BY <1>0, <3>2, PathsAreSeqs, PathsOnTheWay DEF Cmds
    <3>4. Target(s, v).path \in Dirs => IsVersion(Target(s, v))
      BY <3>2, <3>3 DEF Target, Node, IsVersion
    <3> QED  BY <3>1, <3>4 DEF With, Apart
  <2>2. ASSUME ~Restore(s) PROVE DOMAIN home' \subseteq DOMAIN home
    <3>1. CASE Flush(s)
      <4>1. Last(open[s]) \in Streams  BY <1>0, <3>1 DEF Flush, Last
      <4> QED  BY <1>0, <3>1, <4>1, WrittenTyped DEF Flush
    <3>2. CASE AddStep(s)
      <4>1. CASE AddDone(s) \/ AddDies(s) \/ AddMkdirs(s) \/ AddDir(s) \/ AddFile(s) \/ AddGone(s)
        BY <4>1 DEF AddMkdirs, AddDir, AddFile, AddGone, AddDone, AddDies
      <4>2. CASE AddSkip(s) \/ AddNew(s) \/ AddName(s) \/ AddCreate(s) \/ AddCopy(s)
        BY <4>2 DEF AddSkip, AddNew, AddName, AddCreate, AddCopy
      <4> QED  BY <3>2, <4>1, <4>2 DEF AddStep
    <3>3. CASE RemoveStep(s)
      BY <3>3 DEF RemoveStep, RemoveFile, RemoveDir, Rmdir, RemoveDone
    <3>4. CASE RecoverStep(s) /\ ~Flush(s)
      BY <2>2, <3>4 DEF RecoverStep, RecoverDir, RecoverGroup, RecoverGone, RecoverDone, Exit
    <3>5. CASE Snapshot(s) \/ CheckDir(s) \/ CheckFile(s) \/ CheckRefused(s)
      BY <3>5 DEF Snapshot, CheckDir, CheckFile, CheckRefused
    <3>6. CASE UserStep(s)
      BY <3>6 DEF UserStep, AddCommand, RemoveCommand, RecoverCommand, ClearCommand, Run, Pick,
                  PickNone, Interrupt
    <3> QED  BY <3>1, <3>2, <3>3, <3>4, <3>5, <3>6 DEF ChildStep
  <2> QED  BY <2>1, <2>2 DEF Apart
<1> QED  BY <1>1, <1>2 DEF Apart

LEMMA HousedAll ==
  ASSUME Housed, NEW p \in Seq(Names) \ {<< >>}, HasDir(p)
  PROVE  Parents(p) \subseteq bdirs
<1> SUFFICES ASSUME NEW d \in Parents(p) PROVE d \in bdirs  OBVIOUS
<1>1. d \in Seq(Names) \ {<< >>} /\ IsStrictPrefix(d, p)  BY PathsOnTheWay
<1>2. Front(p) \in Seq(Names) /\ IsPrefix(d, Front(p))  BY <1>1, FrontIs
<1>3. Front(p) # << >>
  <2>1. Len(d) <= Len(Front(p)) /\ Len(d) > 0  BY <1>1, <1>2, PrefixIs
  <2> QED  BY <2>1
<1>4. Front(p) \in bdirs  BY <1>3 DEF HasDir
<1>5. CASE d = Front(p)  BY <1>4, <1>5
<1>6. CASE d # Front(p)
  <2>1. IsStrictPrefix(d, Front(p))  BY <1>2, <1>6 DEF IsStrictPrefix
  <2>2. d \in Parents(Front(p))  BY <1>1, <1>2, <2>1, PathsOnTheWay
  <2>3. Node(Front(p), 0) \in Tree /\ Node(Front(p), 0).path = Front(p)
    BY <1>4 DEF Tree, Node
  <2> QED  BY <2>2, <2>3 DEF Housed
<1> QED  BY <1>5, <1>6

LEMMA ParentsOfParents ==
  ASSUME NEW p \in Seq(Names), NEW d \in Parents(p)
  PROVE  Parents(d) \subseteq Parents(p)
<1>1. d \in Seq(Names) \ {<< >>} /\ IsStrictPrefix(d, p)  BY PathsOnTheWay
<1> SUFFICES ASSUME NEW e \in Parents(d) PROVE e \in Parents(p)  OBVIOUS
<1>2. e \in Seq(Names) \ {<< >>} /\ IsStrictPrefix(e, d)  BY <1>1, PathsOnTheWay
<1>3. IsPrefix(d, p)  BY <1>1 DEF IsStrictPrefix
<1>4. IsStrictPrefix(e, p)  BY <1>1, <1>2, <1>3, PrefixOrder
<1> QED  BY <1>2, <1>4, PathsOnTheWay

LEMMA HousedStep ==
  ASSUME WorkInv, Apart, Housed, NEW s \in Shells, ChildStep(s) \/ UserStep(s), Kinds(s)
  PROVE  Housed'
<1>0. /\ Typed /\ AtWork(s) /\ FileMap(backup) /\ list[s] \subseteq Versioned /\ cmd[s] \in Cmds
      /\ open[s] \in Seq(Streams) /\ bdirs \subseteq Dirs
  BY DEF WorkInv, Typed, AddAtWork, Kinds
<1>1. ASSUME bdirs \subseteq bdirs',
             \A d \in bdirs' \ bdirs: Parents(d) \subseteq bdirs',
             \A v \in DOMAIN backup' \ DOMAIN backup: Parents(v.path) \subseteq bdirs'
      PROVE  Housed'
  <2>1. \A v \in DOMAIN backup: Parents(v.path) \subseteq bdirs  BY DEF Housed, Tree
  <2>2. \A d \in bdirs: Parents(d) \subseteq bdirs
    <3>1. \A d \in bdirs: Node(d, 0) \in Tree /\ Node(d, 0).path = d  BY DEF Tree, Node
    <3> QED  BY <3>1 DEF Housed
  <2>3. \A n \in Tree': n \in DOMAIN backup' \/ (\E d \in bdirs': n.path = d)  BY DEF Tree, Node
  <2> QED  BY <1>1, <2>1, <2>2, <2>3 DEF Housed, Parents
<1>2. ASSUME AddMkdirs(s) PROVE Housed'
  <2>1. cmd[s].path \in Files \cup Dirs  BY <1>0, <1>2 DEF AddMkdirs, Typed, Cmds
  <2>2. cmd[s].path \in Seq(Names)  BY <2>1, PathsAreSeqs
  <2>3. bdirs' = bdirs \cup Parents(cmd[s].path) /\ backup' = backup  BY <1>2 DEF AddMkdirs
  <2>4. \A d \in bdirs' \ bdirs: Parents(d) \subseteq bdirs'  BY <2>2, <2>3, ParentsOfParents
  <2> QED  BY <1>1, <2>3, <2>4
<1>3. ASSUME AddDir(s) PROVE Housed'
  <2>1. Top(s) \in Nodes  BY <1>0, <1>3, TopTyped DEF AddDir
  <2>2. Top(s).path \in Seq(Names) \ {<< >>}  BY <2>1, PathsAreSeqs DEF Nodes
  <2>3. backup' = backup /\ bdirs \subseteq bdirs'
        /\ \A d \in bdirs' \ bdirs: d = Top(s).path /\ HasDir(Top(s).path)
    BY <1>3 DEF AddDir
  <2>4. \A d \in bdirs' \ bdirs: Parents(d) \subseteq bdirs'  BY <2>2, <2>3, HousedAll
  <2> QED  BY <1>1, <2>3, <2>4
<1>4. ASSUME AddCreate(s) \/ AddDies(s) PROVE Housed'
  <2>1. Top(s).path \in Seq(Names) \ {<< >>}
    <3>1. Top(s).path \in Files  BY <1>4 DEF AddCreate, AddDies, Kinds
    <3> QED  BY <3>1, PathsAreSeqs
  <2>2. bdirs' = bdirs
        /\ \/ backup' = backup
           \/ HasDir(Top(s).path) /\ backup' = With(backup, Named(s), << >>)
    BY <1>4 DEF AddCreate, AddDies
  <2>3. \A v \in DOMAIN backup' \ DOMAIN backup: v.path = Top(s).path /\ HasDir(Top(s).path)
    <3>1. Named(s).path = Top(s).path  BY <1>0, <1>4 DEF AddCreate, AddDies, AtWork
    <3> QED  BY <2>2, <3>1 DEF With
  <2>4. \A v \in DOMAIN backup' \ DOMAIN backup: Parents(v.path) \subseteq bdirs
    BY <2>1, <2>3, HousedAll
  <2> QED  BY <1>1, <2>2, <2>4
<1>5. ASSUME AddCopy(s) PROVE Housed'
  <2>1. open[s][1] \in Streams  BY <1>0, <1>5 DEF AddCopy, AtWork
  <2>2. DOMAIN backup' = DOMAIN backup /\ bdirs' = bdirs  BY <1>0, <1>5, <2>1, WrittenTyped DEF AddCopy
  <2> QED  BY <1>1, <2>2
<1>6. ASSUME RemoveFile(s) PROVE Housed'
  BY <1>1, <1>6 DEF RemoveFile, Restrict
<1>7. ASSUME Rmdir(s) PROVE Housed'
  <2>1. CASE bdirs' = bdirs  BY <1>1, <1>7, <2>1 DEF Rmdir
  <2>2. CASE bdirs' # bdirs
    <3> DEFINE d == Top(s).path
    <3>1. Children(Tree, d) = {} /\ bdirs' = bdirs \ {d} /\ backup' = backup  BY <1>7, <2>2 DEF Rmdir
    <3> HIDE DEF d
    <3>2. d \in bdirs /\ d \in Seq(Names)  BY <1>0, <2>2, <3>1, PathsAreSeqs
    <3>3. Tree' \subseteq Tree  BY <3>1 DEF Tree
    <3>4. ASSUME NEW n \in Tree', d \in Parents(n.path) PROVE FALSE
      <4>1. n.path \in Seq(Names) \ {<< >>} /\ n \in Tree
        <5>1. n \in Stored  BY <1>0, <3>3, StoredAre
        <5> QED  BY <3>3, <5>1, StoredAre
      <4>2. IsStrictPrefix(d, n.path)  BY <3>4, <4>1, PathsOnTheWay
      <4>3. PICK r \in Seq(Names) \ {<< >>}: Front(r) = d /\ IsPrefix(r, n.path)
        BY <3>2, <4>1, <4>2, OneFurther
      <4>4. CASE r = n.path
        <5>1. n \in Children(Tree, d)  BY <4>1, <4>3, <4>4 DEF Children
        <5> QED  BY <3>1, <5>1
      <4>5. CASE r # n.path
        <5>1. r \in Parents(n.path)  BY <4>1, <4>3, <4>5, PathsOnTheWay DEF IsStrictPrefix
        <5>2. r \in bdirs  BY <4>1, <5>1 DEF Housed
        <5>3. Node(r, 0) \in Tree /\ Node(r, 0).path = r  BY <5>2 DEF Tree, Node
        <5>4. Node(r, 0) \in Children(Tree, d)  BY <4>3, <5>3 DEF Children
        <5> QED  BY <3>1, <5>4
      <4> QED  BY <4>4, <4>5
    <3>5. \A n \in Tree': Parents(n.path) \subseteq bdirs'  BY <3>1, <3>3, <3>4 DEF Housed
    <3> QED  BY <3>5 DEF Housed, Parents
  <2> QED  BY <2>1, <2>2
<1>8. ASSUME Restore(s) PROVE Housed'
  <2>1. PICK v \in list[s]: bdirs' = bdirs \/ bdirs' = bdirs \cup Parents(v.path)
    BY <1>8 DEF Restore
  <2>2. v.path \in Seq(Names)  BY <1>0, PathsAreSeqs DEF Versioned
  <2>3. backup' = backup  BY <1>8 DEF Restore
  <2>4. \A d \in bdirs' \ bdirs: Parents(d) \subseteq bdirs'  BY <2>1, <2>2, ParentsOfParents
  <2> QED  BY <1>1, <2>1, <2>3, <2>4
<1>9. ASSUME UNCHANGED <<backup, bdirs>> PROVE Housed'
  BY <1>1, <1>9
<1>10. CASE AddStep(s)
  <2>1. CASE AddFile(s) \/ AddGone(s) \/ AddDone(s) \/ AddSkip(s) \/ AddNew(s) \/ AddName(s)
    BY <1>9, <2>1 DEF AddFile, AddGone, AddDone, AddSkip, AddNew, AddName
  <2> QED  BY <1>2, <1>3, <1>4, <1>5, <1>10, <2>1 DEF AddStep
<1>11. CASE RemoveStep(s)
  BY <1>6, <1>7, <1>9, <1>11 DEF RemoveStep, RemoveDir, RemoveDone
<1>12. CASE RecoverStep(s)
  BY <1>8, <1>9, <1>12 DEF RecoverStep, RecoverDir, RecoverGroup, RecoverGone, RecoverDone, Flush, Exit
<1>13. CASE Snapshot(s) \/ CheckDir(s) \/ CheckFile(s) \/ CheckRefused(s)
  BY <1>9, <1>13 DEF Snapshot, CheckDir, CheckFile, CheckRefused
<1>14. CASE UserStep(s)
  BY <1>9, <1>14 DEF UserStep, AddCommand, RemoveCommand, RecoverCommand, ClearCommand, Run, Pick,
                     PickNone, Interrupt
<1> QED  BY <1>10, <1>11, <1>12, <1>13, <1>14 DEF ChildStep

LEMMA CommandInvInit == Init => CommandInv
<1> SUFFICES ASSUME Init PROVE CommandInv  OBVIOUS
<1>1. WorkInv  BY StoreInvInit DEF StoreInv
<1>2. Apart  BY DEF Init, Apart
<1>3. Housed  BY DEF Init, Housed, Tree
<1>4. \A s \in Shells: Kinds(s)  BY DEF Init, Kinds
<1>5. \A s \in Shells: Fits(s)  BY DEF Init, Fits, NoCmd
<1> QED  BY <1>1, <1>2, <1>3, <1>4, <1>5 DEF CommandInv

LEMMA CommandInvStep ==
  ASSUME CommandInv, [Next]_vars
  PROVE  CommandInv'
<1>0. WorkInv /\ Typed /\ Apart /\ Housed /\ \A s \in Shells: Kinds(s) /\ Fits(s)
  BY DEF CommandInv, WorkInv
<1>1. WorkInv'  BY <1>0, WorkInvStep
<1>2. CASE \E s \in Shells: ChildStep(s) \/ UserStep(s)
  <2>1. PICK s \in Shells: ChildStep(s) \/ UserStep(s)  BY <1>2
  <2>2. Apart' /\ Housed'  BY <1>0, <2>1, ApartStep, HousedStep
  <2>3. Kinds(s)' /\ Fits(s)'  BY <1>0, <2>1, KindsStep, FitsStep
  <2>4. ASSUME NEW t \in Shells, t # s PROVE Kinds(t)' /\ Fits(t)'
    <3>1. /\ pc'[t] = pc[t] /\ cmd'[t] = cmd[t] /\ tree'[t] = tree[t] /\ todo'[t] = todo[t]
          /\ list'[t] = list[t] /\ open'[t] = open[t]
      BY <1>0, <2>1, <2>4, OthersKept
    <3>2. Kinds(t) /\ Fits(t)  BY <1>0
    <3> QED  BY <3>1, <3>2 DEF Kinds, Fits, Top
  <2> QED  BY <1>1, <2>2, <2>3, <2>4 DEF CommandInv
<1>3. CASE UNCHANGED childVars /\ UNCHANGED <<backup, bdirs>>
           /\ \A n \in DOMAIN home' \ DOMAIN home: n.path \notin Dirs
  <2>1. \A s \in Shells: Kinds(s)' /\ Fits(s)'
    BY <1>0, <1>3 DEF Kinds, Fits, Top, childVars
  <2>2. Housed'  BY <1>0, <1>3 DEF Housed, Tree, Parents
  <2>3. Apart'  BY <1>0, <1>3 DEF Apart
  <2> QED  BY <1>1, <2>1, <2>2, <2>3 DEF CommandInv
<1>4. ASSUME NEW f \in Files, NEW c, Write(f, c)
      PROVE  \A n \in DOMAIN home' \ DOMAIN home: n.path \notin Dirs
  <2>1. f \notin Dirs  BY PathsAreSeqs
  <2> QED  BY <1>4, <2>1 DEF Write, With, Node
<1>5. ASSUME NEW f, Erase(f) PROVE DOMAIN home' \subseteq DOMAIN home
  BY <1>5 DEF Erase, Restrict
<1> QED  BY <1>2, <1>3, <1>4, <1>5 DEF Next, vars, Write, Erase, MayWrite, Tick

-----------------------------------------------------------------------------
(* add *)

LEMMA OnlyCreateCopies ==
  ASSUME Typed, NEW s \in Shells, ChildStep(s) \/ UserStep(s), pc'[s] = "copy"
  PROVE  AddCreate(s)
<1>0. pc \in [Shells -> Steps]  BY DEF Typed
<1>1. CASE AddStep(s)
  BY <1>0, <1>1 DEF AddStep, AddMkdirs, AddDir, AddFile, AddGone, AddDone, AddSkip, AddNew, AddName, AddDies,
                    AddCopy, Leave, Goto
<1>2. CASE RemoveStep(s)
  BY <1>0, <1>2 DEF RemoveStep, RemoveFile, RemoveDir, Rmdir, RemoveDone, Leave, Goto, Removing
<1>3. CASE RecoverStep(s)
  BY <1>0, <1>3 DEF RecoverStep, RecoverDir, RecoverGroup, RecoverGone, RecoverDone, Restore, Flush, Exit,
                    Leave, Goto, Recovering
<1>4. CASE Snapshot(s) \/ CheckDir(s) \/ CheckFile(s) \/ CheckRefused(s)
  BY <1>0, <1>4 DEF Snapshot, CheckDir, CheckFile, CheckRefused, Leave, Goto, Loop
<1>5. CASE UserStep(s)
  BY <1>0, <1>5 DEF UserStep, AddCommand, RemoveCommand, RecoverCommand, ClearCommand, Run, Pick, PickNone,
                    Interrupt, Leave, Goto
<1> QED  BY <1>1, <1>2, <1>3, <1>4, <1>5 DEF ChildStep

LEMMA OnlyRemoveRemoves ==
  ASSUME WorkInv, NEW s \in Shells, ChildStep(s) \/ UserStep(s), NEW v \in DOMAIN backup \ DOMAIN backup'
  PROVE  RemoveFile(s) /\ v = Top(s)
<1>0. Typed /\ FileMap(backup) /\ AtWork(s) /\ open[s] \in Seq(Streams)
  BY DEF WorkInv, Typed, AddAtWork
<1>1. CASE AddCreate(s) \/ AddDies(s)
  <2>1. backup' = backup \/ backup' = With(backup, Named(s), << >>)
    BY <1>1 DEF AddCreate, AddDies
  <2> QED  BY <2>1 DEF With
<1>2. CASE AddCopy(s)
  <2>1. open[s][1] \in Streams  BY <1>0, <1>2 DEF AddCopy, AtWork
  <2> QED  BY <1>0, <1>2, <2>1, WrittenTyped DEF AddCopy
<1>3. CASE RemoveFile(s)  BY <1>3 DEF RemoveFile, Restrict
<1>4. CASE AddStep(s) /\ ~AddCreate(s) /\ ~AddDies(s) /\ ~AddCopy(s)
  BY <1>4 DEF AddStep, AddMkdirs, AddDir, AddFile, AddGone, AddDone, AddSkip, AddNew, AddName
<1>5. CASE RemoveStep(s) /\ ~RemoveFile(s)
  BY <1>5 DEF RemoveStep, RemoveDir, Rmdir, RemoveDone
<1>6. CASE RecoverStep(s)
  BY <1>6 DEF RecoverStep, RecoverDir, RecoverGroup, RecoverGone, RecoverDone, Restore, Flush, Exit
<1>7. CASE Snapshot(s) \/ CheckDir(s) \/ CheckFile(s) \/ CheckRefused(s)
  BY <1>7 DEF Snapshot, CheckDir, CheckFile, CheckRefused
<1>8. CASE UserStep(s)
  BY <1>8 DEF UserStep, AddCommand, RemoveCommand, RecoverCommand, ClearCommand, Run, Pick, PickNone,
              Interrupt
<1> QED  BY <1>1, <1>2, <1>3, <1>4, <1>5, <1>6, <1>7, <1>8 DEF ChildStep

(* A child that removes runs the command of that name, or clear. *)
LEMMA WhoRemoves ==
  ASSUME CommandInv, NEW s \in Shells, pc[s] = "remove"
  PROVE  cmd[s].op \in {"remove", "clear"}
<1>1. Fits(s) /\ cmd[s] \in Cmds  BY DEF CommandInv, WorkInv, Typed
<1> QED  BY <1>1 DEF Fits, Cmds, Adding

(* While nobody else adds or removes, the version that is being saved is there. *)
Saved(s) == pc[s] = "copy" => open[s][1].to \in DOMAIN backup /\ backup[open[s][1].to] = << >>
AllSaved == \A s \in Shells: Saved(s)

LEMMA AllSavedStep ==
  ASSUME CommandInv, AddsUndisturbed, AllSaved, [Next]_vars
  PROVE  AllSaved'
<1>0. WorkInv /\ Typed /\ AddAtWork /\ pc \in [Shells -> Steps] /\ open \in [Shells -> Seq(Streams)]
  BY DEF CommandInv, WorkInv, Typed
<1>1. ASSUME NEW s \in Shells, ChildStep(s) \/ UserStep(s), NEW t \in Shells PROVE Saved(t)'
  <2>1. CASE t = s
    <3>1. ASSUME AddCreate(s) PROVE Saved(s)'
      <4> DEFINE v == Named(s)
      <4>1. backup' = With(backup, v, << >>) /\ open'[s] = <<[to |-> v, data |-> home[Top(s)]]>>
        BY <1>0, <3>1 DEF AddCreate
      <4> HIDE DEF v
      <4>2. open'[s][1].to = v  BY <4>1
      <4> QED  BY <4>1, <4>2 DEF Saved, With
    <3> QED  BY <1>0, <1>1, <2>1, <3>1, OnlyCreateCopies DEF Saved
  <2>2. CASE t # s /\ pc[t] = "copy"
    <3>1. pc'[t] = pc[t] /\ open'[t] = open[t]  BY <1>0, <1>1, <2>2, OthersKept
    <3>2. Saved(t)  BY DEF AllSaved
    <3>3. cmd[t].op = "add"  BY <1>0, <2>2 DEF AddAtWork, AtWork, Adding
    <3>4. cmd[s].op \notin {"add", "remove", "clear"}  BY <2>2, <3>3 DEF AddsUndisturbed
    <3>5. ~RemoveFile(s)  BY <3>4, WhoRemoves DEF RemoveFile, Removing
    <3>6. ~AddCopy(s)  BY <1>0, <3>4 DEF AddCopy, AddAtWork, AtWork, Adding
    <3>7. open[t][1].to \in DOMAIN backup'
      BY <1>0, <1>1, <2>2, <3>2, <3>5, OnlyRemoveRemoves DEF Saved
    <3>8. backup'[open[t][1].to] = << >>
      BY <1>0, <1>1, <2>2, <3>2, <3>6, <3>7, VersionsKept DEF Saved
    <3> QED  BY <3>1, <3>7, <3>8 DEF Saved
  <2>3. CASE t # s /\ pc[t] # "copy"
    <3>1. pc'[t] = pc[t]  BY <1>0, <1>1, <2>3, OthersKept
    <3> QED  BY <2>3, <3>1 DEF Saved
  <2> QED  BY <2>1, <2>2, <2>3
<1>2. CASE \E s \in Shells: ChildStep(s) \/ UserStep(s)  BY <1>1, <1>2 DEF AllSaved
<1>3. CASE UNCHANGED <<backup, childVars>>  BY <1>3 DEF AllSaved, Saved, childVars
<1> QED  BY <1>2, <1>3 DEF Next, Write, Erase, MayWrite, Tick, vars

(* No file name is the beginning of another, and no two contents have the  *)
(* same digest.                                                            *)
NamesApart    == \A m, n: <<m, n>> \in NamePrefix => m = n
DigestsDiffer == \A c, d \in Seq(Bytes): SameFile(c, d) => c = d

AddedNow ==
  \A s \in Shells: pc[s] \in {"scan", "copy"} /\ pc'[s] = "add" =>
    \E v \in DOMAIN backup':
      /\ v.path = Top(s).path
      /\ backup'[v] = IF pc[s] = "scan" THEN home[Top(s)] ELSE open[s][1].data

LEMMA AddedNowStep ==
  ASSUME NamesApart, DigestsDiffer, CommandInv, AllSaved, [Next]_vars
  PROVE  AddedNow
<1>0. /\ WorkInv /\ Typed /\ Apart /\ \A s \in Shells: AtWork(s) /\ Saved(s)
      /\ pc \in [Shells -> Steps] /\ FileMap(backup) /\ FileMap(home)
      /\ open \in [Shells -> Seq(Streams)]
  BY DEF CommandInv, WorkInv, Typed, AddAtWork, AllSaved
<1> SUFFICES ASSUME NEW s \in Shells, pc[s] \in {"scan", "copy"}, pc'[s] = "add"
             PROVE  \E v \in DOMAIN backup':
                      /\ v.path = Top(s).path
                      /\ backup'[v] = IF pc[s] = "scan" THEN home[Top(s)] ELSE open[s][1].data
  BY DEF AddedNow
<1>1. ChildStep(s) \/ UserStep(s)
  <2>1. pc' # pc  OBVIOUS
  <2>2. \E t \in Shells: ChildStep(t) \/ UserStep(t)
    BY <2>1 DEF Next, Write, Erase, MayWrite, Tick, vars, childVars
  <2> QED  BY <1>0, <2>2, OthersKept
<1>2. AddSkip(s) \/ AddCopy(s)
  <2>1. CASE AddStep(s)
    BY <1>0, <2>1 DEF AddStep, AddMkdirs, AddDir, AddFile, AddGone, AddDone, AddNew, AddName, AddCreate, AddDies, Goto
  <2>2. CASE RemoveStep(s) \/ RecoverStep(s)
    BY <2>2 DEF RemoveStep, RemoveFile, RemoveDir, Rmdir, RemoveDone, Removing, RecoverStep, RecoverDir,
                RecoverGroup, RecoverGone, RecoverDone, Restore, Flush, Exit, Recovering
  <2>3. CASE Snapshot(s) \/ CheckDir(s) \/ CheckFile(s) \/ CheckRefused(s)
    BY <2>3 DEF Snapshot, CheckDir, CheckFile, CheckRefused
  <2>4. CASE UserStep(s)
    <3>1. ~Interrupt(s)  BY <1>0 DEF Interrupt, Leave, Goto
    <3> QED  BY <2>4, <3>1 DEF UserStep, AddCommand, RemoveCommand, RecoverCommand, ClearCommand, Run, Pick, PickNone
  <2> QED  BY <1>1, <2>1, <2>2, <2>3, <2>4 DEF ChildStep
<1>3. CASE AddSkip(s)
  <2> DEFINE f == Top(s).path
  <2>1. pc[s] = "scan" /\ AlreadyBackuped(f) /\ backup' = backup  BY <1>3 DEF AddSkip
  <2>2. Top(s) \in Nodes /\ Top(s).at = 0 /\ todo[s] # << >>
    BY <1>0, <2>1, TopTyped DEF AtWork, Adding, Top, IsVersion
  <2>3. Node(f, 0) = Top(s) /\ f \in Seq(Names) \ {<< >>}
    BY <2>2, PathsAreSeqs DEF Nodes, Node
  <2>4. PICK v \in Candidates(f): SameFile(home[Top(s)], backup[v])
    BY <2>1, <2>3 DEF AlreadyBackuped
  <2>5. Top(s) \in DOMAIN home  BY <2>1, <2>3 DEF AlreadyBackuped
  <2> HIDE DEF f
  <2>6. v \in DOMAIN backup /\ v.path \in Seq(Names) \ {<< >>} /\ Front(v.path) = Front(f)
        /\ <<Last(v.path), Last(f)>> \in NamePrefix
    BY <1>0, PathsAreSeqs DEF Candidates, Apart, Versioned
  <2>7. v.path = f  BY <2>3, <2>6, FrontAndLast DEF NamesApart
  <2>8. home[Top(s)] \in Seq(Bytes) /\ backup[v] \in Seq(Bytes)  BY <1>0, <2>5, <2>6 DEF FileMap
  <2>9. backup[v] = home[Top(s)]  BY <2>4, <2>8 DEF DigestsDiffer
  <2> QED  BY <2>1, <2>6, <2>7, <2>9 DEF f
<1>4. CASE AddCopy(s)
  <2> DEFINE stream == open[s][1]
  <2>1. pc[s] = "copy" /\ backup' = Written(backup, stream)  BY <1>4 DEF AddCopy
  <2>2. stream \in Streams /\ stream.to.path = Top(s).path
    BY <1>0, <2>1 DEF AtWork, Named
  <2>3. stream.to \in DOMAIN backup /\ backup[stream.to] = << >>  BY <1>0, <2>1 DEF Saved
  <2> HIDE DEF stream
  <2>4. stream.to \in DOMAIN backup' /\ backup'[stream.to] = stream.data
    BY <1>0, <2>1, <2>2, <2>3, WrittenTyped
  <2> QED  BY <2>1, <2>2, <2>4 DEF stream
<1> QED  BY <1>2, <1>3, <1>4

(* If no name is the beginning of another, digests differ, and nobody else *)
(* adds or removes while one adds, then what add has read of a file is in  *)
(* the backup directory under the file's name when it goes on.             *)
THEOREM AddedRecoverableCorrect ==
  ASSUME NamesApart, DigestsDiffer
  PROVE  Spec /\ []AddsUndisturbed => AddedRecoverable
<1>1. Init => CommandInv /\ AllSaved
  BY CommandInvInit DEF Init, AllSaved, Saved
<1>2. CommandInv /\ AllSaved /\ AddsUndisturbed /\ [Next]_vars => CommandInv' /\ AllSaved'
  BY CommandInvStep, AllSavedStep
<1>3. CommandInv /\ AllSaved /\ [Next]_vars => [AddedNow]_vars
  BY AddedNowStep
<1>4. AddedRecoverable <=> [][AddedNow]_vars
  BY DEF AddedRecoverable, AddedNow
<1> QED  BY <1>1, <1>2, <1>3, <1>4, PTL DEF Spec

-----------------------------------------------------------------------------
(* remove *)

(* Only add and recover make anything in the backup directory. *)
LEMMA WhoMakes ==
  ASSUME CommandInv, NEW s \in Shells, ChildStep(s) \/ UserStep(s),
         cmd[s].op \notin {"add", "recover"}
  PROVE  Tree' \subseteq Tree
<1>0. WorkInv /\ Typed /\ FileMap(backup) /\ AtWork(s) /\ Fits(s) /\ cmd[s] \in Cmds
  BY DEF CommandInv, WorkInv, Typed, AddAtWork
<1>a. cmd[s].op \in {"none", "remove", "clear"}  BY <1>0 DEF Cmds
<1>1. pc[s] \notin Adding \cup {"restore"}  BY <1>0, <1>a DEF AtWork, Fits, Adding
<1>2. ~AddMkdirs(s) /\ ~AddDir(s) /\ ~AddCreate(s) /\ ~AddDies(s) /\ ~AddCopy(s) /\ ~Restore(s)
  BY <1>1 DEF AddMkdirs, AddDir, AddCreate, AddDies, AddCopy, Restore, Adding
<1>3. ASSUME bdirs' \subseteq bdirs, DOMAIN backup' \subseteq DOMAIN backup PROVE Tree' \subseteq Tree
  BY <1>3 DEF Tree
<1>4. CASE AddStep(s)
  BY <1>2, <1>3, <1>4 DEF AddStep, AddFile, AddGone, AddDone, AddSkip, AddNew, AddName
<1>5. CASE RemoveStep(s)
  <2>1. CASE RemoveFile(s)  BY <1>3, <2>1 DEF RemoveFile, Restrict
  <2>2. CASE ~RemoveFile(s)  BY <1>3, <1>5, <2>2 DEF RemoveStep, RemoveDir, Rmdir, RemoveDone
  <2> QED  BY <2>1, <2>2
<1>6. CASE RecoverStep(s)
  BY <1>2, <1>3, <1>6 DEF RecoverStep, RecoverDir, RecoverGroup, RecoverGone, RecoverDone, Flush, Exit
<1>7. CASE Snapshot(s) \/ CheckDir(s) \/ CheckFile(s) \/ CheckRefused(s)
  BY <1>3, <1>7 DEF Snapshot, CheckDir, CheckFile, CheckRefused
<1>8. CASE UserStep(s)
  BY <1>3, <1>8 DEF UserStep, AddCommand, RemoveCommand, RecoverCommand, ClearCommand, Run, Pick, PickNone,
              Interrupt
<1> QED  BY <1>4, <1>5, <1>6, <1>7, <1>8 DEF ChildStep

(* The steps at which a child is at work on what is to be removed. *)
LEMMA RemoversStep ==
  ASSUME CommandInv, NEW s \in Shells, ChildStep(s) \/ UserStep(s), cmd'[s].op \in {"remove", "clear"}
  PROVE  \/ pc[s] = "prompt" /\ pc'[s] = "snapshot" /\ todo'[s] = << >>
         \/ cmd'[s] = cmd[s] /\ \/ Snapshot(s) \/ CheckDir(s) \/ CheckFile(s) \/ Pick(s) \/ PickNone(s)
                                \/ RemoveFile(s) \/ RemoveDir(s) \/ Rmdir(s) \/ Flush(s)
<1>0. WorkInv /\ Typed /\ AtWork(s) /\ Fits(s) /\ cmd[s] \in Cmds /\ cmd \in [Shells -> Cmds]
      /\ pc \in [Shells -> Steps] /\ todo \in [Shells -> Seq(Calls)]
  BY DEF CommandInv, WorkInv, Typed, AddAtWork
<1>1. ~Leave(s)  BY <1>0 DEF Leave, NoCmd
<1>2. ASSUME NEW op, NEW p, NEW new, NEW all, NEW at, Run(s, op, p, new, all, at)
      PROVE  pc[s] = "prompt" /\ cmd'[s].op = op /\ pc'[s] = at /\ todo'[s] = << >>
  BY <1>0, <1>2 DEF Run, Goto, Fits
<1>3. CASE UserStep(s)
  <2>1. CASE ClearCommand(s)  BY <1>2, <2>1 DEF ClearCommand
  <2>2. ASSUME NEW p, AddCommand(s, p) PROVE FALSE
    <3>1. cmd'[s].op = "add"  BY <1>2, <2>2 DEF AddCommand
    <3> QED  BY <3>1
  <2>3. ASSUME NEW p, NEW all, RemoveCommand(s, p, all)
        PROVE  pc[s] = "prompt" /\ pc'[s] = "snapshot" /\ todo'[s] = << >>
    BY <1>2, <2>3 DEF RemoveCommand
  <2>4. ASSUME NEW p, NEW new, NEW all, RecoverCommand(s, p, new, all) PROVE FALSE
    <3>1. cmd'[s].op = "recover"  BY <1>2, <2>4 DEF RecoverCommand
    <3> QED  BY <3>1
  <2>5. CASE Pick(s) \/ PickNone(s)  BY <2>5 DEF Pick, PickNone
  <2> QED  BY <1>1, <1>3, <2>1, <2>2, <2>3, <2>4, <2>5 DEF UserStep, Interrupt
<1>4. CASE ChildStep(s)
  <2>1. cmd'[s] = cmd[s]
    <3>1. CASE AddStep(s)
      BY <1>1, <3>1 DEF AddStep, AddMkdirs, AddDir, AddFile, AddGone, AddDone, AddSkip, AddNew, AddName, AddCreate,
                        AddDies, AddCopy
    <3>2. CASE RemoveStep(s)
      BY <1>1, <3>2 DEF RemoveStep, RemoveFile, RemoveDir, Rmdir, RemoveDone
    <3>3. CASE RecoverStep(s)
      BY <1>1, <3>3 DEF RecoverStep, RecoverDir, RecoverGroup, RecoverGone, RecoverDone, Restore, Flush, Exit
    <3>4. CASE Snapshot(s) \/ CheckDir(s) \/ CheckFile(s) \/ CheckRefused(s)
      BY <1>1, <3>4 DEF Snapshot, CheckDir, CheckFile, CheckRefused
    <3> QED  BY <1>4, <3>1, <3>2, <3>3, <3>4 DEF ChildStep
  <2>2. pc[s] \notin Adding \cup {"recover", "restore"}
    BY <1>0, <2>1 DEF Fits, AtWork, Adding
  <2>3. ~AddStep(s)
    BY <2>2 DEF AddStep, AddMkdirs, AddDir, AddFile, AddGone, AddDone, AddSkip, AddNew, AddName, AddCreate,
                AddDies, AddCopy, Adding
  <2>4. RecoverStep(s) => Flush(s)
    BY <1>1, <2>2 DEF RecoverStep, RecoverDir, RecoverGroup, RecoverGone, RecoverDone, Restore, Exit, Recovering
  <2> QED  BY <1>1, <1>4, <2>1, <2>3, <2>4 DEF ChildStep, RemoveStep, RemoveDone, CheckRefused
<1> QED  BY <1>3, <1>4

(* findNode finds what is there. *)
LEMMA FoundThere ==
  ASSUME NEW nodes, NEW p \in Seq(Names), \A k \in 1..Len(p): Node(SubSeq(p, 1, k), 0) \in nodes
  PROVE  FindNode(nodes, p) = p
<1>1. PICK cp \in [0..Len(p) -> Seq(Names)]:
        /\ FindNode(nodes, p) = cp[Len(p)] /\ cp[0] = << >>
        /\ \A k \in 1..Len(p): cp[k] = IF Node(Append(cp[k-1], p[k]), 0) \in nodes
                                      THEN Append(cp[k-1], p[k]) ELSE cp[k-1]
  BY FindNodeWay
<1> DEFINE Exact == {n \in Nat: n <= Len(p) => cp[n] = SubSeq(p, 1, n)}
<1>0. Len(p) \in Nat  OBVIOUS
<1>2. 0 \in Exact
  <2>1. SubSeq(p, 1, 0) = << >>  BY SubSeqEmpty
  <2> QED  BY <1>1, <2>1
<1>3. ASSUME NEW n \in Exact PROVE n + 1 \in Exact
  <2> SUFFICES ASSUME n + 1 <= Len(p) PROVE cp[n + 1] = SubSeq(p, 1, n + 1)  BY <1>3
  <2>1. n \in Nat /\ n + 1 \in 1..Len(p) /\ n \in 0..Len(p) /\ cp[n] = SubSeq(p, 1, n)
    BY <1>0, <1>3
  <2>2. Append(SubSeq(p, 1, n), p[n + 1]) = SubSeq(p, 1, n + 1)
    <3> DEFINE a == SubSeq(p, 1, n)
               b == SubSeq(p, 1, n + 1)
    <3>1. a \in Seq(Names) /\ Len(a) = n /\ \A i \in 1..n: a[i] = p[i]  BY <2>1, UptoIs
    <3>2. n + 1 \in 0..Len(p)  BY <2>1
    <3>3. b \in Seq(Names) /\ Len(b) = n + 1 /\ \A i \in 1..(n + 1): b[i] = p[i]  BY <3>2, UptoIs
    <3>4. p[n + 1] \in Names  BY <2>1
    <3> HIDE DEF a, b
    <3>5. Append(a, p[n + 1]) \in Seq(Names) /\ Len(Append(a, p[n + 1])) = n + 1
          /\ \A i \in 1..(n + 1): Append(a, p[n + 1])[i] = p[i]
      BY <2>1, <3>1, <3>4
    <3>6. Append(a, p[n + 1]) = b  BY <3>3, <3>5, SeqEqual
    <3> QED  BY <3>6 DEF a, b
  <2>3. cp[n + 1] = IF Node(Append(cp[n], p[n + 1]), 0) \in nodes THEN Append(cp[n], p[n + 1]) ELSE cp[n]
    <3>1. (n + 1) - 1 = n  BY <2>1
    <3> QED  BY <1>1, <2>1, <3>1
  <2> QED  BY <2>1, <2>2, <2>3
<1> HIDE DEF Exact
<1>4. Nat \subseteq Exact  BY <1>2, <1>3, SetInduction
<1>5. cp[Len(p)] = SubSeq(p, 1, Len(p))  BY <1>0, <1>4 DEF Exact
<1> QED  BY <1>1, <1>5, SubSeqFull

(* remove starts below its argument, and knows the way there. *)
LEMMA FoundArg ==
  ASSUME CommandInv, NEW s \in Shells, cmd[s].op \in {"remove", "clear"}, Dir(s), Tree \subseteq tree[s]
  PROVE  Found(s) = cmd[s].path /\ cmd[s].path \in Seq(Names)
<1>0. Typed /\ Housed /\ cmd[s] \in Cmds /\ Fits(s)  BY DEF CommandInv, WorkInv, Typed
<1>1. cmd[s].path \in Seq(Names)
  <2>1. cmd[s].path \in Files \cup Dirs \cup {<< >>}  BY <1>0 DEF Cmds
  <2>2. << >> \in Seq(Names)  OBVIOUS
  <2> QED  BY <2>1, <2>2, PathsAreSeqs
<1> DEFINE p == cmd[s].path
<1>2. ASSUME NEW k \in 1..Len(p) PROVE Node(SubSeq(p, 1, k), 0) \in tree[s]
  <2>1. p # << >>  BY <1>2
  <2>2. p \in bdirs  BY <1>0, <2>1 DEF Dir, Fits
  <2>3. Node(p, 0) \in Tree /\ Node(p, 0).path = p  BY <2>2 DEF Tree, Node
  <2>4. Parents(p) \subseteq bdirs  BY <2>3 DEF Housed, CommandInv
  <2>5. SubSeq(p, 1, k) \in bdirs
    <3>1. CASE k = Len(p)  BY <1>1, <2>2, <3>1, SubSeqFull
    <3>2. CASE k # Len(p)
      <4>1. k \in 1..(Len(p) - 1)  BY <1>1, <1>2, <3>2
      <4> QED  BY <2>4, <4>1 DEF Parents
    <3> QED  BY <3>1, <3>2
  <2>6. Node(SubSeq(p, 1, k), 0) \in Tree  BY <2>5 DEF Tree
  <2> QED  BY <2>6
<1> QED  BY <1>1, <1>2, FoundThere DEF Found

LEMMA ChildrenAre ==
  ASSUME CommandInv, NEW s \in Shells, NEW d \in Seq(Names), NEW n \in Children(tree[s], d)
  PROVE  /\ n \in tree[s] /\ n \in Stored /\ Children(tree[s], d) \in SUBSET Stored
         /\ IsFiniteSet(Children(tree[s], d)) /\ Front(n.path) = d /\ IsStrictPrefix(d, n.path)
<1>1. tree[s] \subseteq Stored /\ IsFiniteSet(tree[s])  BY DEF CommandInv, Kinds, WorkInv, Typed
<1>2. n \in tree[s] /\ n.path # << >> /\ Front(n.path) = d  BY DEF Children
<1>3. n.path \in Seq(Names)  BY <1>1, <1>2, StoredAre
<1>4. Children(tree[s], d) \subseteq tree[s]  BY DEF Children
<1> QED  BY <1>1, <1>2, <1>3, <1>4, FrontIs, FS_Subset

LEMMA PushedOne ==
  ASSUME WorkInv, NEW s \in Shells, NEW v \in Nodes, Push(s, <<v>>, "visit", << >>)
  PROVE  \A i \in DOMAIN todo'[s]: todo'[s][i].node = v
<1> DEFINE one == <<v>>
           rest == << >>
<1>1. one \in Seq(Nodes) /\ Len(one) = 1 /\ one[1] = v /\ rest \in Seq(Calls) /\ Len(rest) = 0
  OBVIOUS
<1>2. Push(s, one, "visit", rest) /\ todo \in [Shells -> Seq(Calls)]  BY DEF WorkInv, Typed
<1> HIDE DEF one, rest
<1>3. /\ one \in Seq(Nodes) /\ rest \in Seq(Calls) /\ "visit" \in {"visit", "rmdir"}
      /\ Push(s, one, "visit", rest) /\ todo \in [Shells -> Seq(Calls)]
  BY <1>1, <1>2
<1>4. \A i \in DOMAIN todo'[s]:
        \/ \E k \in 1..Len(one): todo'[s][i] = [op |-> "visit", node |-> one[k]] /\ i = k
        \/ \E k \in 1..Len(rest): todo'[s][i] = rest[k] /\ i = Len(one) + k
  BY <1>3, Pushed
<1> QED  BY <1>1, <1>4

LEMMA PushedFrom ==
  ASSUME WorkInv, NEW s \in Shells, NEW S \in SUBSET Stored, IsFiniteSet(S),
         NEW rest \in Seq(Calls), NEW order \in SetToSeqs(S), Push(s, order, "visit", rest)
  PROVE  \A i \in DOMAIN todo'[s]:
           \/ i \in 1..Len(order) /\ todo'[s][i].op = "visit" /\ todo'[s][i].node \in S
           \/ \E k \in 1..Len(rest): i = Len(order) + k /\ todo'[s][i] = rest[k]
<1>1. S \subseteq Nodes /\ todo \in [Shells -> Seq(Calls)]  BY StoredAre DEF WorkInv, Typed
<1>2. order \in Seq(Nodes) /\ \A k \in 1..Len(order): order[k] \in S  BY <1>1, OrderIsSeq
<1>3. /\ order \in Seq(Nodes) /\ "visit" \in {"visit", "rmdir"} /\ Push(s, order, "visit", rest)
      /\ todo \in [Shells -> Seq(Calls)]
  BY <1>1, <1>2
<1>4. \A j \in DOMAIN todo'[s]:
        \/ \E k \in 1..Len(order): todo'[s][j] = [op |-> "visit", node |-> order[k]] /\ j = k
        \/ \E k \in 1..Len(rest): todo'[s][j] = rest[k] /\ j = Len(order) + k
  BY <1>3, Pushed
<1>5. ASSUME NEW i \in DOMAIN todo'[s], NEW k \in 1..Len(order),
             todo'[s][i] = [op |-> "visit", node |-> order[k]] /\ i = k
      PROVE  i \in 1..Len(order) /\ todo'[s][i].op = "visit" /\ todo'[s][i].node \in S
  BY <1>2, <1>5
<1> QED  BY <1>4, <1>5

(* What is pushed on a stack, when it is in a set, and nothing else is new. *)
LEMMA PushedIn ==
  ASSUME WorkInv, NEW s \in Shells, NEW S \in SUBSET Stored, IsFiniteSet(S),
         NEW rest \in Seq(Calls), NEW order \in SetToSeqs(S), Push(s, order, "visit", rest)
  PROVE  /\ order \in Seq(Nodes) /\ Len(order) \in Nat /\ todo'[s] \in Seq(Calls)
         /\ Len(todo'[s]) = Len(order) + Len(rest)
         /\ \A n \in S: \E k \in 1..Len(order): todo'[s][k] = [op |-> "visit", node |-> n]
         /\ \A k \in 1..Len(rest): todo'[s][Len(order) + k] = rest[k]
<1>1. S \subseteq Nodes /\ todo \in [Shells -> Seq(Calls)]  BY StoredAre DEF WorkInv, Typed
<1>2. order \in Seq(Nodes) /\ Len(order) \in Nat /\ \A k \in 1..Len(order): order[k] \in S
  BY <1>1, OrderIsSeq
<1>3. /\ order \in Seq(Nodes) /\ "visit" \in {"visit", "rmdir"} /\ Push(s, order, "visit", rest)
      /\ todo \in [Shells -> Seq(Calls)]
  BY <1>1, <1>2
<1>5. /\ todo' \in [Shells -> Seq(Calls)] /\ Len(todo'[s]) = Len(order) + Len(rest)
      /\ \A k \in 1..Len(order): todo'[s][k] = [op |-> "visit", node |-> order[k]]
  BY <1>3, PushTyped
<1>6. \A k \in 1..Len(rest): todo'[s][Len(order) + k] = rest[k]
  BY <1>3, PushTyped
<1>7. \A n \in S: \E k \in 1..Len(order): order[k] = n  BY OrderHasAll
<1>8. \A n \in S: \E k \in 1..Len(order): todo'[s][k] = [op |-> "visit", node |-> n]
  BY <1>5, <1>7
<1> QED  BY <1>2, <1>5, <1>6, <1>8

LEMMA PushedAll ==
  ASSUME WorkInv, NEW s \in Shells, NEW S \in SUBSET Stored, IsFiniteSet(S),
         \E order \in SetToSeqs(S): Push(s, order, "visit", << >>)
  PROVE  /\ todo'[s] \in Seq(Calls)
         /\ \A i \in DOMAIN todo'[s]: todo'[s][i].op = "visit" /\ todo'[s][i].node \in S
         /\ \A n \in S: \E k \in DOMAIN todo'[s]: todo'[s][k] = [op |-> "visit", node |-> n]
<1> DEFINE rest == << >>
<1>1. rest \in Seq(Calls) /\ Len(rest) = 0  OBVIOUS
<1>2. PICK order \in SetToSeqs(S): Push(s, order, "visit", rest)  OBVIOUS
<1> HIDE DEF rest
<1>h. /\ WorkInv /\ IsFiniteSet(S) /\ S \in SUBSET Stored /\ rest \in Seq(Calls)
      /\ order \in SetToSeqs(S) /\ Push(s, order, "visit", rest)
  BY <1>1, <1>2
<1>3. Len(order) \in Nat /\ todo'[s] \in Seq(Calls) /\ Len(todo'[s]) = Len(order) + Len(rest)
  BY <1>h, PushedIn
<1>4. \A i \in DOMAIN todo'[s]:
        \/ i \in 1..Len(order) /\ todo'[s][i].op = "visit" /\ todo'[s][i].node \in S
        \/ \E k \in 1..Len(rest): i = Len(order) + k /\ todo'[s][i] = rest[k]
  BY <1>h, PushedFrom
<1>5. \A n \in S: \E k \in 1..Len(order): todo'[s][k] = [op |-> "visit", node |-> n]
  BY <1>h, PushedIn
<1> QED  BY <1>1, <1>3, <1>4, <1>5

RemoveInv == CommandInv /\ \A s \in Shells: Knows(s) /\ UnderArg(s)

LEMMA KnowsStep ==
  ASSUME CommandInv, RemovesUndisturbed, NEW s \in Shells, ChildStep(s) \/ UserStep(s),
         NEW t \in Shells, Knows(t)
  PROVE  Knows(t)'
<1>0. Typed /\ pc \in [Shells -> Steps] /\ tree \in [Shells -> SUBSET Nodes]
  BY DEF CommandInv, WorkInv, Typed
<1>1. CASE t = s
  <2> SUFFICES ASSUME cmd'[s].op \in {"remove", "clear"}, pc'[s] \in {"check", "pick", "remove"}
               PROVE  Tree' \subseteq tree'[s]
    BY <1>1 DEF Knows
  <2>1. \/ pc'[s] = "snapshot"
        \/ cmd'[s] = cmd[s] /\ \/ Snapshot(s) \/ CheckDir(s) \/ CheckFile(s) \/ Pick(s) \/ PickNone(s)
                               \/ RemoveFile(s) \/ RemoveDir(s) \/ Rmdir(s) \/ Flush(s)
    BY RemoversStep
  <2>2. CASE Snapshot(s)
    <3>1. tree'[s] = Tree /\ Tree' = Tree  BY <1>0, <2>2 DEF Snapshot, Tree
    <3> QED  BY <3>1
  <2>3. CASE ~Snapshot(s)
    <3>1. cmd'[s] = cmd[s] /\ tree' = tree
      BY <2>1, <2>3 DEF CheckDir, CheckFile, Pick, PickNone, RemoveFile, RemoveDir, Rmdir, Flush
    <3>3. pc[s] \in {"check", "pick", "remove"}
      BY <1>0, <2>1, <2>3 DEF CheckDir, CheckFile, Pick, PickNone, RemoveFile, RemoveDir, Rmdir, Flush,
                              Removing, Goto
    <3>4. Tree' \subseteq Tree  BY <3>1, WhoMakes
    <3> QED  BY <1>1, <3>1, <3>3, <3>4 DEF Knows
  <2> QED  BY <2>2, <2>3
<1>2. CASE t # s
  <2>1. cmd'[t] = cmd[t] /\ pc'[t] = pc[t] /\ tree'[t] = tree[t]  BY <1>0, <1>2, OthersKept
  <2>2. ASSUME cmd[t].op \in {"remove", "clear"} PROVE Tree' \subseteq Tree
    <3>1. cmd[s].op \notin {"add", "recover"}  BY <1>2, <2>2 DEF RemovesUndisturbed
    <3> QED  BY <3>1, WhoMakes
  <2> QED  BY <2>1, <2>2 DEF Knows
<1> QED  BY <1>1, <1>2

LEMMA UnderArgStep ==
  ASSUME CommandInv, NEW s \in Shells, ChildStep(s) \/ UserStep(s), Knows(s), UnderArg(s)
  PROVE  UnderArg(s)'
<1>0. /\ WorkInv /\ Typed /\ pc \in [Shells -> Steps] /\ todo \in [Shells -> Seq(Calls)] /\ Kinds(s) /\ Fits(s)
      /\ list \in [Shells -> SUBSET Nodes] /\ cmd[s] \in Cmds
  BY DEF CommandInv, WorkInv, Typed
<1> SUFFICES ASSUME cmd'[s].op = "remove" PROVE UnderArg(s)'  BY DEF UnderArg
<1> DEFINE p == cmd[s].path
           Under(e) == IsPrefix(p, e.node.path)
<1>1. \/ pc'[s] = "snapshot" /\ todo'[s] = << >>
      \/ cmd'[s] = cmd[s] /\ \/ Snapshot(s) \/ CheckDir(s) \/ CheckFile(s) \/ Pick(s) \/ PickNone(s)
                             \/ RemoveFile(s) \/ RemoveDir(s) \/ Rmdir(s) \/ Flush(s)
  BY RemoversStep
<1>2. CASE pc'[s] = "snapshot"
  <2>1. todo'[s] = << >>
    BY <1>0, <1>1, <1>2 DEF Snapshot, CheckDir, CheckFile, Pick, PickNone, RemoveFile, RemoveDir, Rmdir,
                            Flush, Goto, Loop, Removing
  <2> QED  BY <1>2, <2>1 DEF UnderArg
<1> SUFFICES ASSUME pc'[s] # "snapshot" PROVE UnderArg(s)'  BY <1>2
<1>3. cmd'[s] = cmd[s] /\ cmd[s].op = "remove" /\ p \in Seq(Names) \ {<< >>}
  <2>1. cmd'[s] = cmd[s] /\ cmd[s].op = "remove"  BY <1>1
  <2> QED  BY <1>0, <2>1, PathsAreSeqs DEF Fits, Cmds
<1>4. \A k \in DOMAIN todo[s]: Under(todo[s][k])  BY <1>3 DEF UnderArg
<1>5. ASSUME \A k \in DOMAIN todo'[s]: Under(todo'[s][k]),
             pc'[s] = "pick" => \A v \in list'[s]: IsPrefix(p, v.path)
      PROVE  UnderArg(s)'
  BY <1>3, <1>5 DEF UnderArg
<1>6. ASSUME todo[s] # << >>, todo'[s] = Tail(todo[s])
      PROVE  \A k \in DOMAIN todo'[s]: Under(todo'[s][k])
  <2>1. \A k \in DOMAIN todo'[s]: k + 1 \in DOMAIN todo[s] /\ todo'[s][k] = todo[s][k + 1]
    BY <1>0, <1>6, TopTyped
  <2> QED  BY <1>4, <2>1
<1>7. CASE Snapshot(s) \/ PickNone(s) \/ Flush(s)
  <2>1. todo' = todo /\ pc'[s] # "pick"  BY <1>0, <1>7 DEF Snapshot, PickNone, Flush, Goto
  <2> QED  BY <1>4, <1>5, <2>1
<1>8. CASE CheckDir(s)
  <2>1. Tree \subseteq tree[s] /\ Dir(s)  BY <1>3, <1>8 DEF CheckDir, Knows
  <2>2. Found(s) = p  BY <1>3, <2>1, FoundArg
  <2>3. PICK order \in SetToSeqs(Children(tree[s], p)): Push(s, order, "visit", << >>)
    BY <1>8, <2>2 DEF CheckDir
  <2>4. /\ Children(tree[s], p) \in SUBSET Stored /\ IsFiniteSet(Children(tree[s], p))
        /\ \A n \in Children(tree[s], p): IsPrefix(p, n.path)
    <3>1. tree[s] \subseteq Stored /\ IsFiniteSet(tree[s])  BY <1>0 DEF Kinds, Typed
    <3> QED  BY <1>3, <3>1, ChildrenAre, FS_Subset DEF Children, IsStrictPrefix
  <2>5. \A k \in DOMAIN todo'[s]: Under(todo'[s][k])
    BY <1>0, <2>3, <2>4, PushedAll
  <2>6. pc'[s] # "pick"  BY <1>0, <1>8 DEF CheckDir, Goto, Loop
  <2> QED  BY <1>5, <2>5, <2>6
<1>9. CASE CheckFile(s)
  <2>1. \A v \in Versions(p): IsPrefix(p, v.path)  BY <1>3, PrefixOrder DEF Versions
  <2>2. Versions(p) \in SUBSET Stored /\ IsFiniteSet(Versions(p))
    <3>1. Versions(p) \subseteq DOMAIN backup /\ IsFiniteSet(DOMAIN backup)  BY <1>0 DEF Versions, Typed
    <3> QED  BY <3>1, FS_Subset DEF CommandInv, Apart, Stored
  <2>3. CASE cmd[s].op = "remove" /\ (cmd[s].all \/ Single(Versions(p)))
    <3>1. PICK order \in SetToSeqs(Versions(p)): Push(s, order, "visit", << >>)
      BY <1>9, <2>3 DEF CheckFile
    <3>2. pc'[s] = "remove"  BY <1>0, <1>9, <2>3 DEF CheckFile, Goto
    <3>5. \A i \in DOMAIN todo'[s]: todo'[s][i].node \in Versions(p)
      BY <1>0, <2>2, <3>1, PushedAll
    <3>6. \A i \in DOMAIN todo'[s]: Under(todo'[s][i])  BY <2>1, <3>5
    <3>7. pc'[s] # "pick"  BY <3>2
    <3> HIDE DEF Under
    <3> QED  BY <1>5, <3>6, <3>7
  <2>4. CASE ~(cmd[s].op = "remove" /\ (cmd[s].all \/ Single(Versions(p))))
    <3>1. list'[s] = Versions(p) /\ todo' = todo  BY <1>0, <1>9, <2>4 DEF CheckFile
    <3> QED  BY <1>4, <1>5, <2>1, <3>1
  <2> QED  BY <2>3, <2>4
<1>10. CASE Pick(s)
  <2>1. PICK v \in list[s]: Push(s, <<v>>, "visit", << >>) /\ pc'[s] = "remove"
    BY <1>0, <1>3, <1>10 DEF Pick, Goto
  <2>2. IsPrefix(p, v.path) /\ v \in Nodes  BY <1>0, <1>3, <1>10, <2>1 DEF Pick, UnderArg
  <2>3. \A i \in DOMAIN todo'[s]: todo'[s][i].node = v  BY <1>0, <2>1, <2>2, PushedOne
  <2>5. \A i \in DOMAIN todo'[s]: Under(todo'[s][i])  BY <2>2, <2>3
  <2> QED  BY <1>5, <2>1, <2>5
<1>11. CASE RemoveFile(s) \/ Rmdir(s)
  <2>1. pc'[s] = "remove" /\ todo[s] # << >> /\ todo'[s] = Tail(todo[s])
    BY <1>0, <1>11 DEF RemoveFile, Rmdir, Removing, Pop
  <2> QED  BY <1>5, <1>6, <2>1
<1>12. CASE RemoveDir(s)
  <2> DEFINE d == Top(s).path
             rest == <<[op |-> "rmdir", node |-> Top(s)]>> \o Tail(todo[s])
  <2>1. PICK order \in SetToSeqs(Children(tree[s], d)): Push(s, order, "visit", rest)
    BY <1>12 DEF RemoveDir
  <2>2. pc[s] = "remove" /\ pc' = pc /\ todo[s] # << >>  BY <1>12 DEF RemoveDir, Removing
  <2>3. /\ Top(s) \in Nodes /\ Tail(todo[s]) \in Seq(Calls) /\ IsPrefix(p, d)
        /\ \A k \in 1..Len(Tail(todo[s])): Under(Tail(todo[s])[k])
    <3>1. /\ Top(s) \in Nodes /\ Tail(todo[s]) \in Seq(Calls) /\ Top(s) = todo[s][1].node /\ 1 \in DOMAIN todo[s]
          /\ Len(Tail(todo[s])) = Len(todo[s]) - 1
          /\ \A k \in 1..Len(Tail(todo[s])): Tail(todo[s])[k] = todo[s][k + 1]
      BY <1>0, <2>2, TopTyped DEF Top
    <3>2. \A k \in 1..Len(Tail(todo[s])): k + 1 \in DOMAIN todo[s]  BY <1>0, <3>1
    <3> QED  BY <1>4, <3>1, <3>2
  <2>4. rest \in Seq(Calls) /\ \A k \in 1..Len(rest): Under(rest[k])
    <3> DEFINE e == [op |-> "rmdir", node |-> Top(s)]
               tl == Tail(todo[s])
    <3>1. e \in Calls /\ Under(e) /\ <<e>> \in Seq(Calls) /\ Len(<<e>>) = 1 /\ <<e>>[1] = e
      BY <2>3 DEF Calls
    <3>2. tl \in Seq(Calls) /\ \A k \in 1..Len(tl): Under(tl[k])  BY <2>3
    <3> HIDE DEF e, tl, Under
    <3>3. /\ <<e>> \o tl \in Seq(Calls) /\ Len(<<e>> \o tl) = 1 + Len(tl)
          /\ (<<e>> \o tl)[1] = e
          /\ \A k \in 1..Len(tl): (<<e>> \o tl)[1 + k] = tl[k]
      BY <3>1, <3>2, ConcatParts
    <3>4. \A k \in 1..Len(<<e>> \o tl): k = 1 \/ (k - 1 \in 1..Len(tl) /\ k = 1 + (k - 1))
      BY <3>2, <3>3
    <3>5. \A k \in 1..Len(<<e>> \o tl): Under((<<e>> \o tl)[k])  BY <3>1, <3>2, <3>3, <3>4
    <3> QED  BY <3>3, <3>5 DEF e, tl
  <2> HIDE DEF rest
  <2>5. d \in Seq(Names)  BY <2>3, PathsAreSeqs DEF Nodes
  <2> HIDE DEF d
  <2>6. /\ Children(tree[s], d) \in SUBSET Stored /\ IsFiniteSet(Children(tree[s], d))
        /\ \A n \in Children(tree[s], d): IsPrefix(p, n.path)
    <3>1. tree[s] \subseteq Stored /\ IsFiniteSet(tree[s])  BY <1>0 DEF Kinds, Typed
    <3>2. ASSUME NEW n \in Children(tree[s], d) PROVE IsPrefix(p, n.path)
      <4>1. IsPrefix(d, n.path) /\ n \in Stored  BY <2>5, ChildrenAre DEF IsStrictPrefix
      <4>2. n.path \in Seq(Names)  BY <4>1, StoredAre
      <4> QED  BY <1>3, <2>3, <2>5, <4>1, <4>2, PrefixOrder DEF d
    <3>3. Children(tree[s], d) \subseteq tree[s]  BY DEF Children
    <3> QED  BY <3>1, <3>2, <3>3, FS_Subset
  <2>7. \A k \in DOMAIN todo'[s]: Under(todo'[s][k])
    <3>1. \A i \in DOMAIN todo'[s]:
            \/ i \in 1..Len(order) /\ todo'[s][i].op = "visit" /\ todo'[s][i].node \in Children(tree[s], d)
            \/ \E k \in 1..Len(rest): i = Len(order) + k /\ todo'[s][i] = rest[k]
      BY <1>0, <2>1, <2>4, <2>6, PushedFrom DEF d
    <3> QED  BY <2>4, <2>6, <3>1
  <2> QED  BY <1>5, <2>2, <2>7
<1> QED  BY <1>1, <1>7, <1>8, <1>9, <1>10, <1>11, <1>12

LEMMA RemoveInvStep ==
  ASSUME RemoveInv, RemovesUndisturbed, [Next]_vars
  PROVE  RemoveInv'
<1>0. CommandInv /\ Typed /\ \A s \in Shells: Knows(s) /\ UnderArg(s)
  BY DEF RemoveInv, CommandInv, WorkInv
<1>1. CommandInv'  BY <1>0, CommandInvStep
<1>2. ASSUME NEW s \in Shells, ChildStep(s) \/ UserStep(s), NEW t \in Shells
      PROVE  Knows(t)' /\ UnderArg(t)'
  <2>1. Knows(t)'  BY <1>0, <1>2, KnowsStep
  <2>2. CASE t = s  BY <1>0, <1>2, <2>1, <2>2, UnderArgStep
  <2>3. CASE t # s
    <3>1. pc'[t] = pc[t] /\ cmd'[t] = cmd[t] /\ todo'[t] = todo[t] /\ list'[t] = list[t]
      BY <1>0, <1>2, <2>3, OthersKept
    <3> QED  BY <1>0, <2>1, <3>1 DEF UnderArg
  <2> QED  BY <2>2, <2>3
<1>3. CASE \E s \in Shells: ChildStep(s) \/ UserStep(s)
  BY <1>1, <1>2, <1>3 DEF RemoveInv
<1>4. CASE UNCHANGED <<backup, bdirs, childVars>>
  BY <1>0, <1>1, <1>4 DEF RemoveInv, Knows, UnderArg, Tree, childVars
<1> QED  BY <1>3, <1>4 DEF Next, Write, Erase, MayWrite, Tick, vars

Removals == \A v \in DOMAIN backup \ DOMAIN backup':
              \E s \in Shells: RemoveFile(s) /\ IsPrefix(cmd[s].path, v.path)

LEMMA RemovalsStep ==
  ASSUME RemoveInv, [Next]_vars
  PROVE  Removals
<1>0. CommandInv /\ WorkInv /\ Typed /\ \A s \in Shells: Knows(s) /\ UnderArg(s) /\ Fits(s)
  BY DEF RemoveInv, CommandInv, WorkInv
<1> SUFFICES ASSUME NEW v \in DOMAIN backup \ DOMAIN backup'
             PROVE  \E s \in Shells: RemoveFile(s) /\ IsPrefix(cmd[s].path, v.path)
  BY DEF Removals
<1>1. PICK s \in Shells: ChildStep(s) \/ UserStep(s)
  BY DEF Next, Write, Erase, MayWrite, Tick, vars
<1>2. RemoveFile(s) /\ v = Top(s)  BY <1>0, <1>1, OnlyRemoveRemoves
<1>3. pc[s] = "remove" /\ todo[s] # << >>  BY <1>2 DEF RemoveFile, Removing
<1>4. cmd[s].op \in {"remove", "clear"}  BY <1>0, <1>3, WhoRemoves
<1>5. CASE cmd[s].op = "remove"
  <2>1. 1 \in DOMAIN todo[s] /\ Top(s) = todo[s][1].node  BY <1>0, <1>3, TopTyped DEF Top
  <2> QED  BY <1>0, <1>2, <1>5, <2>1 DEF UnderArg
<1>6. CASE cmd[s].op = "clear"
  <2>1. cmd[s].path = << >>  BY <1>0, <1>6 DEF Fits
  <2>2. v.path \in Seq(Names)
    <3>1. v \in Nodes  BY <1>0 DEF Typed
    <3> QED  BY <3>1, PathsAreSeqs DEF Nodes
  <2> QED  BY <1>2, <2>1, <2>2, PrefixOrder
<1> QED  BY <1>4, <1>5, <1>6

(* If nobody adds or recovers while somebody removes, then whatever is     *)
(* taken out of the backup directory is removed by a child whose argument  *)
(* is on the way to it.                                                    *)
THEOREM RemovesOnlyUnderCorrect == Spec /\ []RemovesUndisturbed => RemovesOnlyUnder
<1>1. Init => RemoveInv
  BY CommandInvInit DEF Init, RemoveInv, Knows, UnderArg, NoCmd
<1>2. RemoveInv /\ RemovesUndisturbed /\ [Next]_vars => RemoveInv'
  BY RemoveInvStep
<1>3. RemoveInv /\ [Next]_vars => [Removals]_vars
  BY RemovalsStep
<1>4. RemovesOnlyUnder <=> [][Removals]_vars
  BY DEF RemovesOnlyUnder, Removals
<1> QED  BY <1>1, <1>2, <1>3, <1>4, PTL DEF Spec

-----------------------------------------------------------------------------
(* remove -a and -c *)

(* Whatever is below a directory is in it, or is below one that is in it. *)
LEMMA Below ==
  ASSUME CommandInv, NEW s \in Shells, Tree \subseteq tree[s], NEW d \in Seq(Names),
         NEW n \in Tree, IsStrictPrefix(d, n.path)
  PROVE  \E c \in Children(tree[s], d): c = n \/ IsStrictPrefix(c.path, n.path)
<1>0. Tree \subseteq Stored /\ Housed /\ n \in Stored
  BY StoredAre DEF CommandInv, WorkInv
<1>1. n.path \in Seq(Names) \ {<< >>}  BY <1>0, StoredAre
<1>2. PICK r \in Seq(Names) \ {<< >>}: Front(r) = d /\ IsPrefix(r, n.path)
  BY <1>1, OneFurther
<1>3. CASE r = n.path
  <2>1. n \in Children(tree[s], d)  BY <1>1, <1>2, <1>3 DEF Children
  <2> QED  BY <2>1
<1>4. CASE r # n.path
  <2>1. IsStrictPrefix(r, n.path)  BY <1>2, <1>4 DEF IsStrictPrefix
  <2>2. r \in Parents(n.path)  BY <1>1, <2>1, PathsOnTheWay
  <2>3. r \in bdirs  BY <1>0, <2>2 DEF Housed
  <2>4. Node(r, 0) \in Tree /\ Node(r, 0).path = r  BY <2>3 DEF Tree, Node
  <2>5. Node(r, 0) \in Children(tree[s], d)  BY <1>2, <2>4 DEF Children
  <2> QED  BY <2>1, <2>4, <2>5
<1> QED  BY <1>3, <1>4

(* What is not a directory has nothing below it. *)
LEMMA NothingBelow ==
  ASSUME CommandInv, NEW p \in Seq(Names) \ {<< >>}, p \notin bdirs, NEW n \in Tree
  PROVE  ~IsStrictPrefix(p, n.path)
<1>1. n \in Stored /\ Parents(n.path) \subseteq bdirs  BY StoredAre DEF CommandInv, WorkInv, Housed
<1>2. n.path \in Seq(Names)  BY <1>1, StoredAre
<1> QED  BY <1>1, <1>2, PathsOnTheWay

(* The first calls of remove -a and -c. *)
LEMMA AllBeforeCheck ==
  ASSUME CommandInv, NEW s \in Shells, Knows(s), cmd[s].op \in {"remove", "clear"},
         CheckDir(s) \/ CheckFile(s)
  PROVE  AllBefore(s)'
<1>0. /\ WorkInv /\ Typed /\ pc \in [Shells -> Steps] /\ Kinds(s) /\ Fits(s) /\ cmd[s] \in Cmds /\ Apart
      /\ tree[s] \subseteq Stored /\ IsFiniteSet(tree[s])
  BY DEF CommandInv, WorkInv, Typed, Kinds
<1>1. Tree \subseteq tree[s] /\ Tree' = Tree /\ cmd' = cmd /\ Tree \subseteq Stored
  <2>1. pc[s] = "check" /\ backup' = backup /\ bdirs' = bdirs /\ cmd' = cmd  BY DEF CheckDir, CheckFile
  <2> QED  BY <1>0, <2>1, StoredAre DEF Knows, Tree
<1> DEFINE p == cmd[s].path
<1>2. ASSUME NEW S \in SUBSET Stored, IsFiniteSet(S), \E order \in SetToSeqs(S): Push(s, order, "visit", << >>),
             \A n \in Tree: Left(s, n) => \E c \in S: c = n \/ IsStrictPrefix(c.path, n.path)
      PROVE  AllOnStack(s)' /\ InsideFirst(s)'
  <2>1. /\ \A i \in DOMAIN todo'[s]: todo'[s][i].op = "visit"
        /\ \A n \in S: \E k \in DOMAIN todo'[s]: todo'[s][k] = [op |-> "visit", node |-> n]
    BY <1>0, <1>2, PushedAll
  <2>2. InsideFirst(s)'  BY <2>1 DEF InsideFirst
  <2>3. ASSUME NEW n \in Tree, Left(s, n) PROVE \E k \in DOMAIN todo'[s]: Covers(todo'[s][k], n)
    <3>1. PICK c \in S: c = n \/ IsStrictPrefix(c.path, n.path)  BY <1>2, <2>3
    <3>2. PICK k \in DOMAIN todo'[s]: todo'[s][k] = [op |-> "visit", node |-> c]  BY <2>1
    <3> QED  BY <3>1, <3>2 DEF Covers
  <2> QED  BY <1>1, <2>2, <2>3 DEF AllOnStack, Left
<1>3. CASE CheckDir(s)
  <2>1. Dir(s) /\ pc'[s] = "remove"  BY <1>0, <1>3 DEF CheckDir, Goto, Loop
  <2>2. Found(s) = p /\ p \in Seq(Names)  BY <1>1, <2>1, FoundArg
  <2>3. \E order \in SetToSeqs(Children(tree[s], p)): Push(s, order, "visit", << >>)
    BY <1>3, <2>2 DEF CheckDir
  <2>4. Children(tree[s], p) \in SUBSET Stored /\ IsFiniteSet(Children(tree[s], p))
    <3>1. Children(tree[s], p) \subseteq tree[s]  BY DEF Children
    <3> QED  BY <1>0, <3>1, FS_Subset
  <2>5. ASSUME NEW n \in Tree, Left(s, n) PROVE IsStrictPrefix(p, n.path)
    <3>1. n \in Stored /\ n.path \in Seq(Names) \ {<< >>}  BY <1>1, StoredAre
    <3>2. ASSUME n.path = p PROVE FALSE
      <4>1. p # << >> /\ p \in bdirs  BY <1>0, <2>1, <3>1, <3>2 DEF Dir, Fits
      <4>2. p \in Dirs /\ Dirs \cap Files = {}  BY <1>0, <4>1, PathsAreSeqs DEF Typed
      <4>3. n = Node(p, 0)  BY <3>1, <3>2, <4>2, StoredAre
      <4> QED  BY <2>5, <4>3 DEF Left
    <3> QED  BY <2>5, <3>2 DEF Left, IsStrictPrefix
  <2>6. \A n \in Tree: Left(s, n) => \E c \in Children(tree[s], p): c = n \/ IsStrictPrefix(c.path, n.path)
    BY <1>1, <2>2, <2>5, Below
  <2>7. AllOnStack(s)' /\ InsideFirst(s)'  BY <1>2, <2>3, <2>4, <2>6
  <2> QED  BY <2>1, <2>7 DEF AllBefore
<1>4. CASE CheckFile(s)
  <2>1. ~Dir(s) /\ p \in Seq(Names) \ {<< >>} /\ p \notin bdirs
    <3>1. ~Dir(s) /\ cmd[s].op = "remove"  BY <1>4 DEF CheckFile, Dir
    <3> QED  BY <1>0, <3>1, PathsAreSeqs DEF Dir, Fits, Cmds
  <2>2. CASE cmd[s].all
    <3>1. pc'[s] = "remove" /\ \E order \in SetToSeqs(Versions(p)): Push(s, order, "visit", << >>)
      BY <1>0, <1>4, <2>1, <2>2 DEF CheckFile, Goto, Dir
    <3>2. Versions(p) \in SUBSET Stored /\ IsFiniteSet(Versions(p))
      <4>1. Versions(p) \subseteq DOMAIN backup /\ IsFiniteSet(DOMAIN backup)
        BY <1>0 DEF Versions, Typed
      <4> QED  BY <1>0, <4>1, FS_Subset DEF Apart, Stored
    <3>3. ASSUME NEW n \in Tree, Left(s, n) PROVE n \in Versions(p)
      <4>1. n \in Stored /\ n.path \in Seq(Names)  BY <1>1, StoredAre
      <4>2. ~IsStrictPrefix(p, n.path)  BY <2>1, NothingBelow
      <4>3. n.path = p  BY <3>3, <4>2 DEF Left, IsStrictPrefix
      <4>4. n \in DOMAIN backup  BY <2>1, <4>3 DEF Tree, Node
      <4> QED  BY <4>3, <4>4 DEF Versions
    <3>4. AllOnStack(s)' /\ InsideFirst(s)'  BY <1>2, <3>1, <3>2, <3>3
    <3> QED  BY <3>1, <3>4 DEF AllBefore
  <2>3. CASE ~cmd[s].all  BY <1>1, <2>3 DEF AllBefore
  <2> QED  BY <2>2, <2>3
<1> QED  BY <1>3, <1>4

(* One call done: what it covered is gone, or is left to no other call. *)
LEMMA AllBeforePop ==
  ASSUME CommandInv, NEW s \in Shells, todo[s] # << >>, todo'[s] = Tail(todo[s]), cmd'[s] = cmd[s],
         Tree' \subseteq Tree, \A n \in Tree': ~Covers(Head(todo[s]), n),
         AllOnStack(s), InsideFirst(s)
  PROVE  AllOnStack(s)' /\ InsideFirst(s)'
<1>0. /\ Typed /\ todo[s] \in Seq(Calls) /\ Head(todo[s]) = todo[s][1] /\ Len(todo[s]) \in Nat \ {0}
      /\ Len(todo'[s]) = Len(todo[s]) - 1
      /\ \A k \in 1..Len(todo'[s]): todo'[s][k] = todo[s][k + 1]
  <2>1. Typed /\ todo[s] \in Seq(Calls)  BY DEF CommandInv, WorkInv, Typed
  <2> QED  BY <2>1, TopTyped
<1>a. DOMAIN todo[s] = 1..Len(todo[s]) /\ DOMAIN todo'[s] = 1..Len(todo'[s])
  BY <1>0
<1>1. ASSUME NEW n \in Tree', NEW k \in DOMAIN todo[s], Covers(todo[s][k], n)
      PROVE  k - 1 \in DOMAIN todo'[s] /\ Covers(todo'[s][k - 1], n)
  <2>1. k # 1  BY <1>0, <1>1
  <2>2. k - 1 \in 1..Len(todo'[s]) /\ (k - 1) + 1 = k  BY <1>0, <1>a, <2>1
  <2> QED  BY <1>0, <1>1, <1>a, <2>2
<1>2. ASSUME NEW n \in Tree', Left(s, n)' PROVE \E k \in DOMAIN todo'[s]: Covers(todo'[s][k], n)
  <2>1. Left(s, n)  BY <1>2 DEF Left
  <2> QED  BY <1>1, <1>2, <2>1 DEF AllOnStack
<1>3. ASSUME NEW k \in DOMAIN todo'[s], todo'[s][k].op = "rmdir"
      PROVE  /\ todo'[s][k].node.path \in Dirs
             /\ \A n \in Tree': IsStrictPrefix(todo'[s][k].node.path, n.path) =>
                  \E j \in 1..(k - 1): Covers(todo'[s][j], n)
  <2>1. k + 1 \in DOMAIN todo[s] /\ todo'[s][k] = todo[s][k + 1] /\ k \in Nat  BY <1>0, <1>a
  <2>2. todo'[s][k].node.path \in Dirs  BY <1>3, <2>1 DEF InsideFirst
  <2>3. ASSUME NEW n \in Tree', IsStrictPrefix(todo'[s][k].node.path, n.path)
        PROVE  \E j \in 1..(k - 1): Covers(todo'[s][j], n)
    <3>1. PICK j \in 1..((k + 1) - 1): Covers(todo[s][j], n)  BY <1>3, <2>1, <2>3 DEF InsideFirst
    <3>2. j \in DOMAIN todo[s] /\ j \in 1..k  BY <1>a, <2>1
    <3>3. j - 1 \in DOMAIN todo'[s] /\ Covers(todo'[s][j - 1], n)  BY <1>1, <3>1, <3>2
    <3>4. j - 1 \in 1..(k - 1)  BY <1>a, <2>1, <3>2, <3>3
    <3> QED  BY <3>3, <3>4
  <2> QED  BY <2>2, <2>3
<1>4. AllOnStack(s)'  BY <1>2 DEF AllOnStack
<1> QED  BY <1>3, <1>4 DEF InsideFirst

(* A directory opened: what is in it comes before it. *)
LEMMA AllBeforeOpen ==
  ASSUME CommandInv, NEW s \in Shells, Tree \subseteq tree[s], RemoveDir(s), AllOnStack(s), InsideFirst(s)
  PROVE  AllOnStack(s)' /\ InsideFirst(s)'
<1> DEFINE D == Top(s)
           d == Top(s).path
           tl == Tail(todo[s])
           e == [op |-> "rmdir", node |-> Top(s)]
           rest == <<e>> \o tl
<1>0. /\ WorkInv /\ Typed /\ pc[s] = "remove" /\ todo[s] # << >> /\ d \in bdirs /\ todo[s] \in Seq(Calls)
      /\ cmd' = cmd /\ Tree' = Tree /\ tree[s] \subseteq Stored /\ IsFiniteSet(tree[s])
  BY DEF CommandInv, WorkInv, Typed, Kinds, RemoveDir, Removing, Tree
<1>1. /\ D \in Nodes /\ tl \in Seq(Calls) /\ Len(tl) = Len(todo[s]) - 1 /\ D = todo[s][1].node
      /\ \A k \in 1..Len(tl): tl[k] = todo[s][k + 1]
  BY <1>0, TopTyped DEF Top
<1>2. d \in Dirs /\ d \in Seq(Names)  BY <1>0, PathsAreSeqs DEF Typed
<1>3. PICK order \in SetToSeqs(Children(tree[s], d)): Push(s, order, "visit", rest)
  BY DEF RemoveDir
<1>4. Children(tree[s], d) \in SUBSET Stored /\ IsFiniteSet(Children(tree[s], d))
  <2>1. Children(tree[s], d) \subseteq tree[s]  BY DEF Children
  <2> QED  BY <1>0, <2>1, FS_Subset
<1>5. /\ rest \in Seq(Calls) /\ Len(rest) = Len(todo[s]) /\ rest[1] = e
      /\ \A k \in 2..Len(rest): rest[k] = todo[s][k]
  <2>1. e \in Calls  BY <1>1 DEF Calls
  <2>2. <<e>> \in Seq(Calls) /\ Len(<<e>>) = 1 /\ <<e>>[1] = e  BY <2>1
  <2> HIDE DEF e, tl
  <2>3. /\ <<e>> \o tl \in Seq(Calls) /\ Len(<<e>> \o tl) = 1 + Len(tl) /\ (<<e>> \o tl)[1] = e
        /\ \A k \in 1..Len(tl): (<<e>> \o tl)[1 + k] = tl[k]
    BY <1>1, <2>2, ConcatParts
  <2>4. Len(rest) = Len(todo[s]) /\ Len(todo[s]) \in Nat  BY <1>0, <1>1, <2>3
  <2>5. ASSUME NEW k \in 2..Len(rest) PROVE rest[k] = todo[s][k]
    <3>1. k - 1 \in 1..Len(tl) /\ 1 + (k - 1) = k /\ (k - 1) + 1 = k  BY <1>1, <2>4, <2>5
    <3> QED  BY <1>1, <2>3, <3>1
  <2> QED  BY <2>3, <2>4, <2>5
<1> HIDE DEF rest, d, D, tl
<1>h. /\ WorkInv /\ IsFiniteSet(Children(tree[s], d)) /\ Children(tree[s], d) \in SUBSET Stored
      /\ rest \in Seq(Calls) /\ order \in SetToSeqs(Children(tree[s], d)) /\ Push(s, order, "visit", rest)
  BY <1>0, <1>3, <1>4, <1>5
<1> DEFINE m == Len(order)
<1>6. m \in Nat /\ todo'[s] \in Seq(Calls) /\ Len(todo'[s]) = m + Len(todo[s]) /\ Len(todo[s]) \in Nat \ {0}
  <2>1. Len(order) \in Nat /\ todo'[s] \in Seq(Calls) /\ Len(todo'[s]) = Len(order) + Len(rest)
    BY <1>h, PushedIn
  <2> QED  BY <1>0, <1>5, <2>1
<1>7. \A c \in Children(tree[s], d): \E k \in 1..m: todo'[s][k] = [op |-> "visit", node |-> c]
  BY <1>h, PushedIn
<1>8. \A k \in 1..Len(rest): todo'[s][m + k] = rest[k]
  BY <1>h, PushedIn
<1>9. \A i \in DOMAIN todo'[s]:
        \/ i \in 1..m /\ todo'[s][i].op = "visit" /\ todo'[s][i].node \in Children(tree[s], d)
        \/ \E k \in 1..Len(rest): i = m + k /\ todo'[s][i] = rest[k]
  BY <1>h, PushedFrom
<1> HIDE DEF m
<1>a. /\ todo'[s][m + 1] = e
      /\ \A k \in 2..Len(todo[s]): todo'[s][m + k] = todo[s][k]
  <2>1. 1 \in 1..Len(rest) /\ \A k \in 2..Len(todo[s]): k \in 1..Len(rest) /\ k \in 2..Len(rest)
    BY <1>5, <1>6
  <2> QED  BY <1>5, <1>8, <2>1
<1>10. ASSUME NEW n \in Tree, IsStrictPrefix(d, n.path) PROVE \E k \in 1..m: Covers(todo'[s][k], n)
  <2>1. PICK c \in Children(tree[s], d): c = n \/ IsStrictPrefix(c.path, n.path)
    BY <1>2, <1>10, Below
  <2>2. PICK k \in 1..m: todo'[s][k] = [op |-> "visit", node |-> c]  BY <1>7
  <2> QED  BY <2>1, <2>2 DEF Covers
<1>11. ASSUME NEW n \in Tree, NEW k \in DOMAIN todo[s], Covers(todo[s][k], n)
       PROVE  \E j \in 1..(m + k): Covers(todo'[s][j], n)
  <2>0. k \in Nat \ {0}  BY <1>0
  <2>1. CASE k = 1
    <3>1. n = D \/ IsStrictPrefix(d, n.path)  BY <1>1, <1>11, <2>1 DEF Covers, d, D
    <3>2. CASE n = D
      <4>1. Covers(e, n)  BY <3>2 DEF Covers, D
      <4>2. m + 1 \in 1..(m + k)  BY <1>6, <2>1
      <4> QED  BY <1>a, <4>1, <4>2
    <3>3. CASE IsStrictPrefix(d, n.path)
      <4>1. PICK j \in 1..m: Covers(todo'[s][j], n)  BY <1>10, <3>3
      <4>2. j \in 1..(m + k)  BY <1>6, <2>1
      <4> QED  BY <4>1, <4>2
    <3> QED  BY <3>1, <3>2, <3>3
  <2>2. CASE k # 1
    <3>1. k \in 2..Len(todo[s]) /\ m + k \in 1..(m + k)  BY <1>0, <1>6, <2>0, <2>2
    <3> QED  BY <1>11, <1>a, <3>1
  <2> QED  BY <2>1, <2>2
<1>12. AllOnStack(s)'
  <2> SUFFICES ASSUME NEW n \in Tree, Left(s, n) PROVE \E k \in DOMAIN todo'[s]: Covers(todo'[s][k], n)
    BY <1>0 DEF AllOnStack, Left
  <2>1. PICK k \in DOMAIN todo[s]: Covers(todo[s][k], n)  BY DEF AllOnStack
  <2>2. PICK j \in 1..(m + k): Covers(todo'[s][j], n)  BY <1>11, <2>1
  <2>3. k \in 1..Len(todo[s]) /\ j \in 1..Len(todo'[s])  BY <1>0, <1>6
  <2> QED  BY <1>6, <2>2, <2>3
<1>13. InsideFirst(s)'
  <2> SUFFICES ASSUME NEW i \in DOMAIN todo'[s], todo'[s][i].op = "rmdir"
               PROVE  /\ todo'[s][i].node.path \in Dirs
                      /\ \A n \in Tree: IsStrictPrefix(todo'[s][i].node.path, n.path) =>
                           \E j \in 1..(i - 1): Covers(todo'[s][j], n)
    BY <1>0 DEF InsideFirst
  <2>1. PICK k \in 1..Len(rest): i = m + k /\ todo'[s][i] = rest[k]  BY <1>9
  <2>2. k \in 1..Len(todo[s]) /\ k \in Nat \ {0}  BY <1>5, <1>6
  <2>3. CASE k = 1
    <3>1. todo'[s][i].node.path = d  BY <1>a, <2>1, <2>3 DEF d
    <3>2. i - 1 = m  BY <1>6, <2>1, <2>3
    <3> QED  BY <1>2, <1>10, <3>1, <3>2
  <2>4. CASE k # 1
    <3>1. k \in 2..Len(todo[s]) /\ k \in DOMAIN todo[s] /\ todo'[s][i] = todo[s][k]
      BY <1>0, <1>a, <1>6, <2>1, <2>2, <2>4
    <3>2. todo'[s][i].node.path \in Dirs  BY <3>1 DEF InsideFirst
    <3>3. ASSUME NEW n \in Tree, IsStrictPrefix(todo'[s][i].node.path, n.path)
          PROVE  \E j \in 1..(i - 1): Covers(todo'[s][j], n)
      <4>1. PICK j \in 1..(k - 1): Covers(todo[s][j], n)  BY <3>1, <3>3 DEF InsideFirst
      <4>2. j \in DOMAIN todo[s] /\ j \in Nat  BY <1>0, <2>2
      <4>3. PICK l \in 1..(m + j): Covers(todo'[s][l], n)  BY <1>11, <4>1, <4>2
      <4>4. l \in 1..(i - 1)  BY <1>6, <2>1, <2>2, <4>1, <4>2
      <4> QED  BY <4>3, <4>4
    <3> QED  BY <3>2, <3>3
  <2> QED  BY <2>3, <2>4
<1> QED  BY <1>12, <1>13

LEMMA AllBeforeStep ==
  ASSUME RemoveInv, NEW s \in Shells, ChildStep(s) \/ UserStep(s), AllBefore(s), CommandInv'
  PROVE  AllBefore(s)'
<1>0. /\ CommandInv /\ WorkInv /\ Typed /\ Apart /\ pc \in [Shells -> Steps] /\ todo \in [Shells -> Seq(Calls)]
      /\ Kinds(s) /\ Fits(s) /\ Knows(s) /\ cmd'[s] \in Cmds /\ Fits(s)'
  BY DEF RemoveInv, CommandInv, WorkInv, Typed
<1>1. CASE cmd'[s].op \notin {"remove", "clear"}
  <2>1. pc'[s] # "remove" /\ cmd'[s].op # "remove"
    BY <1>0, <1>1 DEF Fits, Cmds, Adding
  <2> QED  BY <2>1 DEF AllBefore
<1>2. CASE cmd'[s].op \in {"remove", "clear"}
  <2>1. \/ pc'[s] = "snapshot"
        \/ cmd'[s] = cmd[s] /\ \/ Snapshot(s) \/ CheckDir(s) \/ CheckFile(s) \/ Pick(s) \/ PickNone(s)
                               \/ RemoveFile(s) \/ RemoveDir(s) \/ Rmdir(s) \/ Flush(s)
    BY <1>0, <1>2, RemoversStep
  <2>2. CASE pc'[s] \notin {"pick", "remove"}  BY <2>2 DEF AllBefore
  <2>3. CASE cmd'[s] = cmd[s] /\ (CheckDir(s) \/ CheckFile(s))
    BY <1>0, <1>2, <2>3, AllBeforeCheck
  <2>4. CASE cmd'[s] = cmd[s] /\ Pick(s)
    <3>1. pc[s] = "pick"  BY <2>4 DEF Pick
    <3>2. cmd[s].op = "remove" /\ ~cmd[s].all  BY <1>0, <1>2, <2>4, <3>1 DEF AllBefore, Fits
    <3>3. pc'[s] = "remove"  BY <1>0, <2>4, <3>2 DEF Pick, Goto
    <3> QED  BY <2>4, <3>2, <3>3 DEF AllBefore
  <2>5. ASSUME cmd'[s] = cmd[s], RemoveFile(s) \/ RemoveDir(s) \/ Rmdir(s) PROVE AllBefore(s)'
    <3>1. pc[s] = "remove" /\ pc'[s] = "remove" /\ todo[s] # << >>
      BY <2>5 DEF RemoveFile, RemoveDir, Rmdir, Removing
    <3> SUFFICES ASSUME cmd[s].all PROVE AllOnStack(s)' /\ InsideFirst(s)'
      BY <2>5, <3>1 DEF AllBefore
    <3>2. AllOnStack(s) /\ InsideFirst(s)  BY <3>1 DEF AllBefore
    <3>3. Tree \subseteq tree[s] /\ Tree \subseteq Stored
      BY <1>0, <1>2, <2>5, <3>1, StoredAre DEF Knows
    <3>4. 1 \in DOMAIN todo[s] /\ Head(todo[s]) = todo[s][1] /\ Top(s) = todo[s][1].node /\ Top(s) \in Stored
      <4>1. 1 \in DOMAIN todo[s] /\ Head(todo[s]) = todo[s][1] /\ Top(s) = todo[s][1].node
        BY <1>0, <3>1, TopTyped DEF Top
      <4> QED  BY <1>0, <3>1, <4>1 DEF Kinds, Adding
    <3>5. CASE RemoveDir(s)
      BY <1>0, <3>2, <3>3, <3>5, AllBeforeOpen
    <3>6. CASE RemoveFile(s)
      <4>1. /\ todo[s][1].op = "visit" /\ Top(s).path \notin bdirs /\ bdirs' = bdirs /\ todo'[s] = Tail(todo[s])
            /\ DOMAIN backup' = DOMAIN backup \ {Top(s)}
        BY <1>0, <3>4, <3>6 DEF RemoveFile, Removing, Pop, Restrict
      <4>2. Tree' \subseteq Tree  BY <4>1 DEF Tree
      <4>3. Top(s).path \in Seq(Names) \ {<< >>}  BY <3>4, StoredAre
      <4>4. ASSUME NEW n \in Tree' PROVE ~Covers(Head(todo[s]), n)
        <5>1. ~IsStrictPrefix(Top(s).path, n.path)  BY <1>0, <4>1, <4>2, <4>3, NothingBelow
        <5>2. n # Top(s)  BY <4>1, <4>4 DEF Tree, Node
        <5> QED  BY <3>4, <5>1, <5>2 DEF Covers
      <4> QED  BY <1>0, <2>5, <3>1, <3>2, <4>1, <4>2, <4>4, AllBeforePop
    <3>7. CASE Rmdir(s)
      <4> DEFINE d == Top(s).path
      <4>1. /\ todo[s][1].op = "rmdir" /\ backup' = backup /\ todo'[s] = Tail(todo[s])
            /\ bdirs' = IF Children(Tree, d) = {} THEN bdirs \ {d} ELSE bdirs
        BY <1>0, <3>4, <3>7 DEF Rmdir, Removing, Pop
      <4>2. d \in Dirs /\ \A n \in Tree: ~IsStrictPrefix(d, n.path)
        BY <3>2, <3>4, <4>1 DEF InsideFirst
      <4>3. Top(s) = Node(d, 0)  BY <3>4, <4>2, StoredAre, PathsAreSeqs
      <4>4. ASSUME NEW n \in Children(Tree, d) PROVE FALSE
        <5>1. n \in Tree /\ n.path # << >> /\ Front(n.path) = d  BY DEF Children
        <5>2. n.path \in Seq(Names)  BY <3>3, <5>1, StoredAre
        <5>3. IsStrictPrefix(d, n.path)  BY <5>1, <5>2, FrontIs
        <5> QED  BY <4>2, <5>1, <5>3
      <4>5. bdirs' = bdirs \ {d}  BY <4>1, <4>4
      <4>6. Tree' \subseteq Tree  BY <4>1, <4>5 DEF Tree
      <4>7. Top(s) \notin Tree'
        <5>1. Top(s) \notin DOMAIN backup  BY <1>0, <4>3 DEF Apart, Versioned, Node
        <5>2. \A p \in bdirs': Node(p, 0) # Node(d, 0)  BY <4>5 DEF Node
        <5> QED  BY <4>1, <4>3, <5>1, <5>2 DEF Tree
      <4>8. \A n \in Tree': ~Covers(Head(todo[s]), n)  BY <3>4, <4>1, <4>7 DEF Covers
      <4> QED  BY <1>0, <2>5, <3>1, <3>2, <4>1, <4>6, <4>8, AllBeforePop
    <3> QED  BY <2>5, <3>5, <3>6, <3>7
  <2>6. CASE cmd'[s] = cmd[s] /\ (Snapshot(s) \/ PickNone(s) \/ Flush(s))
    <3>1. pc'[s] \notin {"pick", "remove"}  BY <1>0, <2>6 DEF Snapshot, PickNone, Flush, Goto
    <3> QED  BY <2>2, <3>1
  <2> QED  BY <2>1, <2>2, <2>3, <2>4, <2>5, <2>6
<1> QED  BY <1>1, <1>2

LEMMA AllBeforeKept ==
  ASSUME RemoveInv, RemovesUndisturbed, [Next]_vars, \A s \in Shells: AllBefore(s)
  PROVE  \A s \in Shells: AllBefore(s)'
<1>0. /\ CommandInv /\ Typed /\ \A s \in Shells: Knows(s) /\ Fits(s)
  BY DEF RemoveInv, CommandInv, WorkInv
<1>1. CommandInv'  BY <1>0, CommandInvStep
<1>2. ASSUME NEW s \in Shells, ChildStep(s) \/ UserStep(s), NEW t \in Shells, t # s
      PROVE  AllBefore(t)'
  <2>1. pc'[t] = pc[t] /\ cmd'[t] = cmd[t] /\ todo'[t] = todo[t]  BY <1>0, <1>2, OthersKept
  <2>2. ASSUME pc[t] = "remove" PROVE Tree' \subseteq Tree
    <3>1. cmd[t].op \in {"remove", "clear"}  BY <1>0, <2>2, WhoRemoves
    <3>2. cmd[s].op \notin {"add", "recover"}  BY <1>2, <3>1 DEF RemovesUndisturbed
    <3> QED  BY <1>0, <1>2, <3>2, WhoMakes
  <2>3. AllOnStack(t) /\ Tree' \subseteq Tree => AllOnStack(t)'
    BY <2>1 DEF AllOnStack, Left
  <2>4. InsideFirst(t) /\ Tree' \subseteq Tree => InsideFirst(t)'
    BY <2>1 DEF InsideFirst
  <2> QED  BY <2>1, <2>2, <2>3, <2>4 DEF AllBefore
<1>3. CASE \E s \in Shells: ChildStep(s) \/ UserStep(s)
  <2>1. PICK s \in Shells: ChildStep(s) \/ UserStep(s)  BY <1>3
  <2>2. AllBefore(s)'  BY <1>1, <2>1, AllBeforeStep
  <2> QED  BY <1>2, <2>1, <2>2
<1>4. CASE UNCHANGED <<backup, bdirs, childVars>>
  BY <1>4 DEF AllBefore, AllOnStack, InsideFirst, Left, Tree, childVars
<1> QED  BY <1>3, <1>4 DEF Next, Write, Erase, MayWrite, Tick, vars

LEMMA NothingLeft ==
  ASSUME CommandInv, NEW s \in Shells, AllBefore(s), pc[s] = "remove", todo[s] = << >>, cmd[s].all
  PROVE  /\ \A v \in DOMAIN backup: ~IsPrefix(cmd[s].path, v.path)
         /\ cmd[s].op = "clear" => bdirs = {}
<1>0. /\ Typed /\ Fits(s) /\ Apart /\ \A n \in Tree: ~Left(s, n)
  <2>1. AllOnStack(s)  BY DEF AllBefore
  <2>2. DOMAIN todo[s] = {}  OBVIOUS
  <2> QED  BY <2>1, <2>2 DEF AllOnStack, CommandInv, WorkInv
<1>1. ASSUME NEW v \in DOMAIN backup PROVE ~IsPrefix(cmd[s].path, v.path)
  <2>1. v \in Tree /\ v # Node(cmd[s].path, 0)  BY <1>0 DEF Tree, Apart, Versioned, Node
  <2> QED  BY <1>0, <2>1 DEF Left
<1>2. ASSUME NEW d \in bdirs, cmd[s].op = "clear" PROVE FALSE
  <2>1. cmd[s].path = << >> /\ d \in Seq(Names) \ {<< >>}  BY <1>0, <1>2, PathsAreSeqs DEF Fits, Typed
  <2>2. Node(d, 0) \in Tree /\ Node(d, 0).path = d /\ Node(d, 0) # Node(<< >>, 0)
    BY <2>1 DEF Tree, Node
  <2>3. IsPrefix(<< >>, d)  BY <2>1, PrefixOrder
  <2> QED  BY <1>0, <2>1, <2>2, <2>3 DEF Left
<1> QED  BY <1>1, <1>2

(* If nobody adds or recovers while somebody removes, then when remove -a  *)
(* or -c is at its end there is no version left under its argument, and    *)
(* for -c no directory.                                                    *)
THEOREM RemovedAllCorrect == Spec /\ []RemovesUndisturbed => []RemovedAll
<1> DEFINE Inv == RemoveInv /\ \A s \in Shells: AllBefore(s)
<1>1. Init => Inv
  BY CommandInvInit DEF Init, RemoveInv, Knows, UnderArg, AllBefore, NoCmd
<1>2. Inv /\ RemovesUndisturbed /\ [Next]_vars => Inv'
  BY RemoveInvStep, AllBeforeKept
<1>3. Inv => RemovedAll
  BY NothingLeft DEF RemoveInv, RemovedAll
<1> QED  BY <1>1, <1>2, <1>3, PTL DEF Spec

-----------------------------------------------------------------------------
(* recover of one file *)

(* A prompt that runs nothing can only start something. *)
LEMMA IdleStarts ==
  ASSUME CommandInv, NEW s \in Shells, ChildStep(s) \/ UserStep(s), cmd[s].op = "none"
  PROVE  UNCHANGED <<home, backup, bdirs>>
<1>0. pc[s] = "prompt"  BY DEF CommandInv, Fits
<1>1. ~ChildStep(s) /\ ~Pick(s) /\ ~PickNone(s) /\ ~Interrupt(s)
  <2>1. ~AddStep(s)
    BY <1>0 DEF AddStep, AddMkdirs, AddDir, AddFile, AddGone, AddDone, AddSkip, AddNew, AddName, AddCreate, AddDies,
                AddCopy
  <2>2. ~RemoveStep(s)
    BY <1>0 DEF RemoveStep, RemoveFile, RemoveDir, Rmdir, RemoveDone, Removing
  <2>3. ~RecoverStep(s)
    BY <1>0 DEF RecoverStep, RecoverDir, RecoverGroup, RecoverGone, RecoverDone, Restore, Flush, Exit,
                Recovering
  <2> QED  BY <1>0, <2>1, <2>2, <2>3 DEF ChildStep, Snapshot, CheckDir, CheckFile, CheckRefused, Pick,
                                         PickNone, Interrupt
<1> QED  BY <1>1 DEF UserStep, AddCommand, RemoveCommand, RecoverCommand, ClearCommand, Run

LEMMA RestoresStep ==
  ASSUME DigestsDiffer, CommandInv, NEW s \in Shells, ChildStep(s) \/ UserStep(s), Restores(s), CommandInv'
  PROVE  Restores(s)'
<1>0. /\ WorkInv /\ Typed /\ AtWork(s) /\ Fits(s) /\ Fits(s)' /\ pc \in [Shells -> Steps] /\ bdirs \subseteq Dirs
      /\ cmd \in [Shells -> Cmds] /\ cmd[s] \in Cmds /\ todo \in [Shells -> Seq(Calls)]
      /\ list \in [Shells -> SUBSET Nodes] /\ open \in [Shells -> Seq(Streams)]
      /\ chosen \in [Shells -> SUBSET Nodes] /\ FileMap(home) /\ FileMap(backup)
  BY DEF CommandInv, WorkInv, Typed, AddAtWork
<1> SUFFICES ASSUME cmd'[s].op = "recover", cmd'[s].path \in Files PROVE Restores(s)'
  BY DEF Restores
<1>1. ~Leave(s)  BY <1>0 DEF Leave, NoCmd
<1>2. CASE pc'[s] \in {"snapshot", "check"}  BY <1>2 DEF Restores
<1>3. CASE UserStep(s) /\ ~Pick(s) /\ ~PickNone(s)
  <2>1. ASSUME NEW op \in {"add", "remove", "clear", "recover"}, NEW p, NEW new, NEW all, NEW at,
               Run(s, op, p, new, all, at), op # "add" => at = "snapshot"
        PROVE  Restores(s)'
    <3>1. pc'[s] = at /\ cmd'[s] = [op |-> op, path |-> p, new |-> new, all |-> all]
      BY <1>0, <2>1 DEF Run, Goto
    <3>2. cmd'[s].op = op  BY <3>1
    <3> QED  BY <1>2, <2>1, <3>1, <3>2
  <2>2. CASE ClearCommand(s)  BY <2>1, <2>2 DEF ClearCommand
  <2>3. ASSUME NEW p, AddCommand(s, p) PROVE Restores(s)'  BY <2>1, <2>3 DEF AddCommand
  <2>4. ASSUME NEW p, NEW all, RemoveCommand(s, p, all) PROVE Restores(s)'
    BY <2>1, <2>4 DEF RemoveCommand
  <2>5. ASSUME NEW p, NEW new, NEW all, RecoverCommand(s, p, new, all) PROVE Restores(s)'
    BY <2>1, <2>5 DEF RecoverCommand
  <2> QED  BY <1>1, <1>3, <2>2, <2>3, <2>4, <2>5 DEF UserStep, Interrupt
<1>4. CASE ChildStep(s) \/ Pick(s) \/ PickNone(s)
  <2>1. cmd' = cmd
    <3>1. CASE AddStep(s)
      BY <1>1, <3>1 DEF AddStep, AddMkdirs, AddDir, AddFile, AddGone, AddDone, AddSkip, AddNew, AddName, AddCreate,
                        AddDies, AddCopy
    <3>2. CASE RemoveStep(s)
      BY <1>1, <3>2 DEF RemoveStep, RemoveFile, RemoveDir, Rmdir, RemoveDone
    <3>3. CASE RecoverStep(s)
      BY <1>1, <3>3 DEF RecoverStep, RecoverDir, RecoverGroup, RecoverGone, RecoverDone, Restore, Flush, Exit
    <3>4. CASE Snapshot(s) \/ CheckDir(s) \/ CheckFile(s) \/ CheckRefused(s)
      BY <1>1, <3>4 DEF Snapshot, CheckDir, CheckFile, CheckRefused
    <3>5. CASE Pick(s) \/ PickNone(s)  BY <3>5 DEF Pick, PickNone
    <3> QED  BY <1>4, <3>1, <3>2, <3>3, <3>4, <3>5 DEF ChildStep
  <2>2. /\ cmd[s].op = "recover" /\ cmd[s].path \in Files
        /\ pc[s] \in {"snapshot", "check", "pick", "restore", "exit"}
    <3>1. cmd[s].op = "recover" /\ cmd[s].path \in Files  BY <2>1
    <3> QED  BY <3>1 DEF Restores, Fits, CommandInv
  <2>3. CASE Snapshot(s)  BY <1>0, <1>2, <2>3 DEF Snapshot, Goto
  <2>4. ~CheckDir(s)
    <3>1. ~Dir(s)  BY <1>0, <2>2, PathsAreSeqs DEF Dir
    <3> QED  BY <3>1 DEF CheckDir
  <2>5. CASE CheckFile(s)
    <3> DEFINE found == Versions(cmd[s].path)
    <3>1. todo[s] = << >> /\ open[s] = << >> /\ backup' = backup /\ open' = open
      BY <1>0, <2>5 DEF CheckFile, Fits
    <3>2. /\ list'[s] = found /\ todo' = todo /\ pc'[s] = (IF Single(found) THEN "restore" ELSE "pick")
          /\ chosen'[s] = IF pc'[s] = "restore" THEN found ELSE {}
      BY <1>0, <2>2, <2>5 DEF CheckFile, Goto
    <3>3. Versions(cmd[s].path)' = found  BY <2>1, <3>1 DEF Versions
    <3> HIDE DEF found
    <3>4. pc'[s] = "restore" => \E v \in found: found = {v}  BY <3>2 DEF Single
    <3> QED  BY <3>1, <3>2, <3>3, <3>4 DEF Restores
  <2>6. CASE Pick(s)
    <3>1. /\ pc[s] = "pick" /\ backup' = backup /\ open' = open /\ todo' = todo /\ pc'[s] = "restore"
          /\ \E v \in list[s]: list'[s] = {v} /\ chosen'[s] = chosen[s] \cup {v}
      BY <1>0, <2>2, <2>6 DEF Pick, Goto
    <3>2. PICK v \in list[s]: list'[s] = {v} /\ chosen'[s] = chosen[s] \cup {v}  BY <3>1
    <3>3. chosen[s] = {} /\ todo[s] = << >> /\ open[s] = << >> /\ v \in Versions(cmd[s].path)
      BY <2>2, <3>1, <3>2 DEF Restores
    <3>4. Versions(cmd[s].path)' = Versions(cmd[s].path)  BY <2>1, <3>1 DEF Versions
    <3>5. chosen'[s] = {v} /\ \E w \in list'[s]: list'[s] = {w}  BY <3>2, <3>3
    <3> QED  BY <3>1, <3>2, <3>3, <3>4, <3>5 DEF Restores
  <2>7. CASE PickNone(s)
    <3>1. pc[s] = "pick" /\ pc'[s] = "exit" /\ chosen' = chosen  BY <1>0, <2>7 DEF PickNone, Goto
    <3>2. chosen'[s] = {}  BY <2>2, <3>1 DEF Restores
    <3> QED  BY <3>1, <3>2 DEF Restores
  <2>8. CASE Restore(s)
    <3>1. /\ pc[s] = "restore" /\ todo[s] = << >> /\ open[s] = << >> /\ chosen[s] = list[s]
          /\ list[s] \subseteq Versions(cmd[s].path)
      BY <2>2, <2>8 DEF Restore, Restores
    <3>2. PICK v \in list[s]: list[s] = {v}  BY <2>2, <3>1 DEF Restores
    <3>3. v \in DOMAIN backup /\ v.path = cmd[s].path /\ v \in Versions(cmd[s].path)
      BY <3>1, <3>2 DEF Versions
    <3>4. Target(s, v) = Goal(s)  BY <3>1, <3>3 DEF Target, Goal, InDir
    <3> DEFINE to == Goal(s)
    <3>5. \/ /\ ~(to \in DOMAIN home /\ SameFile(home[to], backup[v]))
             /\ home' = With(home, to, << >>)
             /\ open' = [open EXCEPT ![s] = Append(@, [to |-> to, data |-> backup[v]])]
          \/ /\ to \in DOMAIN home /\ SameFile(home[to], backup[v])
             /\ home' = home /\ open' = open
      BY <2>8, <3>2, <3>3, <3>4 DEF Restore
    <3>6. backup' = backup /\ chosen' = chosen /\ pc'[s] = "exit"
      BY <1>0, <2>8, <3>1 DEF Restore, Goto, InDir
    <3>7. Goal(s)' = to /\ Versions(cmd[s].path)' = Versions(cmd[s].path)
      BY <2>1, <3>6 DEF Goal, Versions
    <3> HIDE DEF to
    <3>8. chosen'[s] = {v} /\ backup'[v] = backup[v]  BY <3>1, <3>2, <3>6
    <3>9. ASSUME /\ to \in DOMAIN home'
                 /\ \/ open'[s] = << >> /\ home'[to] = backup[v]
                    \/ home'[to] = << >> /\ open'[s] = <<[to |-> to, data |-> backup[v]]>>
          PROVE  Restores(s)'
      BY <3>3, <3>6, <3>7, <3>8, <3>9 DEF Restores
    <3>10. CASE home' = With(home, to, << >>)
                /\ open' = [open EXCEPT ![s] = Append(@, [to |-> to, data |-> backup[v]])]
      <4>1. to \in DOMAIN home' /\ home'[to] = << >>  BY <3>10 DEF With
      <4>2. open'[s] = <<[to |-> to, data |-> backup[v]]>>  BY <1>0, <3>1, <3>10
      <4> QED  BY <3>9, <4>1, <4>2
    <3>11. CASE to \in DOMAIN home /\ SameFile(home[to], backup[v]) /\ home' = home /\ open' = open
      <4>1. home[to] \in Seq(Bytes) /\ backup[v] \in Seq(Bytes)  BY <1>0, <3>3, <3>11 DEF FileMap
      <4>2. home[to] = backup[v]  BY <3>11, <4>1 DEF DigestsDiffer
      <4> QED  BY <3>1, <3>9, <3>11, <4>2
    <3> QED  BY <3>5, <3>10, <3>11
  <2>9. CASE Flush(s)
    <3>1. /\ pc[s] = "exit" /\ pc' = pc /\ open[s] # << >> /\ home' = Written(home, Last(open[s]))
          /\ open'[s] = Front(open[s]) /\ backup' = backup /\ chosen' = chosen
      BY <1>0, <2>9 DEF Flush
    <3>2. Goal(s)' = Goal(s) /\ Versions(cmd[s].path)' = Versions(cmd[s].path)
      BY <2>1, <3>1 DEF Goal, Versions
    <3>3. ASSUME NEW v \in chosen[s]
          PROVE  /\ v \in Versions(cmd[s].path) /\ Goal(s) \in DOMAIN home'
                 /\ open'[s] = << >> /\ home'[Goal(s)] = backup[v]
      <4> DEFINE stream == [to |-> Goal(s), data |-> backup[v]]
      <4>1. /\ v \in Versions(cmd[s].path) /\ Goal(s) \in DOMAIN home
            /\ home[Goal(s)] = << >> /\ open[s] = <<stream>>
        BY <2>2, <3>1, <3>3 DEF Restores
      <4>2. Last(open[s]) = stream /\ Len(open[s]) = 1 /\ open[s][1] = stream  BY <4>1 DEF Last
      <4>3. stream \in Streams
        <5>1. open[s][1] \in Streams
          <6>1. open[s] \in Seq(Streams) /\ 1 \in 1..Len(open[s])  BY <1>0, <4>2
          <6> QED  BY <6>1
        <5> QED  BY <4>2, <5>1
      <4>4. stream.to = Goal(s) /\ stream.data = backup[v]  OBVIOUS
      <4> HIDE DEF stream
      <4>5. Goal(s) \in DOMAIN home' /\ home'[Goal(s)] = backup[v]
        BY <1>0, <3>1, <4>1, <4>2, <4>3, <4>4, WrittenTyped
      <4>6. open'[s] = << >>
        <5>1. Front(open[s]) \in Seq(Streams) /\ Len(Front(open[s])) = 0
          <6>1. Len(open[s]) - 1 = 0  BY <4>2
          <6> QED  BY <1>0, <3>1, <6>1, FrontIs
        <5> QED  BY <3>1, <5>1
      <4> QED  BY <4>1, <4>5, <4>6
    <3>4. chosen'[s] = chosen[s] /\ pc'[s] = "exit"  BY <3>1
    <3> QED  BY <3>1, <3>2, <3>3, <3>4 DEF Restores
  <2>10. ~AddStep(s) /\ ~RemoveStep(s)
    <3>1. ~AddStep(s)
      BY <2>2 DEF AddStep, AddMkdirs, AddDir, AddFile, AddGone, AddDone, AddSkip, AddNew, AddName, AddCreate,
                  AddDies, AddCopy
    <3>2. ~RemoveStep(s)
      BY <2>2 DEF RemoveStep, RemoveFile, RemoveDir, Rmdir, RemoveDone, Removing
    <3> QED  BY <3>1, <3>2
  <2>11. CASE RecoverStep(s) /\ ~Restore(s) /\ ~Flush(s)
    BY <1>1, <2>2, <2>11 DEF RecoverStep, RecoverDir, RecoverGroup, RecoverGone, RecoverDone, Exit, Recovering
  <2> QED  BY <1>1, <1>4, <2>3, <2>4, <2>5, <2>6, <2>7, <2>8, <2>9, <2>10, <2>11 DEF ChildStep, CheckRefused
<1> QED  BY <1>3, <1>4

LEMMA NoneChosenStep ==
  ASSUME CommandInv, NEW s \in Shells, ChildStep(s) \/ UserStep(s), NoneChosen(s)
  PROVE  NoneChosen(s)'
<1>0. /\ Fits(s) /\ pc \in [Shells -> Steps] /\ chosen \in [Shells -> SUBSET Nodes]
      /\ cmd \in [Shells -> Cmds] /\ cmd[s] \in Cmds
  BY DEF CommandInv, WorkInv, Typed
<1>1. CASE Leave(s)  BY <1>0, <1>1 DEF Leave, NoneChosen
<1>2. ASSUME chosen' = chosen, cmd' = cmd PROVE NoneChosen(s)'  BY <1>2 DEF NoneChosen
<1>3. CASE CheckFile(s)
  <2>1. pc[s] = "check" /\ cmd' = cmd /\ cmd[s].op # "none"  BY <1>0, <1>3 DEF CheckFile, Fits
  <2>2. cmd[s].op = "remove" => pc'[s] # "restore"
    BY <1>0, <1>3 DEF CheckFile, Goto
  <2>3. chosen'[s] = IF pc'[s] = "restore" THEN Versions(cmd[s].path) ELSE {}
    BY <1>0, <1>3 DEF CheckFile
  <2> QED  BY <2>1, <2>2, <2>3 DEF NoneChosen
<1>4. CASE Pick(s)
  <2>1. pc[s] = "pick" /\ cmd' = cmd /\ (cmd[s].op = "remove" => chosen' = chosen)
    BY <1>4 DEF Pick
  <2>2. cmd[s].op # "none"  BY <1>0, <2>1 DEF Fits
  <2> QED  BY <2>1, <2>2 DEF NoneChosen
<1>5. ASSUME NEW op, NEW p, NEW new, NEW all, NEW at, Run(s, op, p, new, all, at) PROVE NoneChosen(s)'
  <2>1. pc[s] = "prompt" /\ chosen' = chosen  BY <1>5 DEF Run
  <2>2. cmd[s].op = "none"  BY <1>0, <2>1 DEF Fits, Cmds, Adding
  <2> QED  BY <2>1, <2>2 DEF NoneChosen
<1>6. CASE AddStep(s)
  BY <1>1, <1>2, <1>6 DEF AddStep, AddMkdirs, AddDir, AddFile, AddGone, AddDone, AddSkip, AddNew, AddName, AddCreate,
                          AddDies, AddCopy
<1>7. CASE RemoveStep(s)
  BY <1>1, <1>2, <1>7 DEF RemoveStep, RemoveFile, RemoveDir, Rmdir, RemoveDone
<1>8. CASE RecoverStep(s)
  BY <1>1, <1>2, <1>8 DEF RecoverStep, RecoverDir, RecoverGroup, RecoverGone, RecoverDone, Restore, Flush, Exit
<1>9. CASE Snapshot(s) \/ CheckDir(s) \/ CheckRefused(s)
  BY <1>1, <1>2, <1>9 DEF Snapshot, CheckDir, CheckRefused
<1>10. CASE UserStep(s)
  BY <1>1, <1>2, <1>4, <1>5, <1>10 DEF UserStep, AddCommand, RemoveCommand, RecoverCommand, ClearCommand,
                                       PickNone, Interrupt
<1> QED  BY <1>3, <1>6, <1>7, <1>8, <1>9, <1>10 DEF ChildStep

LEMMA NoneChosenKept ==
  ASSUME CommandInv, [Next]_vars, \A s \in Shells: NoneChosen(s)
  PROVE  \A s \in Shells: NoneChosen(s)'
<1>0. Typed  BY DEF CommandInv, WorkInv
<1>1. ASSUME NEW s \in Shells, ChildStep(s) \/ UserStep(s), NEW t \in Shells PROVE NoneChosen(t)'
  <2>1. CASE t = s  BY <1>1, <2>1, NoneChosenStep
  <2>2. CASE t # s
    <3>1. cmd'[t] = cmd[t] /\ chosen'[t] = chosen[t]  BY <1>0, <1>1, <2>2, OthersKept
    <3> QED  BY <3>1 DEF NoneChosen
  <2> QED  BY <2>1, <2>2
<1>2. CASE UNCHANGED childVars  BY <1>2 DEF NoneChosen, childVars
<1> QED  BY <1>1, <1>2 DEF Next, Write, Erase, MayWrite, Tick, vars

LEMMA RestoresKept ==
  ASSUME DigestsDiffer, CommandInv, RecoversUndisturbed, [Next]_vars, \A s \in Shells: Restores(s)
  PROVE  \A s \in Shells: Restores(s)'
<1>0. Typed /\ ~Concurrent  BY DEF CommandInv, WorkInv, RecoversUndisturbed
<1>1. CommandInv'  BY CommandInvStep
<1>2. ASSUME NEW s \in Shells, ChildStep(s) \/ UserStep(s), NEW t \in Shells, t # s
      PROVE  Restores(t)'
  <2>1. /\ pc'[t] = pc[t] /\ cmd'[t] = cmd[t] /\ todo'[t] = todo[t] /\ list'[t] = list[t]
        /\ open'[t] = open[t] /\ chosen'[t] = chosen[t]
    BY <1>0, <1>2, OthersKept
  <2>2. CASE cmd[t].op = "recover"
    <3>1. cmd[s].op = "none"  BY <1>2, <2>2 DEF RecoversUndisturbed
    <3>2. home' = home /\ backup' = backup  BY <1>2, <3>1, IdleStarts
    <3>3. Versions(cmd[t].path)' = Versions(cmd[t].path) /\ Goal(t)' = Goal(t)
      BY <2>1, <3>2 DEF Versions, Goal
    <3> QED  BY <2>1, <3>2, <3>3 DEF Restores
  <2>3. CASE cmd[t].op # "recover"  BY <2>1, <2>3 DEF Restores
  <2> QED  BY <2>2, <2>3
<1>3. CASE \E s \in Shells: ChildStep(s) \/ UserStep(s)
  <2>1. PICK s \in Shells: ChildStep(s) \/ UserStep(s)  BY <1>3
  <2>2. Restores(s)'  BY <1>1, <2>1, RestoresStep
  <2> QED  BY <1>2, <2>1, <2>2
<1>4. CASE UNCHANGED <<home, backup, childVars>>
  BY <1>4 DEF Restores, Versions, Goal, childVars
<1>5. CASE MayWrite
  <2>1. UNCHANGED childVars /\ \A s \in Shells: pc[s] = "prompt"  BY <1>0, <1>5 DEF MayWrite
  <2>2. \A s \in Shells: pc'[s] = "prompt"  BY <2>1 DEF childVars
  <2> QED  BY <2>2 DEF Restores
<1> QED  BY <1>3, <1>4, <1>5 DEF Next, Write, Erase, Tick, vars

(* If nobody else does anything while somebody recovers a file, and        *)
(* digests differ, then at the end of recover the file is the version that *)
(* was chosen, or the only one.                                            *)
THEOREM RecoverExactCorrect ==
  ASSUME DigestsDiffer
  PROVE  Spec /\ []RecoversUndisturbed => []RecoverExact
<1> DEFINE Inv == CommandInv /\ \A s \in Shells: Restores(s) /\ NoneChosen(s)
<1>1. Init => Inv
  BY CommandInvInit DEF Init, Restores, NoneChosen, NoCmd
<1>2. Inv /\ RecoversUndisturbed /\ [Next]_vars => Inv'
  BY CommandInvStep, RestoresKept, NoneChosenKept
<1>3. Inv => RecoverExact
  <2> SUFFICES ASSUME Inv, NEW s \in Shells, pc[s] = "exit", open[s] = << >>, cmd[s].path \in Files,
                      NEW v \in chosen[s]
               PROVE  Promised(s, v) \in DOMAIN home /\ home[Promised(s, v)] = backup[v]
    BY DEF RecoverExact, Ended
  <2>1. Fits(s) /\ cmd[s] \in Cmds /\ Restores(s) /\ NoneChosen(s)
    BY DEF CommandInv, WorkInv, Typed
  <2>2. cmd[s].op = "recover"  BY <2>1 DEF Fits, Cmds, Adding, NoneChosen
  <2>3. v.path = cmd[s].path /\ Goal(s) \in DOMAIN home /\ home[Goal(s)] = backup[v]
    BY <2>1, <2>2 DEF Restores, Versions
  <2>4. Promised(s, v) = Goal(s)
    <3>1. CASE cmd[s].new = << >>  BY <2>3, <3>1 DEF Promised, Goal
    <3>2. CASE cmd[s].new # << >>
      <4>1. cmd[s].new \in NewPaths /\ v.path \in Files  BY <2>1, <2>3, <3>2 DEF Cmds
      <4>2. cmd[s].new \in Seq(Names) /\ v.path \in Seq(Names)  BY <4>1, PathsAssumption
      <4>3. SubSeq(v.path, Len(cmd[s].path) + 1, Len(v.path)) = << >>
        <5> DEFINE m == Len(v.path)
        <5>1. m \in Nat /\ Len(cmd[s].path) = m  BY <2>3, <4>2
        <5> HIDE DEF m
        <5>2. m + 1 \in Int /\ m \in Int /\ m < m + 1  BY <5>1
        <5>3. SubSeq(v.path, m + 1, m) = << >>  BY <4>2, <5>2, SubSeqEmpty
        <5> QED  BY <5>1, <5>3 DEF m
      <4> QED  BY <3>2, <4>2, <4>3, ConcatEmptySeq DEF Promised, Goal
    <3> QED  BY <3>1, <3>2
  <2> QED  BY <2>3, <2>4
<1> QED  BY <1>1, <1>2, <1>3, PTL DEF Spec

=============================================================================
