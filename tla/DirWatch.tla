------------------------------ MODULE DirWatch -------------------------------
(***************************************************************************)
(* One daemon of ssu_monitor at work: it takes a snapshot of a directory   *)
(* tree, sleeps, takes another and logs the differences, while other       *)
(* programs change the tree under it.  A step of the daemon is one         *)
(* scandir, one stat or one call of compare_tree.                          *)
(***************************************************************************)
EXTENDS Integers, SequencesExt

CONSTANTS
  Root,        \* the watched directory
  Order,       \* every name below it, as a sequence in the order of strcmp
  Parent,      \* for each name, the directory it is in (a name or Root)
  Kinds,       \* for each name, what it may be: a subset of {"reg", "dir"}
  MaxTime,     \* bound: seconds the clock counts
  MaxChanges   \* bound: changes the other programs make

Names == ToSet(Order)
Place(p) == CHOOSE k \in DOMAIN Order: Order[k] = p

(* The path of a directory is the beginning of the paths of what is in it, *)
(* so it comes before them in the order of strcmp.                         *)
ASSUME TreeAssumption ==
  /\ Order \in Seq(Names) /\ IsInjective(Order)
  /\ Parent \in [Names -> Names \cup {Root}]
  /\ \A p \in Names: Parent[p] # Root => Place(Parent[p]) < Place(p)
  /\ Kinds \in [Names -> SUBSET {"reg", "dir"}]
  /\ Root \notin Names
ASSUME BoundsAssumption == MaxTime \in Nat /\ MaxChanges \in Nat

VARIABLES
  fs,       \* the files there are: a function from some names to nodes
  now,      \* the clock, in seconds
  changes,  \* how many changes the other programs have made
  phase,    \* the daemon: "gone", in the "first" make_tree, in "sleep", in
            \* a later "scan" or in "compare"
  todo,     \* make_tree's pending calls: a directory to list, names to stat
  old, new, \* the two trees, as functions from names to nodes
  pairs,    \* compare_tree's pending calls: pairs of sets of siblings
  events,   \* the records this pass of compare_tree has appended to log.txt
  told      \* history: the files, with their times, that log.txt tells of

fsVars == <<fs, now, changes>>
watchVars == <<fsVars, phase, todo, old, new, pairs, events, told>>

Empty == [p \in {} |-> 0]
Node(k, t) == [kind |-> k, mtime |-> t]

WatchInit ==
  /\ fs = Empty /\ now = 0 /\ changes = 0
  /\ phase = "gone"
  /\ todo = << >> /\ old = Empty /\ new = Empty /\ pairs = << >>
  /\ events = << >> /\ told = Empty

-----------------------------------------------------------------------------
(* Trees *)

(* Siblings are a set, which is taken in the order scandir sorted it into. *)
Children(tree, d) == {p \in DOMAIN tree: Parent[p] = d}
First(S) == CHOOSE p \in S: \A q \in S: Place(p) <= Place(q)

Files(tree) == {p \in DOMAIN tree: tree[p].kind = "reg"}
Times(tree) == [p \in Files(tree) |-> tree[p].mtime]

With(f, p, v)  == [q \in DOMAIN f \cup {p} |-> IF q = p THEN v ELSE f[q]]
Without(f, p)  == [q \in DOMAIN f \ {p} |-> f[q]]
IsDir(tree, d) == d = Root \/ (d \in DOMAIN tree /\ tree[d].kind = "dir")

-----------------------------------------------------------------------------
(* The other programs.  A change of a directory's entries is a change of   *)
(* the directory: its mtime moves too.                                     *)

Touched(tree, d) == IF d = Root THEN tree ELSE [tree EXCEPT ![d].mtime = now]

Change(tree) == /\ changes < MaxChanges
                /\ fs' = tree
                /\ changes' = changes + 1
                /\ UNCHANGED <<now, phase, todo, old, new, pairs, events, told>>

Make(p, k) == /\ p \notin DOMAIN fs /\ IsDir(fs, Parent[p])
              /\ Change(Touched(With(fs, p, Node(k, now)), Parent[p]))

Write(p) == /\ p \in Files(fs)
            /\ fs[p].mtime # now
            /\ Change([fs EXCEPT ![p].mtime = now])

Unlink(p) == /\ p \in DOMAIN fs
             /\ Children(fs, p) = {}
             /\ Change(Touched(Without(fs, p), Parent[p]))

Tick == /\ now < MaxTime
        /\ now' = now + 1
        /\ UNCHANGED <<fs, changes, phase, todo, old, new, pairs, events, told>>

-----------------------------------------------------------------------------
(* make_tree *)

BeginScan(at) == /\ phase' = at
                 /\ todo' = <<[op |-> "list", at |-> Root]>>

(* The daemon starts; its first tree is what it will compare against. *)
Start == /\ phase = "gone"
         /\ BeginScan("first")
         /\ UNCHANGED <<fsVars, old, new, pairs, events, told>>

Call(op) == /\ phase \in {"first", "scan"}
            /\ todo # << >>
            /\ Head(todo).op = op

(* The loop over the entries of a directory, S those that are left. *)
Stats(S) == IF S = {} THEN << >> ELSE <<[op |-> "stat", of |-> S]>>

(* scandir of one directory, sorted; a directory that is not there any     *)
(* more has no entries (scandir error).                                    *)
List ==
  /\ Call("list")
  /\ LET d == Head(todo).at
         found == IF IsDir(fs, d) THEN Children(fs, d) ELSE {}
     IN todo' = Stats(found) \o Tail(todo)
  /\ UNCHANGED <<fsVars, phase, old, new, pairs, events, told>>

(* stat of one entry and its node, and then its entries if it is a         *)
(* directory; a name that is not there any more is left out.               *)
Stat ==
  /\ Call("stat")
  /\ LET S == Head(todo).of
         p == First(S)
         rest == Stats(S \ {p}) \o Tail(todo)
     IN IF p \in DOMAIN fs
          THEN /\ new' = With(new, p, fs[p])
               /\ todo' = IF fs[p].kind = "dir"
                            THEN <<[op |-> "list", at |-> p]>> \o rest
                            ELSE rest
          ELSE /\ todo' = rest
               /\ UNCHANGED new
  /\ UNCHANGED <<fsVars, phase, old, pairs, events, told>>

(* The first tree is done; nothing is logged. *)
FirstScanDone ==
  /\ phase = "first" /\ todo = << >>
  /\ phase' = "sleep"
  /\ old' = new /\ new' = Empty
  /\ told' = Times(new)
  /\ UNCHANGED <<fsVars, todo, pairs, events>>

(* sleep(execute_time) returns, however much later. *)
Wake == /\ phase = "sleep"
        /\ BeginScan("scan")
        /\ UNCHANGED <<fsVars, old, new, pairs, events, told>>

-----------------------------------------------------------------------------
(* compare_tree.  A call has what is left of two lists of siblings; it     *)
(* goes on with the rest of them and then with the children of the first.  *)

Pair(o, n) == [o |-> o, n |-> n]

(* The two root nodes have one path and are no regular files, so the first *)
(* call that can log anything compares their children.                     *)
ScanDone ==
  /\ phase = "scan" /\ todo = << >>
  /\ phase' = "compare"
  /\ pairs' = <<Pair(Children(old, Root), Children(new, Root))>>
  /\ UNCHANGED <<fsVars, todo, old, new, events, told>>

Comparing == phase = "compare" /\ pairs # << >>
O == Head(pairs).o
N == Head(pairs).n

(* The two recursive calls of a branch, the siblings before the children. *)
Recurse(siblings, children) ==
  /\ pairs' = <<siblings, children>> \o Tail(pairs)
  /\ UNCHANGED <<fsVars, phase, todo, old, new>>

Log(kind, p) == /\ events' = Append(events, [kind |-> kind, at |-> p])
                /\ told' = IF kind = "remove" THEN Without(told, p)
                                              ELSE With(told, p, new[p].mtime)
Silent == UNCHANGED <<events, told>>

BothEnd ==
  /\ Comparing /\ O = {} /\ N = {}
  /\ pairs' = Tail(pairs)
  /\ Silent /\ UNCHANGED <<fsVars, phase, todo, old, new>>

(* Only in the new tree: the old list has ended or is already past it. *)
Created ==
  /\ Comparing /\ N # {}
  /\ O # {} => Place(First(O)) > Place(First(N))
  /\ LET p == First(N) IN
       /\ IF p \in Files(new) THEN Log("create", p) ELSE Silent
       /\ Recurse(Pair(O, N \ {p}), Pair({}, Children(new, p)))

(* A slip: what was in a removed directory is not looked at. *)
RemovedShallow ==
  /\ Comparing /\ O # {}
  /\ N # {} => Place(First(O)) < Place(First(N))
  /\ LET p == First(O) IN
       /\ IF p \in Files(old) THEN Log("remove", p) ELSE Silent
       /\ Recurse(Pair(O \ {p}, N), Pair({}, {}))

Removed ==
  /\ Comparing /\ O # {}
  /\ N # {} => Place(First(O)) < Place(First(N))
  /\ LET p == First(O) IN
       /\ IF p \in Files(old) THEN Log("remove", p) ELSE Silent
       /\ Recurse(Pair(O \ {p}, N), Pair(Children(old, p), {}))

(* A slip: the kind is asked of the old node. *)
InBothOldKind ==
  /\ Comparing /\ O # {} /\ N # {} /\ First(O) = First(N)
  /\ LET p == First(O) IN
       /\ IF old[p].mtime # new[p].mtime /\ p \in Files(old)
            THEN Log("modify", p) ELSE Silent
       /\ Recurse(Pair(O \ {p}, N \ {p}), Pair(Children(old, p), Children(new, p)))

(* In both: a change is a change of st_mtime, which counts seconds. *)
InBoth ==
  /\ Comparing /\ O # {} /\ N # {} /\ First(O) = First(N)
  /\ LET p == First(O) IN
       /\ IF old[p].mtime # new[p].mtime /\ p \in Files(new)
            THEN Log("modify", p) ELSE Silent
       /\ Recurse(Pair(O \ {p}, N \ {p}), Pair(Children(old, p), Children(new, p)))

(* A slip: the old tree stays the one to compare with. *)
CompareDoneKeeps ==
  /\ phase = "compare" /\ pairs = << >>
  /\ phase' = "sleep"
  /\ new' = Empty
  /\ events' = << >>
  /\ UNCHANGED <<fsVars, todo, old, pairs, told>>

(* free_tree(old), and the new tree is the old one of the next round. *)
CompareDone ==
  /\ phase = "compare" /\ pairs = << >>
  /\ phase' = "sleep"
  /\ old' = new /\ new' = Empty
  /\ events' = << >>
  /\ UNCHANGED <<fsVars, todo, pairs, told>>

(* kill_daemon sends SIGUSR1, whose default action ends the daemon at      *)
(* whatever point it is; so may free_tree, which reads cur->next after     *)
(* free(cur).                                                              *)
Killed == /\ phase # "gone"
          /\ phase' = "gone"
          /\ todo' = << >> /\ old' = Empty /\ new' = Empty /\ pairs' = << >>
          /\ events' = << >> /\ told' = Empty
          /\ UNCHANGED fsVars

-----------------------------------------------------------------------------
Daemon == \/ List \/ Stat \/ FirstScanDone \/ Wake \/ ScanDone
          \/ BothEnd \/ Created \/ Removed \/ InBoth \/ CompareDone

Others == \/ \E p \in Names: (\E k \in Kinds[p]: Make(p, k)) \/ Write(p) \/ Unlink(p)
          \/ Tick

WatchNext == Daemon \/ Others \/ Start \/ Killed

WatchSpec == WatchInit /\ [][WatchNext]_watchVars

(* The daemon is scheduled and its sleeps end. *)
WatchFairSpec == WatchSpec /\ WF_watchVars(Daemon)

-----------------------------------------------------------------------------
(* Properties *)

(* What differs between two trees, by definition. *)
Diff(a, b) ==
       {[kind |-> "create", at |-> p]: p \in Files(b) \ DOMAIN a}
  \cup {[kind |-> "remove", at |-> p]: p \in Files(a) \ DOMAIN b}
  \cup {[kind |-> "modify", at |-> p]:
          p \in {q \in Files(b) \cap DOMAIN a: a[q].mtime # b[q].mtime}}

(* A pass of compare_tree logs every difference of the two trees, and each *)
(* once, wherever in the trees it is.                                      *)
DiffExact ==
  phase = "compare" /\ pairs = << >> =>
    IsInjective(events) /\ ToSet(events) = Diff(old, new)

(* The names that are always of one kind, and what a function on names     *)
(* says of them.                                                           *)
Stable == {p \in Names: Cardinality(Kinds[p]) = 1}
OfStable(f) == [p \in DOMAIN f \cap Stable |-> f[p]]

(* Whoever replays log.txt over the tree the daemon started with gets the  *)
(* files and times of its latest tree, even where the tree never was in    *)
(* the file system as it is (changes between two of make_tree's calls) and *)
(* directories above the files became files and back.  (A file that        *)
(* becomes a directory has no record of its removal: compare_tree asks     *)
(* S_ISREG of the new node alone.)                                         *)
LogReplays == phase = "sleep" => OfStable(told) = OfStable(Times(old))

(* When the other programs stop, the log of a daemon that is left alone    *)
(* catches up with the directory.                                          *)
CatchesUp ==
  <>[](phase # "gone") => <>[](OfStable(told) = OfStable(Times(fs)))
=============================================================================
