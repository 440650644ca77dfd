------------------------------ MODULE Processes ------------------------------
(***************************************************************************)
(* What the kernel and stdio do for the exercises on processes and         *)
(* signals: one program at a time, started in process 1, runs with its     *)
(* children, while users send it signals at any step.  A step of a process *)
(* is one of its calls.  Before each call all signals that are due are     *)
(* delivered, as the kernel does on its way back to user mode.             *)
(***************************************************************************)
EXTENDS Exercises

CONSTANTS
  Pids,       \* bound: the processes there can be; 1 is the program's first
  MaxSent     \* bound: signals users send; to a program with no handler, one

ASSUME PidsAssumption == 1 \in Pids /\ Pids \subseteq Nat \ {0}
ASSUME SentAssumption == MaxSent \in Nat

VARIABLES
  program,  \* the exercise that runs
  tty,      \* whether its output is a terminal
  proc,     \* the processes
  out,      \* a bag of what has been written: <<process, line>>
  sent      \* the signals users have sent, as <<process, signal>>

vars == <<program, tty, proc, out, sent>>

Frame(f, at, saved) == [fn |-> f, at |-> at, saved |-> saved]
Default == [h |-> "DFL", mask |-> {}, flags |-> {}]

Nobody == [state   |-> "none",      \* then "live", "zombie" and "gone"
           parent  |-> 0,
           stack   |-> << >>,       \* the functions that are running, main first
           mask    |-> {},          \* the blocked signals
           own     |-> {},          \* history: those that main has asked for
           pending |-> {},
           action  |-> [s \in Sigs |-> Default],
           env     |-> [b \in {} |-> << >>],
           waits   |-> FALSE,       \* in pause or sigsuspend
           kept    |-> << >>,       \* the mask to restore after sigsuspend
           flag    |-> 0,           \* can_jump
           alarm   |-> FALSE,
           buf     |-> << >>,       \* what stdio has not written yet
           closed  |-> FALSE,
           asked   |-> FALSE,       \* history: an INT handler has been started
           wild    |-> FALSE]       \* has jumped through a buffer never set

Init ==
  /\ program \in DOMAIN Code /\ tty \in BOOLEAN
  /\ proc = [p \in Pids |-> IF p = 1 THEN [Nobody EXCEPT !.state = "live",
                                                        !.stack = <<Frame("main", 1, {})>>]
                                     ELSE Nobody]
  /\ out = EmptyBag /\ sent = << >>

-----------------------------------------------------------------------------
(* Helpers *)

Live(p)  == proc[p].state = "live"
Text(f)  == Code[program][f]
Depth(P) == Len(P.stack)
At(P, n) == [P EXCEPT !.stack[Depth(P)].at = n]
After(P) == [P EXCEPT !.stack[Depth(P)].at = @ + 1]
Due(P)   == P.pending \ P.mask
Ended(P) == Last(P.stack).at > Len(Text(Last(P.stack).fn))
Call(p)  == Text(Last(proc[p].stack).fn)[Last(proc[p].stack).at]


(* Users send SIGINT, and the signals that the program handles. *)
Handled  == {s \in Sigs: \E f \in DOMAIN Code[program]: \E k \in DOMAIN Text(f):
                           Text(f)[k].op = "handle" /\ Text(f)[k].sig = s}
UserSigs == {"INT"} \cup (Handled \ {"ALRM"})
MaySend  == Len(sent) < IF Handled = {} THEN 1 ELSE MaxSent

Does(p, op) == /\ Live(p) /\ ~proc[p].waits /\ Due(proc[p]) = {}
               /\ ~Ended(proc[p]) /\ Call(p).op = op

Become(p, P) == /\ proc' = [proc EXCEPT ![p] = P]
                /\ UNCHANGED <<program, tty, sent>>
Silent       == UNCHANGED out

Emit(P, lines) == out' = IF P.closed THEN out ELSE out (+) ToBag(lines)

(* A dead process stays as long as its parent may wait for it; those it    *)
(* leaves are waited for by init.                                          *)
End(p) ==
  /\ proc' = [q \in Pids |->
       IF q = p THEN [proc[p] EXCEPT !.state = IF proc[p].parent # 0 /\ Live(proc[p].parent)
                                                 THEN "zombie" ELSE "gone"]
       ELSE IF proc[q].parent = p /\ proc[q].state = "zombie" THEN [proc[q] EXCEPT !.state = "gone"]
       ELSE proc[q]]
  /\ UNCHANGED <<program, tty, sent>>

-----------------------------------------------------------------------------
(* Output and processes *)

PrintLine(p) ==
  /\ Does(p, "print")
  /\ IF tty THEN Become(p, After(proc[p])) /\ Emit(proc[p], <<<<p, Call(p).line>>>>)
            ELSE Become(p, [After(proc[p]) EXCEPT !.buf = Append(@, <<p, Call(p).line>>)]) /\ Silent

WriteLine(p) == /\ Does(p, "write")
                /\ Become(p, After(proc[p])) /\ Emit(proc[p], <<<<p, Call(p).line>>>>)

(* The child has a copy of everything, what is in the buffer included.     *)
Forks(p) ==
  /\ Does(p, "fork") /\ Silent
  /\ \E c \in Pids:
       /\ proc[c].state = "none" /\ \A q \in Pids: q < c => proc[q].state # "none"
       /\ proc' = [proc EXCEPT ![p] = After(proc[p]),
                               ![c] = [At(proc[p], Call(p).child) EXCEPT
                                         !.parent = p, !.pending = {}, !.alarm = FALSE]]
  /\ UNCHANGED <<program, tty, sent>>
ForkFails(p) == Does(p, "fork") /\ Become(p, At(proc[p], Call(p).fails)) /\ Silent

Execs(p) == /\ Does(p, "exec") /\ Silent
            /\ Become(p, [proc[p] EXCEPT !.stack = <<Frame("image", 1, {})>>, !.buf = << >>])
ExecFails(p) == Does(p, "exec") /\ Become(p, At(proc[p], Call(p).fails)) /\ Silent

Children(p) == {c \in Pids: proc[c].parent = p /\ proc[c].state \in {"live", "zombie"}}

Waits(p) ==
  /\ Does(p, "wait") /\ Silent
  /\ \/ Children(p) = {} /\ Become(p, At(proc[p], Call(p).none))
     \/ \E c \in Children(p):
          /\ proc[c].state = "zombie"
          /\ proc' = [proc EXCEPT ![p] = After(@), ![c].state = "gone"]
          /\ UNCHANGED <<program, tty, sent>>

Exits(p)  == Does(p, "exit") /\ Emit(proc[p], proc[p].buf) /\ End(p)
Dies(p)   == Does(p, "die") /\ Silent /\ End(p)
Closes(p) == Does(p, "closeAll") /\ Silent /\ Become(p, [After(proc[p]) EXCEPT !.closed = TRUE])

-----------------------------------------------------------------------------
(* Control *)

Sleeps(p) == Does(p, "sleep") /\ Silent /\ Become(p, After(proc[p]))
Reads(p)  == Does(p, "read") /\ Silent /\ Become(p, After(proc[p]))
Sets(p)   == Does(p, "set") /\ Silent /\ Become(p, [After(proc[p]) EXCEPT !.flag = Call(p).value])

Taken(p) == \/ Does(p, "goto") \/ Does(p, "loop")
            \/ Does(p, "ifZero") /\ proc[p].flag = 0
            \/ Does(p, "ifPending") /\ Call(p).sig \in proc[p].pending
NotTaken(p) == \/ Does(p, "loop")
               \/ Does(p, "ifZero") /\ proc[p].flag # 0
               \/ Does(p, "ifPending") /\ Call(p).sig \notin proc[p].pending
Jumps(p)   == Taken(p) /\ Silent /\ Become(p, At(proc[p], Call(p).to))
GoesOn(p)  == NotTaken(p) /\ Silent /\ Become(p, After(proc[p]))

-----------------------------------------------------------------------------
(* Signals *)

Handles(p) ==
  /\ Does(p, "handle") /\ Silent
  /\ \E m \in Call(p).masks, f \in Call(p).flags:
       Become(p, [After(proc[p]) EXCEPT
                    !.action[Call(p).sig] = [h |-> Call(p).h, mask |-> m, flags |-> f],
                    !.pending = IF Call(p).h = "IGN" THEN @ \ {Call(p).sig} ELSE @])

Masks(p) ==
  /\ Does(p, "mask") /\ Silent
  /\ LET new == CASE Call(p).how = "block"   -> proc[p].mask \cup Call(p).sigs
                  [] Call(p).how = "unblock" -> proc[p].mask \ Call(p).sigs
                  [] Call(p).how = "set"     -> Call(p).sigs
     IN Become(p, [After(proc[p]) EXCEPT !.mask = new, !.own = new])

Pend(P, s) == IF P.action[s].h = "IGN" THEN P ELSE [P EXCEPT !.pending = @ \cup {s}]

Kills(p)  == Does(p, "kill") /\ Silent /\ Become(p, Pend(After(proc[p]), Call(p).sig))
Alarms(p) == Does(p, "alarm") /\ Silent /\ Become(p, [After(proc[p]) EXCEPT !.alarm = Call(p).on])

Pauses(p)   == Does(p, "pause") /\ Silent /\ Become(p, [proc[p] EXCEPT !.waits = TRUE])
Suspends(p) == /\ Does(p, "suspend") /\ Silent
               /\ Become(p, [proc[p] EXCEPT !.waits = TRUE, !.kept = <<proc[p].mask>>, !.mask = Call(p).sigs])

Terminated(p) == /\ Live(p) /\ \E s \in Due(proc[p]): proc[p].action[s].h = "DFL"
                 /\ Silent /\ End(p)

(* The handler runs with its mask added; then the mask is what it was, for *)
(* sigsuspend what it was before the call.                                 *)
Delivered(P, s) ==
  LET a == P.action[s]
      Q == IF P.waits THEN After(P) ELSE P
  IN [Q EXCEPT !.stack = Append(@, Frame(a.h, 1, IF P.kept # << >> THEN P.kept[1] ELSE P.mask)),
               !.mask = @ \cup a.mask \cup (IF "NODEFER" \in a.flags THEN {} ELSE {s}),
               !.pending = @ \ {s},
               !.action[s] = IF "RESETHAND" \in a.flags THEN Default ELSE @,
               !.waits = FALSE, !.kept = << >>,
               !.asked = @ \/ s = "INT"]

Delivers(p) == /\ Live(p) /\ Silent
               /\ \E s \in Due(proc[p]):
                    proc[p].action[s].h # "DFL" /\ Become(p, Delivered(proc[p], s))

Returns(p) == /\ Live(p) /\ Due(proc[p]) = {} /\ Ended(proc[p]) /\ Silent
              /\ Become(p, [proc[p] EXCEPT !.stack = Front(@), !.mask = Last(proc[p].stack).saved])

-----------------------------------------------------------------------------
(* setjmp, sigsetjmp, longjmp and siglongjmp *)

SetsJmp(p) ==
  /\ Does(p, "setjmp") /\ Silent
  /\ LET P == proc[p]
         e == [depth |-> Depth(P), lands |-> Call(p).lands,
               mask |-> IF Call(p).saves THEN <<P.mask>> ELSE << >>]
     IN Become(p, [After(P) EXCEPT
          !.env = [b \in DOMAIN @ \cup {Call(p).env} |-> IF b = Call(p).env THEN e ELSE @[b]]])

JumpsTo(P, e) ==
  LET Q == [P EXCEPT !.stack = SubSeq(@, 1, e.depth), !.mask = IF e.mask # << >> THEN e.mask[1] ELSE @]
  IN At(Q, e.lands)

LongJmps(p) ==
  /\ Does(p, "longjmp") /\ Silent
  /\ Become(p, IF Call(p).env \in DOMAIN proc[p].env
                 THEN JumpsTo(proc[p], proc[p].env[Call(p).env])
                 ELSE [proc[p] EXCEPT !.wild = TRUE, !.state = "gone"])

-----------------------------------------------------------------------------
(* The outside *)

Rings(p) == /\ Live(p) /\ proc[p].alarm /\ Silent
            /\ Become(p, Pend([proc[p] EXCEPT !.alarm = FALSE], "ALRM"))

Sends(p, s) ==
  /\ Live(p) /\ MaySend
  /\ sent' = Append(sent, <<p, s>>)
  /\ proc' = [proc EXCEPT ![p] = Pend(@, s)]
  /\ UNCHANGED <<program, tty, out>>

-----------------------------------------------------------------------------
Runs(p) ==
  \/ PrintLine(p) \/ WriteLine(p) \/ Forks(p) \/ ForkFails(p) \/ Execs(p) \/ ExecFails(p)
  \/ Waits(p) \/ Exits(p) \/ Dies(p) \/ Closes(p) \/ Sleeps(p) \/ Sets(p) \/ Jumps(p) \/ GoesOn(p)
  \/ Handles(p) \/ Masks(p) \/ Kills(p) \/ Alarms(p) \/ Pauses(p) \/ Suspends(p)
  \/ Terminated(p) \/ Delivers(p) \/ Returns(p) \/ SetsJmp(p) \/ LongJmps(p)

Next == \E p \in Pids: \/ Runs(p) \/ Reads(p) \/ Rings(p)
                       \/ \E s \in UserSigs: Sends(p, s)

Spec == Init /\ [][Next]_vars

(* Processes are scheduled.  Users owe nothing, and timers are not needed. *)
FairSpec == Spec /\ \A p \in Pids: WF_vars(Runs(p))

-----------------------------------------------------------------------------
(* Properties *)

(* No line is written twice for the process that printed it, though every  *)
(* child inherits the buffer: whoever inherits one that is not empty dies  *)
(* without flushing it, or has closed its output.  fork1, which forks      *)
(* after a printf, is the exception when its output is not a terminal.     *)
WrittenOnce ==
  ~(program = "fork1" /\ ~tty) => \A l \in BagToSet(out): out[l] = 1

(* wait3 and wait4 tell the truth when they say that all children have     *)
(* terminated: also a child whose exec has failed and that goes on in the  *)
(* place of its parent.  If nobody was killed by a user, the first process *)
(* is then the only one left, its children's children included.            *)
Says(P) == Last(P.stack).fn = "main" /\ Text("main")[Last(P.stack).at] = Printf("all_children_terminated")
AllGone ==
  \A p \in Pids: Live(p) /\ Says(proc[p]) =>
    /\ Children(p) = {}
    /\ p = 1 /\ sent = << >> => \A q \in Pids \ {1}: ~Live(q)

(* Wherever signals and jumps have led main to, the blocked signals are    *)
(* those it asked for itself: handlers, sigsuspend and siglongjmp restore  *)
(* the mask.  After sigsetjmp1's longjmp, which does not, INT stays        *)
(* blocked, so that its handler never runs a second time, as it says.      *)
MainMask ==
  \A p \in Pids: Live(p) /\ Depth(proc[p]) = 1 /\ proc[p].kept = << >> =>
    proc[p].mask = proc[p].own \cup
      (IF program = "sigsetjmp1" /\ proc[p].asked THEN {"INT"} ELSE {})

(* sigaction3's handlers never interrupt each other, whatever is in the    *)
(* flags that it leaves uninitialized ("SIGQUIT signal is blocked").       *)
HandlersApart ==
  program = "sigaction3" => \A p \in Pids:
    Cardinality({proc[p].stack[k].fn: k \in DOMAIN proc[p].stack} \cap {"handler1", "handler2"}) <= 1

(* Nobody jumps through a buffer that has not been set, whenever signals   *)
(* arrive.  sigsetjmp1 does: it handles SIGINT before its first setjmp.    *)
JumpsHome == program # "sigsetjmp1" => \A p \in Pids: ~proc[p].wild

(* From the moment a program has blocked SIGINT in order to wait for it, a  *)
(* SIGINT ends it, at whatever moment it comes: it is not lost between the *)
(* unblocking and the waiting.                                             *)
IntEnds == "INT" \in proc[1].own \cap proc[1].pending ~> ~Live(1)
=============================================================================
