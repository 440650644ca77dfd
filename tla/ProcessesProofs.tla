--------------------------- MODULE ProcessesProofs ---------------------------
(***************************************************************************)
(* Theorems about the exercises on processes and signals, for any number   *)
(* of processes and of signals.                                            *)
(***************************************************************************)
EXTENDS Processes, DataLemmas

Bottoms == {"main", "image"}
Forking == {"fork1", "wait1", "wait2", "wait3", "wait4", "execl2", "execv1", "daemon"}
ForkingOps == {"print", "write", "fork", "exec", "wait", "exit", "die", "closeAll", "sleep", "goto"}
Jumping == {"sigsetjmp1", "sigsetjmp2", "sigsetjmp3"}
Buffers == {"jump_buffer", "jump_buf", "jmp_buf1", "jmp_buf2"}
Asked(pr) == DOMAIN Code[pr] \ Bottoms

(* The calls a function can be at; main never gets behind its last one,    *)
(* nor does sigsetjmp1's handler.                                          *)
Spots(pr, f) == 1..(Len(Code[pr][f]) + IF f \in Bottoms \/ pr = "sigsetjmp1" THEN 0 ELSE 1)

(* Call c at k may be followed by the one at n. *)
MayGo(c, k, n) ==
  \/ c.op \notin {"exit", "die", "goto", "spin", "exec", "longjmp"} /\ n = k + 1
  \/ c.op \in {"goto", "loop", "ifZero", "ifPending"} /\ n = c.to
  \/ c.op = "fork" /\ n \in {c.child, c.fails}
  \/ c.op = "exec" /\ n = c.fails
  \/ c.op = "wait" /\ n = c.none
  \/ c.op = "setjmp" /\ n = c.lands

-----------------------------------------------------------------------------
(* The types of the state *)

Frames(pr)  == [fn: DOMAIN Code[pr], at: Nat \ {0}, saved: SUBSET Sigs]
Actions(pr) == [h: {"DFL", "IGN"} \cup Asked(pr), mask: SUBSET Sigs, flags: SUBSET Flags]
Marks(pr)   == [depth: {1}, lands: Spots(pr, "main"), mask: {<< >>, <<{}>>}]
Texts       == {"Parent_program_ending", "aborted", "all_children_terminated", "before_fork",
                "child", "child_info", "error", "exec_error", "execv_error", "exited", "faulted",
                "fork_error", "glob_str", "image", "parent_process", "parent_return_value",
                "parent_waiting", "pid", "running_as_daemon"}
Lines       == Pids \X Texts
Procs(pr) ==
  [state: {"none", "live", "zombie", "gone"}, parent: {0} \cup Pids, stack: Seq(Frames(pr)),
   mask: SUBSET Sigs, own: SUBSET Sigs, pending: SUBSET Sigs, action: [Sigs -> Actions(pr)],
   env: UNION {[D -> Marks(pr)]: D \in SUBSET Buffers}, waits: BOOLEAN, kept: Seq(SUBSET Sigs),
   flag: Int, alarm: BOOLEAN, buf: Seq(Lines), closed: BOOLEAN, asked: BOOLEAN, wild: BOOLEAN]

Typed ==
  /\ program \in DOMAIN Code /\ tty \in BOOLEAN
  /\ proc \in [Pids -> Procs(program)]
  /\ DOMAIN out \subseteq Lines /\ out \in [DOMAIN out -> Nat \ {0}]
  /\ sent \in Seq(Pids \X Sigs)

-----------------------------------------------------------------------------
(* What holds for each process that has been started *)

Bottom(P) == IF P.kept # << >> THEN P.kept[1]
             ELSE IF Depth(P) = 1 THEN P.mask ELSE P.stack[2].saved

(* main is at the bottom of the stack, handlers are above it; a process    *)
(* waits only in main.                                                     *)
Stacked(pr, P) ==
  /\ P.stack # << >> /\ P.stack[1].fn \in Bottoms
  /\ \A i \in 2..Depth(P): P.stack[i].fn \notin Bottoms
  /\ \A i \in 1..Depth(P): P.stack[i].at \in Spots(pr, P.stack[i].fn)
  /\ P.waits => /\ Depth(P) = 1
                /\ Code[pr][P.stack[1].fn][P.stack[1].at].op \in {"pause", "suspend"}
  /\ P.kept # << >> => P.waits
  /\ \A s \in P.pending: P.action[s].h # "IGN"
  /\ pr \in Forking => P.action = [s \in Sigs |-> Default] /\ Depth(P) = 1

(* Below all handlers, the mask main asked for is to be restored. *)
Masked(pr, P) ==
  /\ pr # "sigsetjmp1" => Bottom(P) = P.own
  /\ pr = "sigsetjmp1" =>
       /\ P.mask = IF P.asked THEN {"INT"} ELSE {}
       /\ Depth(P) <= 2 /\ (Depth(P) = 2 => P.asked)
       /\ \A s \in Sigs: P.action[s].h \notin {"DFL", "IGN"} => s = "INT" /\ P.action[s].mask = {}
                                                                /\ P.action[s].flags = {}
  /\ pr \in Jumping => P.own = {} /\ P.kept = << >>

Blocks(h) == IF h = "handler1" THEN {"QUIT"} ELSE {"INT"}

(* sigaction3: the handler that runs keeps the other one's signal blocked, *)
(* also when it is its own second instance that returns to it.             *)
Separate(pr, P) == pr = "sigaction3" =>
  /\ P.kept = << >>
  /\ \A s \in Sigs: P.action[s].h \notin {"DFL", "IGN"} =>
       /\ s = IF P.action[s].h = "handler1" THEN "INT" ELSE "QUIT"
       /\ P.action[s].mask = Blocks(P.action[s].h)
  /\ Depth(P) > 1 => Blocks(P.stack[2].fn) \subseteq P.mask
  /\ \A i \in 2..Depth(P): /\ P.stack[i].fn = P.stack[2].fn
                           /\ i > 2 => Blocks(P.stack[2].fn) \subseteq P.stack[i].saved

(* The buffers that have been set when function f is at call k. *)
Needs(pr, f, k) ==
  CASE pr = "sigsetjmp2" /\ ((f = "main" /\ k >= 4) \/ (f = "ssu_func" /\ k \in 2..5)) -> {"jump_buf"}
    [] pr = "sigsetjmp3" /\ f = "main" /\ k \in {2, 3} -> {"jmp_buf1"}
    [] pr = "sigsetjmp3" /\ f = "main" /\ k >= 4 -> {"jmp_buf1", "jmp_buf2"}
    [] pr = "sigsetjmp3" /\ f = "handler1" -> {"jmp_buf1"}
    [] pr = "sigsetjmp3" /\ f = "handler2" -> {"jmp_buf2"}
    [] OTHER -> {}

Prepared(pr, P) ==
  /\ pr \notin Jumping => DOMAIN P.env = {}
  /\ \A b \in DOMAIN P.env: /\ P.env[b].mask = IF pr = "sigsetjmp1" THEN << >> ELSE <<{}>>
                            /\ Needs(pr, "main", P.env[b].lands) \subseteq DOMAIN P.env
  /\ \A i \in 1..Depth(P): Needs(pr, P.stack[i].fn, P.stack[i].at) \subseteq DOMAIN P.env
  /\ \A s \in Sigs: Needs(pr, P.action[s].h, 1) \subseteq DOMAIN P.env
  /\ pr = "sigsetjmp2" /\ P.flag # 0 => "jump_buf" \in DOMAIN P.env
  /\ pr # "sigsetjmp1" => ~P.wild

Sound(pr, P) == Stacked(pr, P) /\ Masked(pr, P) /\ Separate(pr, P) /\ Prepared(pr, P)

AllSound == \A p \in Pids: proc[p].state # "none" => Sound(program, proc[p])

-----------------------------------------------------------------------------
(* Processes and their parents *)

Waiters == {"wait3", "wait4"}

(* Where wait3 and wait4 have no children: when wait has said so, and in   *)
(* children that have not gone on in the place of their parent.            *)
Alone(P) == LET F == P.stack[1] IN F.fn = "image" \/ F.at >= 6

(* New processes are numbered in order, and have an older parent. *)
Tree ==
  /\ \A p \in Pids: proc[p].state = "none" =>
       \A q \in Pids: (q > p => proc[q].state = "none") /\ proc[q].parent # p
  /\ proc[1].state # "none"
  /\ \A p \in Pids \ {1}: proc[p].state # "none" => proc[p].parent \in Pids /\ proc[p].parent < p

Childless ==
  program \in Waiters => \A p \in Pids: Live(p) /\ Alone(proc[p]) => Children(p) = {}

(* If users send nothing, parents live as long as their children. *)
Attended ==
  program \in Waiters /\ sent = << >> => \A p \in Pids: Live(p) =>
    /\ proc[p].pending = {} /\ ~proc[p].alarm
    /\ p # 1 => Live(proc[p].parent)

Family == Tree /\ Childless /\ Attended

-----------------------------------------------------------------------------
(* The lines the programs may still write *)

(* The lines a process that is at call k of f may still write. *)
Ahead(pr, f, k) ==
  {Code[pr][f][j].line: j \in {j \in 1..Len(Code[pr][f]):
     /\ Code[pr][f][j].op \in {"print", "write"}
     /\ j >= k \/ (pr \in Waiters /\ f = "main" /\ k >= 8)}}
  \cup (IF f = "main" /\ "image" \in DOMAIN Code[pr] THEN {"image"} ELSE {})

(* Where nothing has been printed yet. *)
Fresh(pr, f, k) ==
  CASE pr \in {"wait1", "wait2", "execv1"} -> k = 1
    [] pr \in Waiters -> k \in {1, 2, 8, 9}
    [] pr = "execl2"  -> k \in 1..3
    [] OTHER          -> FALSE

(* Where children are that end without writing what they have inherited. *)
Doomed(pr, k) == (pr = "wait1" /\ k \in {12, 13}) \/ (pr = "daemon" /\ k \in {4, 5})

-----------------------------------------------------------------------------
(* What the programs ask for *)

(* What is true of call c at k of function f. *)
Fits(pr, f, k, c) ==
  /\ \A n: MayGo(c, k, n) =>
       /\ n \in Spots(pr, f)
       /\ \/ Needs(pr, f, n) \subseteq Needs(pr, f, k)
          \/ c.op = "setjmp" /\ Needs(pr, f, n) \subseteq Needs(pr, f, k) \cup {c.env}
          \/ c.op = "ifZero" /\ pr = "sigsetjmp2" /\ n = k + 1 /\ Needs(pr, f, n) = {"jump_buf"}
  /\ c.op \in {"mask", "suspend", "pause", "setjmp", "exec"} => f = "main"
  /\ c.op \in {"mask", "suspend", "exec"} => pr \notin Jumping \cup {"sigaction3"}
  /\ c.op = "exec" => "image" \in DOMAIN Code[pr]
  /\ c.op \in {"mask", "suspend"} => c.sigs \subseteq Sigs
  /\ c.op = "mask" => c.how \in {"block", "unblock", "set"}
  /\ c.op = "kill" => c.sig \in Sigs
  /\ c.op = "alarm" => c.on = TRUE \/ c.on = FALSE
  /\ c.op = "set" => c.value \in Int /\ (pr = "sigsetjmp2" /\ c.value # 0 => "jump_buf" \in Needs(pr, f, k))
  /\ c.op = "setjmp" => /\ pr \in Jumping /\ c.env \in Buffers
                        /\ IF pr = "sigsetjmp1" THEN c.saves = FALSE ELSE c.saves = TRUE
  /\ c.op = "longjmp" => f # "main" /\ pr \in Jumping /\ (pr # "sigsetjmp1" => c.env \in Needs(pr, f, k))
  /\ c.op = "handle" => 
       /\ pr \notin Forking /\ c.sig \in Sigs /\ c.h \in {"DFL", "IGN"} \cup Asked(pr)
       /\ c.masks \subseteq SUBSET Sigs /\ c.flags \subseteq SUBSET Flags
       /\ Needs(pr, c.h, 1) \subseteq Needs(pr, f, k)
       /\ pr = "sigsetjmp1" => c.sig = "INT" /\ c.masks = {{}} /\ c.flags = {{}}
       /\ pr = "sigaction3" => /\ c.sig = IF c.h = "handler1" THEN "INT" ELSE "QUIT"
                               /\ c.masks = {Blocks(c.h)}
  /\ pr \in Forking => f \in Bottoms /\ c.op \in ForkingOps
  /\ c.op \in {"print", "write", "fork", "exec", "wait", "closeAll"} => pr \in Forking
  /\ c.op \in {"print", "write"} => c.line \in Texts
  /\ c.op = "ifZero" => c.to # k + 1

(* A function starts at a call. *)
Starts(pr, f) == /\ Len(Code[pr][f]) \in Nat /\ 1 \in Spots(pr, f)
                 /\ "main" \in DOMAIN Code[pr] /\ (pr \in Jumping => "image" \notin DOMAIN Code[pr])

LEMMA CallsFit ==
  ASSUME NEW pr \in DOMAIN Code, NEW f \in DOMAIN Code[pr]
  PROVE  Starts(pr, f) /\ \A k \in 1..Len(Code[pr][f]): Fits(pr, f, k, Code[pr][f][k])
<1> DEFINE Good == Starts(pr, f) /\ \A k \in 1..Len(Code[pr][f]): Fits(pr, f, k, Code[pr][f][k])
<1> USE DEF Starts, Fits, MayGo, Spots, Needs, Bottoms, Forking, Jumping, Buffers, Blocks, Asked,
     Sigs, Flags, Texts,
           ForkingOps
<1>1. CASE pr = "fork1"
  <2>1. Code[pr] = Fork1  BY <1>1 DEF Code
  <2>2. DOMAIN Fork1 = {"main"}  BY DEF Fork1
  <2>3. CASE f = "main"  BY <1>1, <2>1, <2>2, <2>3 DEF Fork1, Printf, Write, Fork, Exit, Sleep
  <2> QED  BY <2>1, <2>2, <2>3
<1>2. CASE pr = "wait1"
  <2>1. Code[pr] = Wait1  BY <1>2 DEF Code
  <2>2. DOMAIN Wait1 = {"main"}  BY DEF Wait1
  <2>3. CASE f = "main"  BY <1>2, <2>1, <2>2, <2>3 DEF Wait1, Printf, Write, Fork, Wait, Exit, Die
  <2> QED  BY <2>1, <2>2, <2>3
<1>3. CASE pr = "wait2"
  <2>1. Code[pr] = Wait2  BY <1>3 DEF Code
  <2>2. DOMAIN Wait2 = {"main"}  BY DEF Wait2
  <2>3. CASE f = "main"  BY <1>3, <2>1, <2>2, <2>3 DEF Wait2, Printf, Fork, Wait, Exit
  <2> QED  BY <2>1, <2>2, <2>3
<1>4. CASE pr = "wait3"
  <2>1. Code[pr] = Wait3  BY <1>4 DEF Code
  <2>2. DOMAIN Wait3 = {"main", "image"}  BY DEF Wait3
  <2>3. CASE f = "main"
    BY <1>4, <2>1, <2>2, <2>3 DEF Wait3, Printf, Fork, Exec, Wait, Exit, Goto, Image, Write
  <2>4. CASE f = "image"
    BY <1>4, <2>1, <2>2, <2>4 DEF Wait3, Printf, Fork, Exec, Wait, Exit, Goto, Image, Write
  <2> QED  BY <2>1, <2>2, <2>3, <2>4
<1>5. CASE pr = "wait4"
  <2>1. Code[pr] = Wait4  BY <1>5 DEF Code
  <2>2. DOMAIN Wait4 = {"main", "image"}  BY DEF Wait4, Wait3
  <2>3. CASE f = "main"
    BY <1>5, <2>1, <2>2, <2>3 DEF Wait4, Wait3, Printf, Fork, Exec, Wait, Exit, Goto, Image, Write
  <2>4. CASE f = "image"
    BY <1>5, <2>1, <2>2, <2>4 DEF Wait4, Wait3, Printf, Fork, Exec, Wait, Exit, Goto, Image, Write
  <2> QED  BY <2>1, <2>2, <2>3, <2>4
<1>6. CASE pr = "execl2"
  <2>1. Code[pr] = Execl2  BY <1>6 DEF Code
  <2>2. DOMAIN Execl2 = {"main", "image"}  BY DEF Execl2
  <2>3. CASE f = "main"
    BY <1>6, <2>1, <2>2, <2>3 DEF Execl2, Printf, Write, Fork, Exec, Exit, Image
  <2>4. CASE f = "image"
    BY <1>6, <2>1, <2>2, <2>4 DEF Execl2, Printf, Write, Fork, Exec, Exit, Image
  <2> QED  BY <2>1, <2>2, <2>3, <2>4
<1>7. CASE pr = "execv1"
  <2>1. Code[pr] = Execv1  BY <1>7 DEF Code
  <2>2. DOMAIN Execv1 = {"main", "image"}  BY DEF Execv1
  <2>3. CASE f = "main"
    BY <1>7, <2>1, <2>2, <2>3 DEF Execv1, Printf, Write, Fork, Exec, Wait, Exit, Goto, Image
  <2>4. CASE f = "image"
    BY <1>7, <2>1, <2>2, <2>4 DEF Execv1, Printf, Write, Fork, Exec, Wait, Exit, Goto, Image
  <2> QED  BY <2>1, <2>2, <2>3, <2>4
<1>8. CASE pr = "daemon"
  <2>1. Code[pr] = Daemon  BY <1>8 DEF Code
  <2>2. DOMAIN Daemon = {"main"}  BY DEF Daemon
  <2>3. CASE f = "main"  BY <1>8, <2>1, <2>2, <2>3 DEF Daemon, Printf, Write, Fork, Exit, CloseAll
  <2> QED  BY <2>1, <2>2, <2>3
<1>9. CASE pr = "signal1"
  <2>1. Code[pr] = Signal1  BY <1>9 DEF Code
  <2>2. DOMAIN Signal1 = {"main", "handler"}  BY DEF Signal1
  <2>3. CASE f = "main"
    BY <1>9, <2>1, <2>2, <2>3 DEF Signal1, Sleep, Goto, Signal, Sigaction, SigactionAny
  <2>4. CASE f = "handler"
    BY <1>9, <2>1, <2>2, <2>4 DEF Signal1, Sleep, Goto, Signal, Sigaction, SigactionAny
  <2> QED  BY <2>1, <2>2, <2>3, <2>4
<1>10. CASE pr = "signal2"
  <2>1. Code[pr] = Signal2  BY <1>10 DEF Code
  <2>2. DOMAIN Signal2 = {"main", "handler"}  BY DEF Signal2
  <2>3. CASE f = "main"
    BY <1>10, <2>1, <2>2, <2>3 DEF Signal2, Exit, Goto, Pause, Signal, Sigaction, SigactionAny
  <2>4. CASE f = "handler"
    BY <1>10, <2>1, <2>2, <2>4 DEF Signal2, Exit, Goto, Pause, Signal, Sigaction, SigactionAny
  <2> QED  BY <2>1, <2>2, <2>3, <2>4
<1>11. CASE pr = "alarm1"
  <2>1. Code[pr] = Alarm1  BY <1>11 DEF Code
  <2>2. DOMAIN Alarm1 = {"main", "handler"}  BY DEF Alarm1
  <2>3. CASE f = "main"
    BY <1>11, <2>1, <2>2, <2>3 DEF Alarm1, Spin, Alarm, Signal, Sigaction, SigactionAny
  <2>4. CASE f = "handler"
    BY <1>11, <2>1, <2>2, <2>4 DEF Alarm1, Spin, Alarm, Signal, Sigaction, SigactionAny
  <2> QED  BY <2>1, <2>2, <2>3, <2>4
<1>12. CASE pr = "alarm2"
  <2>1. Code[pr] = Alarm2  BY <1>12 DEF Code
  <2>2. DOMAIN Alarm2 = {"main", "ssu_alarm"}  BY DEF Alarm2
  <2>3. CASE f = "main"
    BY <1>12, <2>1, <2>2, <2>3 DEF Alarm2, Exit, Read, Alarm, AlarmOff, Signal, Sigaction,
       SigactionAny
  <2>4. CASE f = "ssu_alarm"
    BY <1>12, <2>1, <2>2, <2>4 DEF Alarm2, Exit, Read, Alarm, AlarmOff, Signal, Sigaction,
       SigactionAny
  <2> QED  BY <2>1, <2>2, <2>3, <2>4
<1>13. CASE pr = "pause"
  <2>1. Code[pr] = PauseLoop  BY <1>13 DEF Code
  <2>2. DOMAIN PauseLoop = {"main", "ssu_alarm"}  BY DEF PauseLoop
  <2>3. CASE f = "main"
    BY <1>13, <2>1, <2>2, <2>3 DEF PauseLoop, Goto, Pause, Alarm, Signal, Sigaction, SigactionAny
  <2>4. CASE f = "ssu_alarm"
    BY <1>13, <2>1, <2>2, <2>4 DEF PauseLoop, Goto, Pause, Alarm, Signal, Sigaction, SigactionAny
  <2> QED  BY <2>1, <2>2, <2>3, <2>4
<1>14. CASE pr = "sigprocmask"
  <2>1. Code[pr] = Sigprocmask  BY <1>14 DEF Code
  <2>2. DOMAIN Sigprocmask = {"main"}  BY DEF Sigprocmask
  <2>3. CASE f = "main"  BY <1>14, <2>1, <2>2, <2>3 DEF Sigprocmask, Sleep, Spin, Block, Unblock
  <2> QED  BY <2>1, <2>2, <2>3
<1>15. CASE pr = "sigaction1"
  <2>1. Code[pr] = Sigaction1  BY <1>15 DEF Code
  <2>2. DOMAIN Sigaction1 = {"main", "handler"}  BY DEF Sigaction1
  <2>3. CASE f = "main"
    BY <1>15, <2>1, <2>2, <2>3 DEF Sigaction1, Exit, Kill, SetMask, Sigaction, SigactionAny
  <2>4. CASE f = "handler"
    BY <1>15, <2>1, <2>2, <2>4 DEF Sigaction1, Exit, Kill, SetMask, Sigaction, SigactionAny
  <2> QED  BY <2>1, <2>2, <2>3, <2>4
<1>16. CASE pr = "sigaction2"
  <2>1. Code[pr] = Sigaction2  BY <1>16 DEF Code
  <2>2. DOMAIN Sigaction2 = {"main", "handler"}  BY DEF Sigaction2
  <2>3. CASE f = "main"
    BY <1>16, <2>1, <2>2, <2>3 DEF Sigaction2, Exit, Kill, SetMask, Sigaction, SigactionAny
  <2>4. CASE f = "handler"
    BY <1>16, <2>1, <2>2, <2>4 DEF Sigaction2, Exit, Kill, SetMask, Sigaction, SigactionAny
  <2> QED  BY <2>1, <2>2, <2>3, <2>4
<1>17. CASE pr = "sigaction3"
  <2>1. Code[pr] = Sigaction3  BY <1>17 DEF Code
  <2>2. DOMAIN Sigaction3 = {"main", "handler1", "handler2"}  BY DEF Sigaction3
  <2>3. CASE f = "main"
    BY <1>17, <2>1, <2>2, <2>3 DEF Sigaction3, Exit, Sleep, Pause, SigactionAny, Sigaction
  <2>4. CASE f = "handler1"
    BY <1>17, <2>1, <2>2, <2>4 DEF Sigaction3, Exit, Sleep, Pause, SigactionAny, Sigaction
  <2>5. CASE f = "handler2"
    BY <1>17, <2>1, <2>2, <2>5 DEF Sigaction3, Exit, Sleep, Pause, SigactionAny, Sigaction
  <2> QED  BY <2>1, <2>2, <2>3, <2>4, <2>5
<1>18. CASE pr = "sigpending"
  <2>1. Code[pr] = Sigpending  BY <1>18 DEF Code
  <2>2. DOMAIN Sigpending = {"main"}  BY DEF Sigpending
  <2>3. CASE f = "main"
    BY <1>18, <2>1, <2>2, <2>3 DEF Sigpending, Exit, Sleep, Goto, IfPending, SetMask
  <2> QED  BY <2>1, <2>2, <2>3
<1>19. CASE pr = "sigsetjmp1"
  <2>1. Code[pr] = Sigsetjmp1  BY <1>19 DEF Code
  <2>2. DOMAIN Sigsetjmp1 = {"main", "handler"}  BY DEF Sigsetjmp1
  <2>3. CASE f = "main"
    BY <1>19, <2>1, <2>2, <2>3 DEF Sigsetjmp1, Exit, Read, Goto, Loop, Pause, SetJmp, LongJmp,
       Signal, Sigaction, SigactionAny
  <2>4. CASE f = "handler"
    BY <1>19, <2>1, <2>2, <2>4 DEF Sigsetjmp1, Exit, Read, Goto, Loop, Pause, SetJmp, LongJmp,
       Signal, Sigaction, SigactionAny
  <2> QED  BY <2>1, <2>2, <2>3, <2>4
<1>20. CASE pr = "sigsetjmp2"
  <2>1. Code[pr] = Sigsetjmp2  BY <1>20 DEF Code
  <2>2. DOMAIN Sigsetjmp2 = {"main", "ssu_func", "ssu_alarm"}  BY DEF Sigsetjmp2
  <2>3. CASE f = "main"
    BY <1>20, <2>1, <2>2, <2>3 DEF Sigsetjmp2, Exit, Sleep, Goto, Set, IfZero, Pause, Alarm,
       SetJmp, LongJmp, Signal, Sigaction, SigactionAny
  <2>4. CASE f = "ssu_func"
    BY <1>20, <2>1, <2>2, <2>4 DEF Sigsetjmp2, Exit, Sleep, Goto, Set, IfZero, Pause, Alarm,
       SetJmp, LongJmp, Signal, Sigaction, SigactionAny
  <2>5. CASE f = "ssu_alarm"
    BY <1>20, <2>1, <2>2, <2>5 DEF Sigsetjmp2, Exit, Sleep, Goto, Set, IfZero, Pause, Alarm,
       SetJmp, LongJmp, Signal, Sigaction, SigactionAny
  <2> QED  BY <2>1, <2>2, <2>3, <2>4, <2>5
<1>21. CASE pr = "sigsetjmp3"
  <2>1. Code[pr] = Sigsetjmp3  BY <1>21 DEF Code
  <2>2. DOMAIN Sigsetjmp3 = {"main", "handler1", "handler2"}  BY DEF Sigsetjmp3
  <2>3. CASE f = "main"
    BY <1>21, <2>1, <2>2, <2>3 DEF Sigsetjmp3, Exit, Sleep, Loop, SetJmp, LongJmp, SigactionAny
  <2>4. CASE f = "handler1"
    BY <1>21, <2>1, <2>2, <2>4 DEF Sigsetjmp3, Exit, Sleep, Loop, SetJmp, LongJmp, SigactionAny
  <2>5. CASE f = "handler2"
    BY <1>21, <2>1, <2>2, <2>5 DEF Sigsetjmp3, Exit, Sleep, Loop, SetJmp, LongJmp, SigactionAny
  <2> QED  BY <2>1, <2>2, <2>3, <2>4, <2>5
<1>22. CASE pr = "sigsuspend1"
  <2>1. Code[pr] = Sigsuspend1  BY <1>22 DEF Code
  <2>2. DOMAIN Sigsuspend1 = {"main"}  BY DEF Sigsuspend1
  <2>3. CASE f = "main"  BY <1>22, <2>1, <2>2, <2>3 DEF Sigsuspend1, Exit, Block, Suspend
  <2> QED  BY <2>1, <2>2, <2>3
<1>23. CASE pr = "sigsuspend2"
  <2>1. Code[pr] = Sigsuspend2  BY <1>23 DEF Code
  <2>2. DOMAIN Sigsuspend2 = {"main", "ssu_func"}  BY DEF Sigsuspend2
  <2>3. CASE f = "main"
    BY <1>23, <2>1, <2>2, <2>3 DEF Sigsuspend2, Exit, Block, SetMask, Suspend, Signal, Sigaction,
       SigactionAny
  <2>4. CASE f = "ssu_func"
    BY <1>23, <2>1, <2>2, <2>4 DEF Sigsuspend2, Exit, Block, SetMask, Suspend, Signal, Sigaction,
       SigactionAny
  <2> QED  BY <2>1, <2>2, <2>3, <2>4
<1>24. CASE pr = "sigsuspend3"
  <2>1. Code[pr] = Sigsuspend3  BY <1>24 DEF Code
  <2>2. DOMAIN Sigsuspend3 = {"main", "handler"}  BY DEF Sigsuspend3
  <2>3. CASE f = "main"
    BY <1>24, <2>1, <2>2, <2>3 DEF Sigsuspend3, Exit, Suspend, Alarm, Sigaction, SigactionAny
  <2>4. CASE f = "handler"
    BY <1>24, <2>1, <2>2, <2>4 DEF Sigsuspend3, Exit, Suspend, Alarm, Sigaction, SigactionAny
  <2> QED  BY <2>1, <2>2, <2>3, <2>4
<1>25. pr \in {"fork1", "wait1", "wait2", "wait3", "wait4", "execl2", "execv1", "daemon",
               "signal1", "signal2", "alarm1", "alarm2", "pause", "sigprocmask", "sigaction1",
               "sigaction2", "sigaction3", "sigpending", "sigsetjmp1", "sigsetjmp2", "sigsetjmp3",
               "sigsuspend1", "sigsuspend2", "sigsuspend3"}
  BY DEF Code
<1> QED
  BY <1>25, <1>1, <1>2, <1>3, <1>4, <1>5, <1>6, <1>7, <1>8, <1>9, <1>10, <1>11, <1>12, <1>13,
     <1>14, <1>15, <1>16, <1>17, <1>18, <1>19, <1>20, <1>21, <1>22, <1>23, <1>24

-----------------------------------------------------------------------------
(* Single processes *)

LEMMA TopIs ==
  ASSUME NEW pr \in DOMAIN Code, NEW P \in Procs(pr), P.stack # << >>
  PROVE  /\ Depth(P) \in Nat \ {0} /\ Last(P.stack) = P.stack[Depth(P)]
         /\ \A i \in 1..Depth(P): P.stack[i] \in Frames(pr)
<1>1. P.stack \in Seq(Frames(pr))  BY DEF Procs
<1> QED  BY <1>1 DEF Depth, Last

LEMMA AtIs ==
  ASSUME NEW pr \in DOMAIN Code, NEW P \in Procs(pr), P.stack # << >>, NEW n \in Nat \ {0}
  PROVE  LET Q == At(P, n)
         IN /\ Q \in Procs(pr) /\ Q = [P EXCEPT !.stack = Q.stack] /\ Depth(Q) = Depth(P)
            /\ \A i \in 1..Depth(P): i # Depth(P) => Q.stack[i] = P.stack[i]
            /\ Q.stack[Depth(P)] = Frame(P.stack[Depth(P)].fn, n, P.stack[Depth(P)].saved)
<1> DEFINE d == Depth(P)
           S == [P.stack EXCEPT ![d].at = n]
           Q == [P EXCEPT !.stack = S]
<1>1. P.stack \in Seq(Frames(pr)) /\ d \in Nat \ {0} /\ P.stack[d] \in Frames(pr)
  BY TopIs DEF Procs
<1>2. [P.stack[d] EXCEPT !.at = n] = Frame(P.stack[d].fn, n, P.stack[d].saved)
      /\ Frame(P.stack[d].fn, n, P.stack[d].saved) \in Frames(pr)
  BY <1>1 DEF Frames, Frame
<1>3. S \in Seq(Frames(pr)) /\ Len(S) = d /\ S[d] = Frame(P.stack[d].fn, n, P.stack[d].saved)
      /\ \A i \in 1..d: i # d => S[i] = P.stack[i]
  BY <1>1, <1>2 DEF Depth
<1> HIDE DEF S
<1>4. Q \in Procs(pr) /\ Q.stack = S  BY <1>3 DEF Procs
<1>5. At(P, n) = Q  BY DEF At, S
<1> HIDE DEF Q
<1>6. Q = [P EXCEPT !.stack = Q.stack]  BY <1>4 DEF Q
<1> QED  BY <1>3, <1>4, <1>5, <1>6 DEF Depth

LEMMA AfterIs ==
  ASSUME NEW pr \in DOMAIN Code, NEW P \in Procs(pr), P.stack # << >>
  PROVE  After(P) = At(P, P.stack[Depth(P)].at + 1) /\ P.stack[Depth(P)].at + 1 \in Nat \ {0}
<1>1. P.stack \in Seq(Frames(pr)) /\ Depth(P) \in 1..Len(P.stack) /\ P.stack[Depth(P)] \in Frames(pr)
  BY TopIs DEF Procs, Depth
<1>2. P.stack[Depth(P)].at \in Nat  BY <1>1 DEF Frames
<1> QED  BY <1>1, <1>2 DEF After, At, Procs

(* The fields Sound looks at. *)
Same(P, Q) ==
  /\ Q.stack = P.stack /\ Q.mask = P.mask /\ Q.own = P.own /\ Q.action = P.action /\ Q.env = P.env
  /\ Q.waits = P.waits /\ Q.kept = P.kept /\ Q.flag = P.flag /\ Q.asked = P.asked /\ Q.wild = P.wild

LEMMA SoundSame ==
  ASSUME NEW pr \in DOMAIN Code, NEW P \in Procs(pr), NEW Q \in Procs(pr),
         Sound(pr, P), Same(P, Q), Q.pending \subseteq P.pending
  PROVE  Sound(pr, Q)
<1>1. Stacked(pr, Q)  BY DEF Sound, Stacked, Same, Depth
<1>2. Masked(pr, Q)  BY DEF Sound, Masked, Same, Depth, Bottom
<1>3. Separate(pr, Q)  BY DEF Sound, Separate, Same, Depth
<1>4. Prepared(pr, Q)  BY DEF Sound, Prepared, Same, Depth
<1> QED  BY <1>1, <1>2, <1>3, <1>4 DEF Sound

(* The function that runs, the call it is at, and that call. *)
Fn(P)       == P.stack[Depth(P)].fn
Spot(P)     == P.stack[Depth(P)].at
Asks(pr, P) == Code[pr][Fn(P)][Spot(P)]
Works(pr, P) == ~P.waits /\ Spot(P) <= Len(Code[pr][Fn(P)])

LEMMA CallIs ==
  ASSUME NEW pr \in DOMAIN Code, NEW P \in Procs(pr), Sound(pr, P)
  PROVE  /\ Fn(P) \in DOMAIN Code[pr] /\ Spot(P) \in Spots(pr, Fn(P)) /\ Spot(P) \in Nat \ {0}
         /\ Len(Code[pr][Fn(P)]) \in Nat
         /\ Spot(P) <= Len(Code[pr][Fn(P)]) => Fits(pr, Fn(P), Spot(P), Asks(pr, P))
         /\ Fn(P) \in Bottoms <=> Depth(P) = 1
         /\ P.stack # << >> /\ Depth(P) \in Nat \ {0}
<1>1. P.stack # << >> /\ Depth(P) \in Nat \ {0} /\ P.stack[Depth(P)] \in Frames(pr)
  BY TopIs DEF Sound, Stacked
<1>2. Fn(P) \in DOMAIN Code[pr] /\ Spot(P) \in Nat \ {0}  BY <1>1 DEF Fn, Spot, Frames
<1>3. Spot(P) \in Spots(pr, Fn(P))  BY <1>1 DEF Sound, Stacked, Fn, Spot
<1>4. Fn(P) \in Bottoms <=> Depth(P) = 1
  <2>1. CASE Depth(P) = 1  BY <2>1 DEF Sound, Stacked, Fn
  <2>2. CASE Depth(P) # 1
    <3>1. Depth(P) \in 2..Depth(P)  BY <1>1, <2>2
    <3> QED  BY <2>2, <3>1 DEF Sound, Stacked, Fn
  <2> QED  BY <2>1, <2>2
<1>5. Len(Code[pr][Fn(P)]) \in Nat  BY <1>2, CallsFit DEF Starts
<1>6. Spot(P) <= Len(Code[pr][Fn(P)]) => Spot(P) \in 1..Len(Code[pr][Fn(P)])  BY <1>2, <1>5
<1>7. \A k \in 1..Len(Code[pr][Fn(P)]): Fits(pr, Fn(P), k, Code[pr][Fn(P)][k])  BY <1>2, CallsFit
<1> QED  BY <1>1, <1>2, <1>3, <1>4, <1>5, <1>6, <1>7 DEF Asks

(* A step to another call of the same function. *)
LEMMA SoundAt ==
  ASSUME NEW pr \in DOMAIN Code, NEW P \in Procs(pr), Sound(pr, P), Works(pr, P),
         NEW n, MayGo(Asks(pr, P), Spot(P), n),
         Needs(pr, Fn(P), n) \subseteq DOMAIN P.env
  PROVE  At(P, n) \in Procs(pr) /\ Sound(pr, At(P, n))
<1> DEFINE d == Depth(P)
           Q == At(P, n)
<1>1. /\ Fn(P) \in DOMAIN Code[pr] /\ Fn(P) \in Bottoms <=> d = 1
      /\ Fits(pr, Fn(P), Spot(P), Asks(pr, P)) /\ P.stack # << >> /\ d \in Nat \ {0}
  BY CallIs DEF Works
<1>2. n \in Spots(pr, Fn(P)) /\ n \in Nat \ {0}
  <2>1. n \in Spots(pr, Fn(P))  BY <1>1 DEF Fits
  <2>2. Len(Code[pr][Fn(P)]) \in Nat  BY <1>1, CallsFit DEF Starts
  <2>3. PICK m \in Int: Spots(pr, Fn(P)) = 1..m
    <3>1. CASE Fn(P) \in Bottoms \/ pr = "sigsetjmp1"
      <4>1. Spots(pr, Fn(P)) = 1..(Len(Code[pr][Fn(P)]) + 0)  BY <3>1 DEF Spots
      <4>2. Len(Code[pr][Fn(P)]) + 0 \in Int  BY <2>2
      <4> QED  BY <4>1, <4>2
    <3>2. CASE ~(Fn(P) \in Bottoms \/ pr = "sigsetjmp1")
      <4>1. Spots(pr, Fn(P)) = 1..(Len(Code[pr][Fn(P)]) + 1)  BY <3>2 DEF Spots
      <4>2. Len(Code[pr][Fn(P)]) + 1 \in Int  BY <2>2
      <4> QED  BY <4>1, <4>2
    <3> QED  BY <3>1, <3>2
  <2> QED  BY <2>1, <2>3
<1>3. /\ Q \in Procs(pr) /\ Q = [P EXCEPT !.stack = Q.stack] /\ Depth(Q) = d
      /\ \A i \in 1..d: i # d => Q.stack[i] = P.stack[i]
      /\ Q.stack[d] = Frame(P.stack[d].fn, n, P.stack[d].saved)
  BY <1>1, <1>2, AtIs
<1> HIDE DEF Q
<1>4. /\ Q.mask = P.mask /\ Q.own = P.own /\ Q.action = P.action /\ Q.env = P.env /\ Q.pending = P.pending
      /\ Q.waits = P.waits /\ Q.kept = P.kept /\ Q.flag = P.flag /\ Q.asked = P.asked /\ Q.wild = P.wild
  BY <1>3 DEF Procs
<1>5. \A i \in 1..d: Q.stack[i].fn = P.stack[i].fn /\ Q.stack[i].saved = P.stack[i].saved
                     /\ (i # d => Q.stack[i].at = P.stack[i].at)
  BY <1>3 DEF Frame
<1>6. Q.stack[d].at = n /\ P.stack[d].fn = Fn(P) /\ Len(Q.stack) = d /\ Len(P.stack) = d
  BY <1>3 DEF Frame, Fn, Depth
<1>7. Stacked(pr, Q)
  <2>1. Q.stack # << >> /\ Q.stack[1].fn \in Bottoms /\ \A i \in 2..d: Q.stack[i].fn \notin Bottoms
    BY <1>1, <1>5, <1>6 DEF Sound, Stacked, Depth
  <2>2. \A i \in 1..d: Q.stack[i].at \in Spots(pr, Q.stack[i].fn)
    BY <1>1, <1>2, <1>5, <1>6 DEF Sound, Stacked, Depth
  <2> QED  BY <1>3, <1>4, <2>1, <2>2 DEF Sound, Stacked, Works
<1>8. Masked(pr, Q)
  BY <1>1, <1>3, <1>4, <1>5 DEF Sound, Masked, Bottom
<1>9. Separate(pr, Q)
  BY <1>1, <1>3, <1>4, <1>5 DEF Sound, Separate
<1>10. Prepared(pr, Q)
  <2>1. \A i \in 1..d: Needs(pr, Q.stack[i].fn, Q.stack[i].at) \subseteq DOMAIN Q.env
    BY <1>1, <1>4, <1>5, <1>6 DEF Sound, Prepared
  <2> QED  BY <1>3, <1>4, <2>1 DEF Sound, Prepared
<1> QED  BY <1>3, <1>7, <1>8, <1>9, <1>10 DEF Sound, Q

(* The usual case: neither setjmp nor sigsetjmp2's check of can_jump. *)
LEMMA SoundStep ==
  ASSUME NEW pr \in DOMAIN Code, NEW P \in Procs(pr), Sound(pr, P), Works(pr, P),
         NEW n, MayGo(Asks(pr, P), Spot(P), n),
         Asks(pr, P).op # "setjmp",
         Asks(pr, P).op = "ifZero" /\ n = Spot(P) + 1 => P.flag # 0
  PROVE  At(P, n) \in Procs(pr) /\ Sound(pr, At(P, n))
<1>1. Fits(pr, Fn(P), Spot(P), Asks(pr, P)) /\ Depth(P) \in Nat \ {0}  BY CallIs DEF Works
<1>2. Needs(pr, Fn(P), Spot(P)) \subseteq DOMAIN P.env
  BY <1>1 DEF Sound, Prepared, Fn, Spot
<1>3. Needs(pr, Fn(P), n) \subseteq DOMAIN P.env
  BY <1>1, <1>2 DEF Fits, Sound, Prepared
<1> QED  BY <1>3, SoundAt

-----------------------------------------------------------------------------
(* What calls and signals change in a process *)

(* What a step to another call leaves alone. *)
Stays(P, Q) ==
  /\ Q.state = P.state /\ Q.parent = P.parent /\ Q.mask = P.mask /\ Q.own = P.own
  /\ Q.pending = P.pending /\ Q.action = P.action /\ Q.env = P.env /\ Q.waits = P.waits
  /\ Q.kept = P.kept /\ Q.flag = P.flag /\ Q.alarm = P.alarm /\ Q.buf = P.buf
  /\ Q.closed = P.closed /\ Q.asked = P.asked /\ Q.wild = P.wild

LEMMA AtStays ==
  ASSUME NEW pr \in DOMAIN Code, NEW P \in Procs(pr), P.stack # << >>, NEW n \in Nat \ {0}
  PROVE  /\ At(P, n) \in Procs(pr) /\ Stays(P, At(P, n)) /\ Depth(At(P, n)) = Depth(P)
         /\ Fn(At(P, n)) = Fn(P) /\ Spot(At(P, n)) = n
         /\ \A i \in 1..Depth(P): /\ At(P, n).stack[i].fn = P.stack[i].fn
                                  /\ At(P, n).stack[i].saved = P.stack[i].saved
                                  /\ i # Depth(P) => At(P, n).stack[i] = P.stack[i]
<1> DEFINE Q == At(P, n)
<1>1. /\ Q \in Procs(pr) /\ Q = [P EXCEPT !.stack = Q.stack] /\ Depth(Q) = Depth(P)
      /\ \A i \in 1..Depth(P): i # Depth(P) => Q.stack[i] = P.stack[i]
      /\ Q.stack[Depth(P)] = Frame(P.stack[Depth(P)].fn, n, P.stack[Depth(P)].saved)
  BY AtIs
<1> HIDE DEF Q
<1>2. Stays(P, Q)  BY <1>1 DEF Procs, Stays
<1>3. Fn(Q) = Fn(P) /\ Spot(Q) = n  BY <1>1 DEF Fn, Spot, Frame
<1>4. \A i \in 1..Depth(P): Q.stack[i].fn = P.stack[i].fn /\ Q.stack[i].saved = P.stack[i].saved
  BY <1>1 DEF Frame
<1> QED  BY <1>1, <1>2, <1>3, <1>4 DEF Q

LEMMA SoundAfter ==
  ASSUME NEW pr \in DOMAIN Code, NEW P \in Procs(pr), Sound(pr, P), Works(pr, P),
         Asks(pr, P).op \notin {"exit", "die", "goto", "spin", "exec", "longjmp", "setjmp"},
         Asks(pr, P).op = "ifZero" => P.flag # 0
  PROVE  /\ After(P) \in Procs(pr) /\ Sound(pr, After(P)) /\ Stays(P, After(P))
         /\ Depth(After(P)) = Depth(P) /\ Fn(After(P)) = Fn(P) /\ Spot(After(P)) = Spot(P) + 1
<1>1. P.stack # << >> /\ Spot(P) \in Nat \ {0}  BY CallIs
<1>2. After(P) = At(P, Spot(P) + 1) /\ Spot(P) + 1 \in Nat \ {0}  BY <1>1, AfterIs DEF Spot
<1>3. MayGo(Asks(pr, P), Spot(P), Spot(P) + 1)  BY DEF MayGo
<1> QED  BY <1>1, <1>2, <1>3, SoundStep, AtStays

LEMMA SoundSets ==
  ASSUME NEW pr \in DOMAIN Code, NEW P \in Procs(pr), Sound(pr, P), Works(pr, P),
         Asks(pr, P).op = "set"
  PROVE  LET Q == [After(P) EXCEPT !.flag = Asks(pr, P).value]
         IN Q \in Procs(pr) /\ Sound(pr, Q)
<1> DEFINE v == Asks(pr, P).value
           R == After(P)
           Q == [R EXCEPT !.flag = v]
<1>1. Fits(pr, Fn(P), Spot(P), Asks(pr, P)) /\ Depth(P) \in Nat \ {0}  BY CallIs DEF Works
<1>2. R \in Procs(pr) /\ Sound(pr, R) /\ R.env = P.env  BY SoundAfter DEF Stays
<1>3. v \in Int /\ (pr = "sigsetjmp2" /\ v # 0 => "jump_buf" \in Needs(pr, Fn(P), Spot(P)))
  BY <1>1 DEF Fits
<1>4. Needs(pr, Fn(P), Spot(P)) \subseteq DOMAIN P.env
  BY <1>1 DEF Sound, Prepared, Fn, Spot
<1> HIDE DEF R, v
<1>5. /\ Q \in Procs(pr) /\ Q.flag = v /\ Q.stack = R.stack /\ Q.mask = R.mask /\ Q.own = R.own
      /\ Q.action = R.action /\ Q.env = R.env /\ Q.waits = R.waits /\ Q.kept = R.kept
      /\ Q.asked = R.asked /\ Q.wild = R.wild /\ Q.pending = R.pending
  BY <1>2, <1>3 DEF Procs
<1> HIDE DEF Q
<1>6. Stacked(pr, Q) /\ Masked(pr, Q) /\ Separate(pr, Q)
  BY <1>2, <1>5 DEF Sound, Stacked, Masked, Separate, Depth, Bottom
<1>7. Prepared(pr, Q)
  BY <1>2, <1>3, <1>4, <1>5 DEF Sound, Prepared, Depth
<1> QED  BY <1>5, <1>6, <1>7 DEF Sound, Q, R, v

LEMMA SoundMasks ==
  ASSUME NEW pr \in DOMAIN Code, NEW P \in Procs(pr), Sound(pr, P), Works(pr, P),
         Asks(pr, P).op = "mask", NEW new \in SUBSET Sigs
  PROVE  LET Q == [After(P) EXCEPT !.mask = new, !.own = new]
         IN Q \in Procs(pr) /\ Sound(pr, Q)
<1> DEFINE R == After(P)
           Q == [R EXCEPT !.mask = new, !.own = new]
<1>1. Fits(pr, Fn(P), Spot(P), Asks(pr, P)) /\ Depth(P) \in Nat \ {0} /\ (Fn(P) \in Bottoms <=> Depth(P) = 1)
  BY CallIs DEF Works
<1>2. R \in Procs(pr) /\ Sound(pr, R) /\ ~R.waits /\ Depth(R) = Depth(P)
  BY SoundAfter DEF Stays, Works
<1>3. Depth(P) = 1 /\ pr \notin Jumping \cup {"sigaction3"}  BY <1>1 DEF Fits, Bottoms
<1> HIDE DEF R
<1>4. /\ Q \in Procs(pr) /\ Q.flag = R.flag /\ Q.stack = R.stack /\ Q.mask = new /\ Q.own = new
      /\ Q.action = R.action /\ Q.env = R.env /\ Q.waits = R.waits /\ Q.kept = R.kept
      /\ Q.asked = R.asked /\ Q.wild = R.wild /\ Q.pending = R.pending
  BY <1>2 DEF Procs
<1> HIDE DEF Q
<1>5. R.kept = << >>  BY <1>2 DEF Sound, Stacked
<1>6. Stacked(pr, Q) /\ Prepared(pr, Q)
  BY <1>2, <1>4 DEF Sound, Stacked, Prepared, Depth
<1>7. Separate(pr, Q) /\ Masked(pr, Q)
  BY <1>2, <1>3, <1>4, <1>5 DEF Separate, Masked, Bottom, Depth, Jumping
<1> QED  BY <1>4, <1>6, <1>7 DEF Sound, Q, R

(* A signal is handled in another way from now on. *)
LEMMA SoundHandles ==
  ASSUME NEW pr \in DOMAIN Code, NEW P \in Procs(pr), Sound(pr, P), Works(pr, P),
         Asks(pr, P).op = "handle", NEW m \in Asks(pr, P).masks, NEW f \in Asks(pr, P).flags
  PROVE  LET c == Asks(pr, P)
             Q == [After(P) EXCEPT !.action[c.sig] = [h |-> c.h, mask |-> m, flags |-> f],
                                   !.pending = IF c.h = "IGN" THEN @ \ {c.sig} ELSE @]
         IN Q \in Procs(pr) /\ Sound(pr, Q)
<1> DEFINE c == Asks(pr, P)
           R == After(P)
           a == [h |-> c.h, mask |-> m, flags |-> f]
           A == [R.action EXCEPT ![c.sig] = a]
           X == IF c.h = "IGN" THEN R.pending \ {c.sig} ELSE R.pending
           Q == [R EXCEPT !.action = A, !.pending = X]
<1>1. Fits(pr, Fn(P), Spot(P), c) /\ Depth(P) \in Nat \ {0}  BY CallIs DEF Works
<1>2. R \in Procs(pr) /\ Sound(pr, R) /\ R.env = P.env  BY SoundAfter DEF Stays
<1>3. /\ pr \notin Forking /\ c.sig \in Sigs /\ c.h \in {"DFL", "IGN"} \cup Asked(pr)
      /\ m \in SUBSET Sigs /\ f \in SUBSET Flags
      /\ Needs(pr, c.h, 1) \subseteq Needs(pr, Fn(P), Spot(P))
      /\ pr = "sigsetjmp1" => c.sig = "INT" /\ m = {} /\ f = {}
      /\ pr = "sigaction3" => c.sig = (IF c.h = "handler1" THEN "INT" ELSE "QUIT") /\ m = Blocks(c.h)
  BY <1>1 DEF Fits
<1>4. Needs(pr, Fn(P), Spot(P)) \subseteq DOMAIN P.env
  BY <1>1 DEF Sound, Prepared, Fn, Spot
<1> HIDE DEF R, c
<1>5. a \in Actions(pr) /\ a.h = c.h /\ a.mask = m /\ a.flags = f  BY <1>3 DEF Actions
<1> HIDE DEF a
<1>6. R.action \in [Sigs -> Actions(pr)] /\ R.pending \in SUBSET Sigs  BY <1>2 DEF Procs
<1>7. /\ A \in [Sigs -> Actions(pr)] /\ A[c.sig] = a /\ \A s \in Sigs: s # c.sig => A[s] = R.action[s]
      /\ X \subseteq R.pending /\ (c.h = "IGN" => c.sig \notin X)
  BY <1>3, <1>5, <1>6
<1>8. [R EXCEPT !.action[c.sig] = a, !.pending = IF c.h = "IGN" THEN @ \ {c.sig} ELSE @] = Q
  BY <1>2 DEF Procs
<1> HIDE DEF A, X
<1>9. /\ Q \in Procs(pr) /\ Q.flag = R.flag /\ Q.stack = R.stack /\ Q.mask = R.mask /\ Q.own = R.own
      /\ Q.action = A /\ Q.env = R.env /\ Q.waits = R.waits /\ Q.kept = R.kept
      /\ Q.asked = R.asked /\ Q.wild = R.wild /\ Q.pending = X
  BY <1>2, <1>6, <1>7 DEF Procs
<1> HIDE DEF Q
<1>10. Stacked(pr, Q)
  <2>1. \A s \in Q.pending: s \in Sigs /\ Q.action[s].h # "IGN"
    BY <1>2, <1>5, <1>6, <1>7, <1>9 DEF Sound, Stacked
  <2> QED  BY <1>2, <1>3, <1>9, <2>1 DEF Sound, Stacked, Depth
<1>11. Masked(pr, Q)
  BY <1>2, <1>3, <1>5, <1>7, <1>9 DEF Sound, Masked, Bottom, Depth
<1>12. Separate(pr, Q)
  BY <1>2, <1>3, <1>5, <1>7, <1>9 DEF Sound, Separate, Depth
<1>13. Prepared(pr, Q)
  <2>1. \A s \in Sigs: Needs(pr, Q.action[s].h, 1) \subseteq DOMAIN Q.env
    BY <1>2, <1>3, <1>4, <1>5, <1>7, <1>9 DEF Sound, Prepared
  <2> QED  BY <1>2, <1>9, <2>1 DEF Sound, Prepared, Depth
<1>14. Q \in Procs(pr) /\ Sound(pr, Q)  BY <1>9, <1>10, <1>11, <1>12, <1>13 DEF Sound
<1> QED  BY <1>8, <1>14 DEF R, c, a

LEMMA SoundPend ==
  ASSUME NEW pr \in DOMAIN Code, NEW P \in Procs(pr), Sound(pr, P), NEW s \in Sigs
  PROVE  /\ Pend(P, s) \in Procs(pr) /\ Sound(pr, Pend(P, s)) /\ Same(P, Pend(P, s))
         /\ Pend(P, s).state = P.state /\ Pend(P, s).parent = P.parent
         /\ Pend(P, s).buf = P.buf /\ Pend(P, s).closed = P.closed
<1>1. CASE P.action[s].h = "IGN"  BY <1>1 DEF Pend, Same
<1>2. CASE P.action[s].h # "IGN"
  <2> DEFINE Q == [P EXCEPT !.pending = @ \cup {s}]
  <2>1. /\ Q \in Procs(pr) /\ Same(P, Q) /\ Q.pending = P.pending \cup {s} /\ Q.state = P.state
        /\ Q.parent = P.parent /\ Q.buf = P.buf /\ Q.closed = P.closed
    BY DEF Procs, Same
  <2> HIDE DEF Q
  <2>2. Stacked(pr, Q)  BY <1>2, <2>1 DEF Sound, Stacked, Same, Depth
  <2>3. Masked(pr, Q)  BY <2>1 DEF Sound, Masked, Same, Depth, Bottom
  <2>4. Separate(pr, Q)  BY <2>1 DEF Sound, Separate, Same, Depth
  <2>5. Prepared(pr, Q)  BY <2>1 DEF Sound, Prepared, Same, Depth
  <2>6. Pend(P, s) = Q  BY <1>2 DEF Pend, Q
  <2> QED  BY <2>1, <2>2, <2>3, <2>4, <2>5, <2>6 DEF Sound
<1> QED  BY <1>1, <1>2

LEMMA SoundWaits ==
  ASSUME NEW pr \in DOMAIN Code, NEW P \in Procs(pr), Sound(pr, P), Works(pr, P)
  PROVE  /\ Asks(pr, P).op = "pause" =>
              [P EXCEPT !.waits = TRUE] \in Procs(pr) /\ Sound(pr, [P EXCEPT !.waits = TRUE])
         /\ Asks(pr, P).op = "suspend" =>
              LET Q == [P EXCEPT !.waits = TRUE, !.kept = <<P.mask>>, !.mask = Asks(pr, P).sigs]
              IN Q \in Procs(pr) /\ Sound(pr, Q)
<1>1. /\ Fits(pr, Fn(P), Spot(P), Asks(pr, P)) /\ Depth(P) \in Nat \ {0}
      /\ Fn(P) \in Bottoms <=> Depth(P) = 1
  BY CallIs DEF Works
<1>2. P.kept = << >>  BY DEF Sound, Stacked, Works
<1>3. ASSUME Asks(pr, P).op = "pause"
      PROVE  [P EXCEPT !.waits = TRUE] \in Procs(pr) /\ Sound(pr, [P EXCEPT !.waits = TRUE])
  <2> DEFINE Q == [P EXCEPT !.waits = TRUE]
  <2>1. Depth(P) = 1 /\ Code[pr][P.stack[1].fn][P.stack[1].at].op = "pause"
    BY <1>1, <1>3 DEF Fits, Bottoms, Asks, Fn, Spot
  <2>2. /\ Q \in Procs(pr) /\ Q.flag = P.flag /\ Q.stack = P.stack /\ Q.mask = P.mask /\ Q.own = P.own
        /\ Q.action = P.action /\ Q.env = P.env /\ Q.kept = P.kept
        /\ Q.asked = P.asked /\ Q.wild = P.wild /\ Q.pending = P.pending
    BY DEF Procs
  <2> HIDE DEF Q
  <2>3. Stacked(pr, Q)  BY <1>2, <2>1, <2>2 DEF Sound, Stacked, Depth
  <2>4. Masked(pr, Q) /\ Separate(pr, Q) /\ Prepared(pr, Q)
    BY <2>2 DEF Sound, Masked, Separate, Prepared, Depth, Bottom
  <2> QED  BY <2>2, <2>3, <2>4 DEF Sound, Q
<1>4. ASSUME Asks(pr, P).op = "suspend"
      PROVE  LET Q == [P EXCEPT !.waits = TRUE, !.kept = <<P.mask>>, !.mask = Asks(pr, P).sigs]
             IN Q \in Procs(pr) /\ Sound(pr, Q)
  <2> DEFINE new == Asks(pr, P).sigs
             Q == [P EXCEPT !.waits = TRUE, !.kept = <<P.mask>>, !.mask = new]
  <2>1. Depth(P) = 1 /\ Code[pr][P.stack[1].fn][P.stack[1].at].op = "suspend"
        /\ pr \notin Jumping \cup {"sigaction3"} /\ new \in SUBSET Sigs
    BY <1>1, <1>4 DEF Fits, Bottoms, Asks, Fn, Spot
  <2> HIDE DEF new
  <2>2. P.mask \in SUBSET Sigs  BY DEF Procs
  <2>3. <<P.mask>> \in Seq(SUBSET Sigs) /\ <<P.mask>> # << >> /\ <<P.mask>>[1] = P.mask  BY <2>2
  <2>4. /\ Q \in Procs(pr) /\ Q.flag = P.flag /\ Q.stack = P.stack /\ Q.mask = new /\ Q.own = P.own
        /\ Q.action = P.action /\ Q.env = P.env /\ Q.kept = <<P.mask>> /\ Q.waits = TRUE
        /\ Q.asked = P.asked /\ Q.wild = P.wild /\ Q.pending = P.pending
    BY <2>1, <2>3 DEF Procs
  <2> HIDE DEF Q
  <2>5. Stacked(pr, Q)  BY <2>1, <2>4 DEF Sound, Stacked, Depth
  <2>6. Masked(pr, Q)
    <3>1. Bottom(P) = P.own  BY <2>1 DEF Sound, Masked, Jumping
    <3>2. Bottom(Q) = P.mask /\ Bottom(P) = P.mask  BY <1>2, <2>1, <2>3, <2>4 DEF Bottom
    <3> QED  BY <2>1, <2>4, <3>1, <3>2 DEF Masked, Jumping
  <2>7. Separate(pr, Q) /\ Prepared(pr, Q)
    BY <2>1, <2>4 DEF Sound, Separate, Prepared, Depth
  <2> QED  BY <2>4, <2>5, <2>6, <2>7 DEF Sound, Q, new
<1> QED  BY <1>3, <1>4

(* A handler is started: on top of main's or another handler's call.       *)
LEMMA SoundDelivered ==
  ASSUME NEW pr \in DOMAIN Code, NEW P \in Procs(pr), Sound(pr, P),
         NEW s \in Due(P), P.action[s].h # "DFL"
  PROVE  /\ Delivered(P, s) \in Procs(pr) /\ Sound(pr, Delivered(P, s)) /\ pr \notin Forking
         /\ Delivered(P, s).state = P.state /\ Delivered(P, s).parent = P.parent
         /\ Delivered(P, s).buf = P.buf
<1> DEFINE d == Depth(P)
           a == P.action[s]
           R == IF P.waits THEN After(P) ELSE P
           F == Frame(a.h, 1, IF P.kept # << >> THEN P.kept[1] ELSE P.mask)
           S == Append(R.stack, F)
           M == R.mask \cup a.mask \cup (IF "NODEFER" \in a.flags THEN {} ELSE {s})
           A == [R.action EXCEPT ![s] = IF "RESETHAND" \in a.flags THEN Default ELSE @]
           b == R.asked \/ s = "INT"
           Q == [R EXCEPT !.stack = S, !.mask = M, !.pending = @ \ {s}, !.action = A,
                          !.waits = FALSE, !.kept = << >>, !.asked = b]
<1>1. /\ Fn(P) \in DOMAIN Code[pr] /\ Spot(P) \in Spots(pr, Fn(P)) /\ Spot(P) \in Nat \ {0}
      /\ Spot(P) <= Len(Code[pr][Fn(P)]) => Fits(pr, Fn(P), Spot(P), Asks(pr, P))
      /\ Fn(P) \in Bottoms <=> d = 1
      /\ P.stack # << >> /\ d \in Nat \ {0} /\ Len(Code[pr][Fn(P)]) \in Nat
  BY CallIs
<1>2. s \in Sigs /\ s \in P.pending /\ s \notin P.mask /\ a \in Actions(pr) /\ a.h # "IGN"
  <2>1. s \in P.pending /\ s \notin P.mask /\ P.pending \subseteq Sigs /\ P.action \in [Sigs -> Actions(pr)]
    BY DEF Due, Procs
  <2> QED  BY <2>1 DEF Sound, Stacked
<1>3. a.h \in Asked(pr) /\ a.h \in DOMAIN Code[pr] /\ a.h \notin Bottoms /\ pr \notin Forking
      /\ a.mask \in SUBSET Sigs /\ a.flags \in SUBSET Flags
  BY <1>2 DEF Actions, Asked, Sound, Stacked, Default
<1>4. /\ R \in Procs(pr) /\ Stays(P, R) /\ Depth(R) = d
      /\ \A i \in 1..d: /\ R.stack[i].fn = P.stack[i].fn /\ R.stack[i].saved = P.stack[i].saved
                        /\ R.stack[i].at \in Spots(pr, P.stack[i].fn)
                        /\ Needs(pr, P.stack[i].fn, R.stack[i].at) \subseteq DOMAIN P.env
  <2>1. CASE ~P.waits  BY <2>1 DEF Stays, Sound, Stacked, Prepared
  <2>2. CASE P.waits
    <3>1. R = At(P, Spot(P) + 1) /\ Spot(P) + 1 \in Nat \ {0}  BY <1>1, <2>2, AfterIs DEF Spot
    <3>2. d = 1 /\ Asks(pr, P).op \in {"pause", "suspend"}
      BY <2>2 DEF Sound, Stacked, Asks, Fn, Spot
    <3>3. Spot(P) <= Len(Code[pr][Fn(P)])  BY <1>1, <3>2 DEF Spots
    <3>4. MayGo(Asks(pr, P), Spot(P), Spot(P) + 1)  BY <3>2 DEF MayGo
    <3>5. Spot(P) + 1 \in Spots(pr, Fn(P))
          /\ Needs(pr, Fn(P), Spot(P) + 1) \subseteq Needs(pr, Fn(P), Spot(P))
      BY <1>1, <3>2, <3>3, <3>4 DEF Fits
    <3>6. Needs(pr, Fn(P), Spot(P)) \subseteq DOMAIN P.env
      BY <1>1 DEF Sound, Prepared, Fn, Spot
    <3>7. /\ R \in Procs(pr) /\ Stays(P, R) /\ Depth(R) = d /\ Spot(R) = Spot(P) + 1
          /\ \A i \in 1..d: R.stack[i].fn = P.stack[i].fn /\ R.stack[i].saved = P.stack[i].saved
      BY <1>1, <3>1, AtStays
    <3>8. \A i \in 1..d: i = d  BY <3>2
    <3>9. R.stack[d].at = Spot(P) + 1 /\ P.stack[d].fn = Fn(P)  BY <3>7 DEF Spot, Fn
    <3> QED  BY <3>5, <3>6, <3>7, <3>8, <3>9
  <2> QED  BY <2>1, <2>2
<1> HIDE DEF R
<1>5. P.kept \in Seq(SUBSET Sigs) /\ P.mask \in SUBSET Sigs /\ P.waits \in BOOLEAN  BY DEF Procs
<1>6. F \in Frames(pr) /\ F.fn = a.h /\ F.at = 1
      /\ F.saved = IF P.kept # << >> THEN P.kept[1] ELSE P.mask
  BY <1>3, <1>5 DEF Frame, Frames
<1> HIDE DEF F
<1>7. /\ S \in Seq(Frames(pr)) /\ Len(S) = d + 1 /\ S[d + 1] = F
      /\ \A i \in 1..d: S[i] = R.stack[i]
  BY <1>4, <1>6 DEF Procs, Depth
<1>8. M \in SUBSET Sigs /\ P.mask \cup a.mask \subseteq M  BY <1>2, <1>3, <1>4, <1>5 DEF Stays
<1>9. /\ A \in [Sigs -> Actions(pr)]
      /\ \A x \in Sigs: A[x] = P.action[x] \/ A[x] = Default
  <2>1. Default \in Actions(pr)  BY DEF Default, Actions
  <2>2. R.action = P.action /\ P.action \in [Sigs -> Actions(pr)]  BY <1>4 DEF Stays, Procs
  <2> QED  BY <1>2, <2>1, <2>2
<1>10. Default.h = "DFL"  BY DEF Default
<1>11. Delivered(P, s) = Q
  <2>1. R.action = P.action  BY <1>4 DEF Stays
  <2> QED  BY <1>4, <2>1 DEF Delivered, R, F, Procs
<1>12. M = P.mask \cup a.mask \cup (IF "NODEFER" \in a.flags THEN {} ELSE {s})  BY <1>4 DEF Stays
<1>21. b \in BOOLEAN /\ << >> \in Seq(SUBSET Sigs)  OBVIOUS
<1>14. b <=> P.asked \/ s = "INT"  BY <1>4 DEF Stays
<1> HIDE DEF S, M, A, b
<1>13. /\ Q.asked = b /\ Q \in Procs(pr) /\ Q.flag = P.flag /\ Q.stack = S /\ Q.mask = M /\ Q.own = P.own
       /\ Q.action = A /\ Q.env = P.env /\ Q.kept = << >> /\ Q.waits = FALSE
       /\ Q.wild = P.wild /\ Q.pending = P.pending \ {s}
       /\ Q.state = P.state /\ Q.parent = P.parent /\ Q.buf = P.buf
  BY <1>4, <1>7, <1>8, <1>9, <1>21 DEF Procs, Stays
<1> HIDE DEF Q
<1>15. Depth(Q) = d + 1 /\ d + 1 \in Nat \ {0} /\ d + 1 > 1  BY <1>1, <1>7, <1>13 DEF Depth
<1>16. \A i \in 1..(d + 1): i = d + 1 \/ i \in 1..d  BY <1>1
<1>17. Stacked(pr, Q)
  <2>1. Q.stack # << >>  BY <1>7, <1>13, <1>15
  <2>2. Q.stack[1].fn \in Bottoms
    <3>1. 1 \in 1..d  BY <1>1
    <3>2. S[1] = R.stack[1] /\ R.stack[1].fn = P.stack[1].fn  BY <1>4, <1>7, <3>1
    <3> QED  BY <1>13, <3>2 DEF Sound, Stacked
  <2>3. ASSUME NEW i \in 2..(d + 1) PROVE Q.stack[i].fn \notin Bottoms
    <3>1. CASE i = d + 1  BY <1>3, <1>6, <1>7, <1>13, <3>1
    <3>2. CASE i # d + 1
      <4>1. i \in 1..d /\ i \in 2..d  BY <1>1, <3>2
      <4>2. S[i] = R.stack[i] /\ R.stack[i].fn = P.stack[i].fn  BY <1>4, <1>7, <4>1
      <4> QED  BY <1>13, <4>1, <4>2 DEF Sound, Stacked
    <3> QED  BY <3>1, <3>2
  <2>4. ASSUME NEW i \in 1..(d + 1) PROVE Q.stack[i].at \in Spots(pr, Q.stack[i].fn)
    <3>1. CASE i = d + 1
      <4>1. 1 \in Spots(pr, a.h)  BY <1>3, CallsFit DEF Starts
      <4> QED  BY <1>6, <1>7, <1>13, <3>1, <4>1
    <3>2. CASE i # d + 1
      <4>1. i \in 1..d  BY <1>16, <3>2
      <4> QED  BY <1>4, <1>7, <1>13, <4>1
    <3> QED  BY <3>1, <3>2
  <2>5. \A x \in Q.pending: Q.action[x].h # "IGN"
    <3>1. \A x \in P.pending: x \in Sigs /\ P.action[x].h # "IGN"  BY DEF Procs, Sound, Stacked
    <3> QED  BY <1>9, <1>10, <1>13, <3>1
  <2> QED  BY <1>3, <1>13, <1>15, <2>1, <2>2, <2>3, <2>4, <2>5 DEF Stacked
<1>18. Masked(pr, Q)
  <2>1. ASSUME pr # "sigsetjmp1" PROVE Bottom(Q) = Q.own
    <3>1. Bottom(Q) = S[2].saved  BY <1>13, <1>15 DEF Bottom
    <3>2. CASE d = 1
      <4>1. Bottom(P) = IF P.kept # << >> THEN P.kept[1] ELSE P.mask  BY <3>2 DEF Bottom
      <4>2. S[2] = F  BY <1>7, <3>2
      <4> QED  BY <1>6, <1>13, <2>1, <3>1, <4>1, <4>2 DEF Sound, Masked
    <3>3. CASE d # 1
      <4>1. 2 \in 1..d  BY <1>1, <3>3
      <4>2. S[2].saved = P.stack[2].saved  BY <1>4, <1>7, <4>1
      <4>3. P.kept = << >>  BY <3>3 DEF Sound, Stacked
      <4>4. Bottom(P) = P.stack[2].saved  BY <3>3, <4>3 DEF Bottom
      <4> QED  BY <1>13, <2>1, <3>1, <4>2, <4>4 DEF Sound, Masked
    <3> QED  BY <3>2, <3>3
  <2>2. ASSUME pr = "sigsetjmp1"
        PROVE  /\ Q.mask = IF Q.asked THEN {"INT"} ELSE {}
               /\ Depth(Q) <= 2 /\ (Depth(Q) = 2 => Q.asked)
               /\ \A x \in Sigs: Q.action[x].h \notin {"DFL", "IGN"} => 
                     x = "INT" /\ Q.action[x].mask = {} /\ Q.action[x].flags = {}
    <3>1. s = "INT" /\ a.mask = {} /\ a.flags = {}
      <4>1. a.h \notin {"DFL", "IGN"}  BY <1>2
      <4> QED  BY <1>2, <2>2, <4>1 DEF Sound, Masked
    <3>2. ~P.asked /\ P.mask = {}  BY <1>2, <2>2, <3>1 DEF Sound, Masked
    <3>3. d = 1  BY <1>1, <2>2, <3>2 DEF Sound, Masked
    <3>4. M = {"INT"}  BY <1>12, <3>1, <3>2
    <3>5. Q.asked  BY <1>13, <1>14, <3>1
    <3> QED  BY <1>9, <1>10, <1>13, <1>15, <2>2, <3>3, <3>4, <3>5 DEF Sound, Masked
  <2> QED  BY <1>13, <2>1, <2>2 DEF Sound, Masked
<1>19. Separate(pr, Q)
  <2> SUFFICES ASSUME pr = "sigaction3" PROVE Separate(pr, Q)  BY DEF Separate
  <2>1. /\ s = IF a.h = "handler1" THEN "INT" ELSE "QUIT"
        /\ a.mask = Blocks(a.h) /\ P.kept = << >>
    BY <1>2 DEF Sound, Separate
  <2>2. d > 1 => P.stack[2].fn = a.h /\ Blocks(a.h) \subseteq P.mask
    <3> SUFFICES ASSUME d > 1 PROVE P.stack[2].fn = a.h /\ Blocks(a.h) \subseteq P.mask  OBVIOUS
    <3>1. Blocks(P.stack[2].fn) \subseteq P.mask  BY DEF Sound, Separate
    <3>2. s \notin Blocks(P.stack[2].fn)  BY <1>2, <3>1
    <3>3. 2 \in 2..d /\ 2 \in 1..d  BY <1>1
    <3>4. P.stack[2].fn \in DOMAIN Code[pr] \ Bottoms
      BY <1>1, <3>3, TopIs DEF Sound, Stacked, Frames
    <3>5. DOMAIN Code[pr] \ Bottoms = {"handler1", "handler2"}
      <4>1. Code[pr] = Sigaction3  BY DEF Code
      <4> QED  BY <4>1 DEF Sigaction3, Bottoms
    <3>6. a.h \in {"handler1", "handler2"}  BY <1>3, <3>5
    <3> QED  BY <2>1, <3>1, <3>2, <3>4, <3>5, <3>6 DEF Blocks
  <2>3. S[2].fn = a.h
    <3>1. CASE d = 1
      <4>1. S[2] = F  BY <1>7, <3>1
      <4> QED  BY <1>6, <4>1
    <3>2. CASE d # 1
      <4>1. 2 \in 1..d /\ d > 1  BY <1>1, <3>2
      <4> QED  BY <1>4, <1>7, <2>2, <4>1
    <3> QED  BY <3>1, <3>2
  <2>4. Blocks(Q.stack[2].fn) \subseteq Q.mask  BY <1>8, <1>13, <2>1, <2>3
  <2>5. ASSUME NEW i \in 2..Depth(Q)
        PROVE  /\ Q.stack[i].fn = Q.stack[2].fn
               /\ i > 2 => Blocks(Q.stack[2].fn) \subseteq Q.stack[i].saved
    <3>1. CASE i = d + 1
      <4>1. i > 2 => d > 1  BY <1>1, <3>1
      <4>2. F.saved = P.mask  BY <1>6, <2>1
      <4> QED  BY <1>6, <1>7, <1>13, <2>2, <2>3, <3>1, <4>1, <4>2
    <3>2. CASE i # d + 1
      <4>1. i \in 1..d /\ i \in 2..d /\ d > 1  BY <1>1, <1>15, <3>2
      <4>2. S[i].fn = P.stack[i].fn /\ S[i].saved = P.stack[i].saved  BY <1>4, <1>7, <4>1
      <4>3. P.stack[i].fn = P.stack[2].fn /\ (i > 2 => Blocks(P.stack[2].fn) \subseteq P.stack[i].saved)
        BY <4>1 DEF Sound, Separate
      <4> QED  BY <1>13, <2>2, <2>3, <4>1, <4>2, <4>3
    <3> QED  BY <3>1, <3>2
  <2>6. \A x \in Sigs: Q.action[x].h \notin {"DFL", "IGN"} =>
           /\ x = IF Q.action[x].h = "handler1" THEN "INT" ELSE "QUIT"
           /\ Q.action[x].mask = Blocks(Q.action[x].h)
    BY <1>9, <1>10, <1>13 DEF Sound, Separate
  <2> QED  BY <1>13, <2>4, <2>5, <2>6 DEF Separate
<1>20. Prepared(pr, Q)
  <2>1. ASSUME NEW i \in 1..Depth(Q)
        PROVE Needs(pr, Q.stack[i].fn, Q.stack[i].at) \subseteq DOMAIN Q.env
    <3>1. CASE i = d + 1
      <4>1. Needs(pr, a.h, 1) \subseteq DOMAIN P.env  BY <1>2 DEF Sound, Prepared
      <4> QED  BY <1>6, <1>7, <1>13, <3>1, <4>1
    <3>2. CASE i # d + 1
      <4>1. i \in 1..d  BY <1>15, <1>16, <3>2
      <4> QED  BY <1>4, <1>7, <1>13, <4>1
    <3> QED  BY <3>1, <3>2
  <2>2. ASSUME NEW x \in Sigs PROVE Needs(pr, Q.action[x].h, 1) \subseteq DOMAIN Q.env
    <3>1. CASE Q.action[x] = P.action[x]  BY <1>13, <3>1 DEF Sound, Prepared
    <3>2. CASE Q.action[x] = Default
      <4>1. Needs(pr, "DFL", 1) = {}  BY DEF Needs
      <4> QED  BY <1>10, <3>2, <4>1
    <3> QED  BY <1>9, <1>13, <3>1, <3>2
  <2> QED  BY <1>13, <2>1, <2>2 DEF Sound, Prepared
<1> QED  BY <1>3, <1>11, <1>13, <1>17, <1>18, <1>19, <1>20 DEF Sound

(* A handler returns to what it has interrupted; main never does. *)
LEMMA SoundReturns ==
  ASSUME NEW pr \in DOMAIN Code, NEW P \in Procs(pr), Sound(pr, P),
         Spot(P) > Len(Code[pr][Fn(P)])
  PROVE  LET Q == [P EXCEPT !.stack = Front(@), !.mask = Last(P.stack).saved]
         IN Q \in Procs(pr) /\ Sound(pr, Q) /\ pr \notin Forking
<1> DEFINE d == Depth(P)
           S == Front(P.stack)
           M == Last(P.stack).saved
           Q == [P EXCEPT !.stack = S, !.mask = M]
<1>1. /\ Fn(P) \in DOMAIN Code[pr] /\ Spot(P) \in Spots(pr, Fn(P)) /\ Spot(P) \in Nat \ {0}
      /\ Len(Code[pr][Fn(P)]) \in Nat /\ (Fn(P) \in Bottoms <=> d = 1)
      /\ P.stack # << >> /\ d \in Nat \ {0}
  BY CallIs
<1>2. d > 1 /\ pr # "sigsetjmp1" /\ d - 1 \in Nat \ {0}
  <2>1. Fn(P) \notin Bottoms /\ pr # "sigsetjmp1"
    <3> SUFFICES ASSUME Fn(P) \in Bottoms \/ pr = "sigsetjmp1" PROVE FALSE  OBVIOUS
    <3>1. Spot(P) \in 1..(Len(Code[pr][Fn(P)]) + 0)  BY <1>1 DEF Spots
    <3> QED  BY <1>1, <3>1
  <2> QED  BY <1>1, <2>1
<1>3. P.stack \in Seq(Frames(pr)) /\ Len(P.stack) = d /\ d - 1 \in 0..Len(P.stack)
  BY <1>1 DEF Procs, Depth
<1>4. S \in Seq(Frames(pr)) /\ Len(S) = d - 1 /\ \A i \in 1..(d - 1): S[i] = P.stack[i]
  BY <1>3, UptoIs DEF Front
<1>5. M = P.stack[d].saved /\ M \in SUBSET Sigs
  <2>1. Last(P.stack) = P.stack[d] /\ P.stack[d] \in Frames(pr)  BY <1>1, TopIs
  <2> QED  BY <2>1 DEF Frames
<1>6. pr \notin Forking /\ ~P.waits /\ P.kept = << >>
  <2>1. d # 1  BY <1>2
  <2> QED  BY <2>1 DEF Sound, Stacked
<1> HIDE DEF S, M
<1>7. /\ Q \in Procs(pr) /\ Q.flag = P.flag /\ Q.stack = S /\ Q.mask = M /\ Q.own = P.own
      /\ Q.action = P.action /\ Q.env = P.env /\ Q.kept = << >> /\ Q.waits = P.waits
      /\ Q.asked = P.asked /\ Q.wild = P.wild /\ Q.pending = P.pending
  BY <1>4, <1>5, <1>6 DEF Procs
<1> HIDE DEF Q
<1>8. Depth(Q) = d - 1 /\ Q.stack # << >>
  <2>1. Depth(Q) = d - 1  BY <1>4, <1>7 DEF Depth
  <2>2. Len(<< >>) # d - 1  BY <1>2
  <2> QED  BY <1>4, <1>7, <2>1, <2>2
<1>9. \A i \in 1..(d - 1): i \in 1..d /\ (i \in 2..(d - 1) => i \in 2..d) /\ Q.stack[i] = P.stack[i]
  BY <1>1, <1>4, <1>7
<1>10. Stacked(pr, Q)
  <2>1. 1 \in 1..(d - 1)
    <3>1. d - 1 \in Nat /\ d - 1 >= 1  BY <1>1, <1>2
    <3> QED  BY <3>1
  <2>2. \A i \in 2..(d - 1): i \in 1..(d - 1)  BY <1>2
  <2> QED  BY <1>6, <1>7, <1>8, <1>9, <2>1, <2>2 DEF Sound, Stacked
<1>11. Masked(pr, Q)
  <2>1. Bottom(P) = P.stack[2].saved  BY <1>2, <1>6 DEF Bottom
  <2>2. Bottom(Q) = P.stack[2].saved
    <3>1. CASE d = 2  BY <1>5, <1>7, <1>8, <3>1 DEF Bottom
    <3>2. CASE d # 2
      <4>1. 2 \in 1..(d - 1) /\ d - 1 # 1  BY <1>1, <1>2, <3>2
      <4> QED  BY <1>7, <1>8, <1>9, <4>1 DEF Bottom
    <3> QED  BY <3>1, <3>2
  <2> QED  BY <1>2, <1>7, <2>1, <2>2 DEF Sound, Masked
<1>12. Separate(pr, Q)
  <2> SUFFICES ASSUME pr = "sigaction3", d > 2
               PROVE  /\ Blocks(Q.stack[2].fn) \subseteq Q.mask
                      /\ \A i \in 2..(d - 1): /\ Q.stack[i].fn = Q.stack[2].fn
                                              /\ i > 2 => Blocks(Q.stack[2].fn) \subseteq Q.stack[i].saved
    <3>1. d > 2 \/ (~(d - 1 > 1) /\ \A i \in 2..(d - 1): FALSE)  BY <1>1, <1>2
    <3> QED  BY <1>7, <1>8, <3>1 DEF Sound, Separate
  <2>1. \A i \in 2..d: /\ P.stack[i].fn = P.stack[2].fn
                       /\ i > 2 => Blocks(P.stack[2].fn) \subseteq P.stack[i].saved
    BY DEF Sound, Separate
  <2>2. d \in 2..d /\ 2 \in 1..(d - 1) /\ \A i \in 2..(d - 1): i \in 2..d /\ i \in 1..(d - 1)
    BY <1>1
  <2> QED  BY <1>5, <1>7, <1>9, <2>1, <2>2
<1>13. Prepared(pr, Q)
  BY <1>7, <1>8, <1>9 DEF Sound, Prepared
<1>14. Q \in Procs(pr) /\ Sound(pr, Q)  BY <1>7, <1>10, <1>11, <1>12, <1>13 DEF Sound
<1> QED  BY <1>6, <1>14 DEF Q, S, M

(* setjmp: the buffer is set, with the mask if it is to be restored. *)
LEMMA SoundSetsJmp ==
  ASSUME NEW pr \in DOMAIN Code, NEW P \in Procs(pr), Sound(pr, P), Works(pr, P),
         Asks(pr, P).op = "setjmp"
  PROVE  LET c == Asks(pr, P)
             e == [depth |-> Depth(P), lands |-> c.lands, mask |-> IF c.saves THEN <<P.mask>> ELSE << >>]
             Q == [After(P) EXCEPT !.env = [b \in DOMAIN @ \cup {c.env} |-> IF b = c.env THEN e ELSE @[b]]]
         IN Q \in Procs(pr) /\ Sound(pr, Q)
<1> DEFINE c == Asks(pr, P)
           e == [depth |-> Depth(P), lands |-> c.lands, mask |-> IF c.saves THEN <<P.mask>> ELSE << >>]
           E == [b \in DOMAIN P.env \cup {c.env} |-> IF b = c.env THEN e ELSE P.env[b]]
           R == [P EXCEPT !.env = E]
           n == Spot(P) + 1
<1>1. /\ Fn(P) \in DOMAIN Code[pr] /\ Fits(pr, Fn(P), Spot(P), c) /\ Depth(P) \in Nat \ {0}
      /\ Fn(P) \in Bottoms <=> Depth(P) = 1
      /\ P.stack # << >> /\ Spot(P) \in Nat \ {0}
  BY CallIs DEF Works
<1>2. /\ Depth(P) = 1 /\ Fn(P) = "main" /\ pr \in Jumping /\ c.env \in Buffers
      /\ IF pr = "sigsetjmp1" THEN c.saves = FALSE ELSE c.saves = TRUE
  BY <1>1 DEF Fits, Bottoms
<1>3. P.kept = << >> /\ P.own = {}  BY <1>2 DEF Sound, Masked
<1>4. pr # "sigsetjmp1" => P.mask = {}
  BY <1>2, <1>3 DEF Sound, Masked, Bottom
<1>5. MayGo(c, Spot(P), c.lands) /\ MayGo(c, Spot(P), n)  BY DEF MayGo
<1>6. /\ c.lands \in Spots(pr, "main")
      /\ Needs(pr, "main", c.lands) \subseteq Needs(pr, "main", Spot(P)) \cup {c.env}
      /\ Needs(pr, "main", n) \subseteq Needs(pr, "main", Spot(P)) \cup {c.env}
  BY <1>1, <1>2, <1>5 DEF Fits
<1>7. Needs(pr, "main", Spot(P)) \subseteq DOMAIN P.env
  BY <1>1, <1>2 DEF Sound, Prepared, Fn, Spot
<1>8. e \in Marks(pr) /\ e.lands = c.lands /\ e.mask = IF pr = "sigsetjmp1" THEN << >> ELSE <<{}>>
  BY <1>2, <1>4, <1>6 DEF Marks
<1>9. P.env \in [DOMAIN P.env -> Marks(pr)] /\ DOMAIN P.env \subseteq Buffers  BY DEF Procs
<1> HIDE DEF c, e
<1>10. /\ E \in [DOMAIN P.env \cup {c.env} -> Marks(pr)] /\ DOMAIN E = DOMAIN P.env \cup {c.env}
       /\ E \in UNION {[D -> Marks(pr)]: D \in SUBSET Buffers}
       /\ \A b \in DOMAIN E: E[b] = e \/ (b \in DOMAIN P.env /\ E[b] = P.env[b])
  <2>1. E \in [DOMAIN P.env \cup {c.env} -> Marks(pr)]  BY <1>8, <1>9
  <2>2. DOMAIN P.env \cup {c.env} \in SUBSET Buffers  BY <1>2, <1>9
  <2> QED  BY <2>1, <2>2
<1>11. [After(P) EXCEPT !.env = [b \in DOMAIN @ \cup {c.env} |-> IF b = c.env THEN e ELSE @[b]]] = At(R, n)
  <2>1. After(P) = At(P, n)  BY <1>1, AfterIs DEF Spot
  <2>2. Depth(R) = Depth(P)  BY DEF Depth, Procs
  <2>3. At(R, n) = [At(P, n) EXCEPT !.env = E]  BY <2>2 DEF At, Procs
  <2>4. At(P, n).env = P.env  BY <1>1, AtStays DEF Stays
  <2>5. At(P, n) \in Procs(pr)  BY <1>1, AtStays
  <2>6. [After(P) EXCEPT !.env = [b \in DOMAIN @ \cup {c.env} |-> IF b = c.env THEN e ELSE @[b]]]
        = [At(P, n) EXCEPT !.env = E]
    BY <2>1, <2>4
  <2> QED  BY <2>3, <2>6
<1> HIDE DEF E
<1>12. /\ R \in Procs(pr) /\ R.flag = P.flag /\ R.stack = P.stack /\ R.mask = P.mask /\ R.own = P.own
       /\ R.action = P.action /\ R.env = E /\ R.kept = P.kept /\ R.waits = P.waits
       /\ R.asked = P.asked /\ R.wild = P.wild /\ R.pending = P.pending
  BY <1>10 DEF Procs
<1> HIDE DEF R
<1>13. Stacked(pr, R) /\ Masked(pr, R) /\ Separate(pr, R)
  BY <1>12 DEF Sound, Stacked, Masked, Separate, Depth, Bottom
<1>14. Prepared(pr, R)
  <2>1. DOMAIN P.env \subseteq DOMAIN R.env  BY <1>10, <1>12
  <2>2. \A b \in DOMAIN R.env: /\ R.env[b].mask = IF pr = "sigsetjmp1" THEN << >> ELSE <<{}>>
                               /\ Needs(pr, "main", R.env[b].lands) \subseteq DOMAIN R.env
    <3> SUFFICES ASSUME NEW b \in DOMAIN R.env
                 PROVE  /\ R.env[b].mask = IF pr = "sigsetjmp1" THEN << >> ELSE <<{}>>
                        /\ Needs(pr, "main", R.env[b].lands) \subseteq DOMAIN R.env
      OBVIOUS
    <3>1. CASE R.env[b] = e
      BY <1>6, <1>7, <1>8, <1>10, <1>12, <3>1
    <3>2. CASE b \in DOMAIN P.env /\ R.env[b] = P.env[b]
      BY <2>1, <3>2 DEF Sound, Prepared
    <3> QED  BY <1>10, <1>12, <3>1, <3>2
  <2> QED  BY <1>2, <1>12, <2>1, <2>2 DEF Sound, Prepared, Depth
<1>15. Works(pr, R) /\ Asks(pr, R) = c /\ Spot(R) = Spot(P) /\ Fn(R) = Fn(P)
  BY <1>12 DEF Works, Asks, Spot, Fn, Depth, c
<1>16. Needs(pr, Fn(R), n) \subseteq DOMAIN R.env  BY <1>2, <1>6, <1>7, <1>10, <1>12, <1>15
<1>17. At(R, n) \in Procs(pr) /\ Sound(pr, At(R, n))
  BY <1>5, <1>12, <1>13, <1>14, <1>15, <1>16, SoundAt DEF Sound
<1> QED  BY <1>11, <1>17 DEF c, e

(* longjmp: back to main, whatever has been started since. *)
LEMMA SoundJumps ==
  ASSUME NEW pr \in DOMAIN Code, NEW P \in Procs(pr), Sound(pr, P), ~P.waits,
         NEW b \in DOMAIN P.env
  PROVE  JumpsTo(P, P.env[b]) \in Procs(pr) /\ Sound(pr, JumpsTo(P, P.env[b]))
<1> DEFINE e == P.env[b]
           M == IF e.mask # << >> THEN e.mask[1] ELSE P.mask
           R == [P EXCEPT !.stack = SubSeq(@, 1, e.depth), !.mask = M]
           Q == At(R, e.lands)
<1>1. /\ e \in Marks(pr) /\ pr \in Jumping /\ P.env \in [DOMAIN P.env -> Marks(pr)]
      /\ e.mask = IF pr = "sigsetjmp1" THEN << >> ELSE <<{}>>
      /\ Needs(pr, "main", e.lands) \subseteq DOMAIN P.env
  BY DEF Procs, Sound, Prepared
<1>2. e.depth = 1 /\ e.lands \in Spots(pr, "main")  BY <1>1 DEF Marks
<1>3. /\ P.kept = << >> /\ P.own = {} /\ P.stack # << >> /\ P.stack[1].fn \in Bottoms
      /\ P.stack \in Seq(Frames(pr)) /\ P.mask \in SUBSET Sigs
  BY <1>1 DEF Sound, Masked, Stacked, Procs
<1>4. P.stack[1].fn = "main" /\ "main" \in DOMAIN Code[pr]
  <2>1. P.stack[1] \in Frames(pr)
    <3>1. 1 \in 1..Len(P.stack)  BY <1>3
    <3> QED  BY <1>3, <3>1
  <2>2. P.stack[1].fn \in DOMAIN Code[pr]  BY <2>1 DEF Frames
  <2>3. "image" \notin DOMAIN Code[pr]  BY <1>1, <2>2, CallsFit DEF Starts
  <2> QED  BY <1>3, <2>2, <2>3 DEF Bottoms
<1>5. e.lands \in Nat \ {0}
  <2>2. Len(Code[pr]["main"]) \in Nat  BY <1>4, CallsFit DEF Starts
  <2>3. e.lands \in 1..(Len(Code[pr]["main"]) + 0)  BY <1>2 DEF Spots, Bottoms
  <2> QED  BY <2>2, <2>3
<1>6. M \in SUBSET Sigs /\ (pr # "sigsetjmp1" => M = {}) /\ (pr = "sigsetjmp1" => M = P.mask)
  BY <1>1, <1>3
<1>7. SubSeq(P.stack, 1, 1) \in Seq(Frames(pr)) /\ Len(SubSeq(P.stack, 1, 1)) = 1
      /\ SubSeq(P.stack, 1, 1)[1] = P.stack[1] /\ SubSeq(P.stack, 1, 1) # << >>
  <2>1. 1 \in 0..Len(P.stack) /\ 1 \in 1..1  BY <1>3
  <2>2. SubSeq(P.stack, 1, 1) \in Seq(Frames(pr)) /\ Len(SubSeq(P.stack, 1, 1)) = 1
        /\ SubSeq(P.stack, 1, 1)[1] = P.stack[1]
    BY <1>3, <2>1, UptoIs
  <2> DEFINE T == SubSeq(P.stack, 1, 1)
  <2>3. T \in Seq(Frames(pr)) /\ Len(T) = 1  BY <2>2
  <2> HIDE DEF T
  <2>4. Len(<< >>) # 1  OBVIOUS
  <2>5. T # << >>  BY <2>3, <2>4
  <2> QED  BY <2>2, <2>5 DEF T
<1>8. JumpsTo(P, e) = Q  BY DEF JumpsTo
<1> HIDE DEF e, M
<1>9. /\ R \in Procs(pr) /\ R.flag = P.flag /\ R.stack = SubSeq(P.stack, 1, 1) /\ R.mask = M /\ R.own = P.own
      /\ R.action = P.action /\ R.env = P.env /\ R.kept = P.kept /\ R.waits = P.waits
      /\ R.asked = P.asked /\ R.wild = P.wild /\ R.pending = P.pending
  BY <1>2, <1>6, <1>7 DEF Procs
<1> HIDE DEF R
<1>10. Depth(R) = 1 /\ R.stack # << >>  BY <1>7, <1>9 DEF Depth
<1>11. /\ Q \in Procs(pr) /\ Stays(R, Q) /\ Depth(Q) = 1 /\ Fn(Q) = "main" /\ Spot(Q) = e.lands
  <2>1. Fn(R) = "main"  BY <1>4, <1>7, <1>9, <1>10 DEF Fn
  <2> QED  BY <1>5, <1>9, <1>10, <2>1, AtStays
<1> HIDE DEF Q
<1>12. Q.stack[1].fn = "main" /\ Q.stack[1].at = e.lands /\ Q.stack # << >>
  <2>1. Len(Q.stack) = 1 /\ Q.stack \in Seq(Frames(pr))  BY <1>11 DEF Depth, Procs
  <2> QED  BY <1>11, <2>1 DEF Fn, Spot
<1>13. \A i \in 1..1: i = 1  OBVIOUS
<1>14. \A i \in 2..1: FALSE  OBVIOUS
<1>15. Stacked(pr, Q)
  <2>1. pr \notin Forking  BY <1>1 DEF Jumping, Forking
  <2>2. \A s \in Q.pending: Q.action[s].h # "IGN"  BY <1>9, <1>11 DEF Stays, Sound, Stacked
  <2>3. ~Q.waits /\ Q.kept = << >>  BY <1>3, <1>9, <1>11 DEF Stays
  <2> QED  BY <1>2, <1>11, <1>12, <1>13, <1>14, <2>1, <2>2, <2>3 DEF Stacked, Bottoms
<1>16. Masked(pr, Q)
  BY <1>3, <1>6, <1>9, <1>11 DEF Sound, Masked, Bottom, Stays
<1>17. Separate(pr, Q)  BY <1>1 DEF Separate, Jumping
<1>18. Prepared(pr, Q)
  BY <1>1, <1>9, <1>11, <1>12, <1>13 DEF Sound, Prepared, Stays
<1> QED  BY <1>8, <1>11, <1>15, <1>16, <1>17, <1>18 DEF Sound, e

LEMMA SoundExecs ==
  ASSUME NEW pr \in DOMAIN Code, NEW P \in Procs(pr), Sound(pr, P), Works(pr, P),
         Asks(pr, P).op = "exec"
  PROVE  LET Q == [P EXCEPT !.stack = <<Frame("image", 1, {})>>, !.buf = << >>]
         IN Q \in Procs(pr) /\ Sound(pr, Q)
<1> DEFINE F == Frame("image", 1, {})
           Q == [P EXCEPT !.stack = <<F>>, !.buf = << >>]
<1>1. Fits(pr, Fn(P), Spot(P), Asks(pr, P)) /\ Depth(P) \in Nat \ {0} /\ (Fn(P) \in Bottoms <=> Depth(P) = 1)
  BY CallIs DEF Works
<1>2. Depth(P) = 1 /\ pr \notin Jumping \cup {"sigaction3"} /\ "image" \in DOMAIN Code[pr]
  BY <1>1 DEF Fits, Bottoms
<1>3. ~P.waits /\ P.kept = << >>  BY DEF Works, Sound, Stacked
<1>4. F \in Frames(pr) /\ F.fn = "image" /\ F.at = 1  BY <1>2 DEF Frame, Frames
<1> HIDE DEF F
<1>5. <<F>> \in Seq(Frames(pr)) /\ Len(<<F>>) = 1 /\ <<F>>[1] = F /\ <<F>> # << >> /\ << >> \in Seq(Lines)
  BY <1>4
<1>6. /\ Q \in Procs(pr) /\ Q.flag = P.flag /\ Q.stack = <<F>> /\ Q.mask = P.mask /\ Q.own = P.own
      /\ Q.action = P.action /\ Q.env = P.env /\ Q.kept = P.kept /\ Q.waits = P.waits
      /\ Q.asked = P.asked /\ Q.wild = P.wild /\ Q.pending = P.pending
  BY <1>5 DEF Procs
<1> HIDE DEF Q
<1>7. Depth(Q) = 1 /\ Q.stack[1] = F /\ (\A i \in 1..1: i = 1) /\ (\A i \in 2..1: FALSE)
  BY <1>5, <1>6 DEF Depth
<1>8. Stacked(pr, Q)
  <2>1. 1 \in Spots(pr, "image")  BY <1>2, CallsFit DEF Starts
  <2> QED  BY <1>3, <1>4, <1>5, <1>6, <1>7, <2>1 DEF Sound, Stacked, Bottoms
<1>9. Masked(pr, Q)  BY <1>2, <1>6, <1>7 DEF Sound, Masked, Bottom, Jumping
<1>10. Separate(pr, Q)  BY <1>2 DEF Separate
<1>11. Prepared(pr, Q)
  <2>1. Needs(pr, "image", 1) = {}  BY <1>2 DEF Needs, Jumping
  <2> QED  BY <1>4, <1>6, <1>7, <2>1 DEF Sound, Prepared
<1> QED  BY <1>6, <1>8, <1>9, <1>10, <1>11 DEF Sound, Q, F

-----------------------------------------------------------------------------
(* Every step keeps the types, and every process sound *)

(* Bag c has, besides what is in b, what is in the sequence s. *)
Adds(S, b, s, c) ==
  /\ DOMAIN c = DOMAIN b \cup Range(s) /\ DOMAIN c \subseteq S
  /\ c \in [DOMAIN c -> Nat \ {0}]
  /\ \A x \in DOMAIN b: x \notin Range(s) => c[x] = b[x]
  /\ (\A i, j \in 1..Len(s): s[i] = s[j] => i = j) =>
        \A x \in Range(s): x \notin DOMAIN b => c[x] = 1

LEMMA BagsAdd ==
  ASSUME NEW S, NEW b, DOMAIN b \subseteq S, b \in [DOMAIN b -> Nat \ {0}], NEW s \in Seq(S)
  PROVE  Adds(S, b, s, b (+) ToBag(s))
<1> DEFINE At1(x) == {i \in DOMAIN s: s[i] = x}
           t == ToBag(s)
           c == b (+) t
<1>1. Len(s) \in Nat /\ DOMAIN s = 1..Len(s) /\ (\A x \in Range(s): \E i \in 1..Len(s): x = s[i])
      /\ \A i \in 1..Len(s): s[i] \in Range(s)
  BY DEF Range
<1>2. DOMAIN t = Range(s) /\ \A x \in DOMAIN t: t[x] = Cardinality(At1(x))
  BY DEF ToBag
<1>3. ASSUME NEW x \in DOMAIN t PROVE t[x] \in Nat \ {0}
  <2>1. At1(x) \subseteq 1..Len(s) /\ At1(x) # {}  BY <1>1, <1>2
  <2>2. IsFiniteSet(1..Len(s))
    <3>1. 1 \in Int /\ Len(s) \in Int  BY <1>1
    <3> QED  BY ONLY <3>1, FS_Interval
  <2>3. IsFiniteSet(At1(x))  BY <2>1, <2>2, FS_Subset
  <2>4. Cardinality(At1(x)) \in Nat /\ Cardinality(At1(x)) # 0
    BY <2>1, <2>3, FS_CardinalityType, FS_EmptySet
  <2> QED  BY <1>2, <2>4
<1>4. ASSUME \A i, j \in 1..Len(s): s[i] = s[j] => i = j, NEW x \in Range(s)
      PROVE  t[x] = 1
  <2>1. PICK i \in 1..Len(s): x = s[i]  BY <1>1
  <2>2. At1(x) = {i}  BY <1>1, <1>4, <2>1
  <2>3. Cardinality({i}) = 1  BY FS_Singleton
  <2> QED  BY <1>2, <2>2, <2>3
<1> HIDE DEF t
<1>5. /\ c = [x \in DOMAIN c |-> c[x]] /\ DOMAIN c = DOMAIN b \cup DOMAIN t
      /\ \A x \in DOMAIN c: c[x] = (IF x \in DOMAIN b THEN b[x] ELSE 0) + (IF x \in DOMAIN t THEN t[x] ELSE 0)
  BY DEF (+)
<1> HIDE DEF c
<1>6. Range(s) \subseteq S  BY <1>1
<1>7. DOMAIN c \subseteq S  BY <1>2, <1>5, <1>6
<1>8. ASSUME NEW x \in DOMAIN c PROVE c[x] \in Nat \ {0}
  BY <1>3, <1>5
<1>9. c \in [DOMAIN c -> Nat \ {0}]  BY <1>5, <1>8
<1>10. \A x \in DOMAIN b: x \notin Range(s) => c[x] = b[x]
  BY <1>2, <1>5
<1>11. (\A i, j \in 1..Len(s): s[i] = s[j] => i = j) =>
          \A x \in Range(s): x \notin DOMAIN b => c[x] = 1
  BY <1>2, <1>4, <1>5
<1>12. Adds(S, b, s, c)  BY <1>2, <1>5, <1>7, <1>9, <1>10, <1>11 DEF Adds
<1> QED  BY <1>12 DEF c, t

LEMMA DoesIs ==
  ASSUME Typed, AllSound, NEW p \in Pids, NEW op, Does(p, op)
  PROVE  /\ proc[p] \in Procs(program) /\ Sound(program, proc[p]) /\ Works(program, proc[p])
         /\ program \in DOMAIN Code /\ Live(p) /\ Due(proc[p]) = {}
         /\ Call(p) = Asks(program, proc[p]) /\ Call(p).op = op
         /\ Fits(program, Fn(proc[p]), Spot(proc[p]), Call(p))
<1>1. proc[p] \in Procs(program) /\ program \in DOMAIN Code  BY DEF Typed
<1>2. Sound(program, proc[p])  BY DEF AllSound, Does, Live
<1>3. /\ proc[p].stack # << >> /\ Len(Code[program][Fn(proc[p])]) \in Nat
      /\ Spot(proc[p]) \in Nat \ {0}
      /\ Spot(proc[p]) <= Len(Code[program][Fn(proc[p])]) =>
           Fits(program, Fn(proc[p]), Spot(proc[p]), Asks(program, proc[p]))
  BY <1>1, <1>2, CallIs
<1>4. Last(proc[p].stack) = proc[p].stack[Depth(proc[p])]  BY <1>1, <1>3, TopIs
<1>5. Call(p) = Asks(program, proc[p])  BY <1>4 DEF Call, Asks, Text, Fn, Spot
<1>6. Works(program, proc[p])
  <2>1. ~proc[p].waits /\ ~Ended(proc[p])  BY DEF Does
  <2>2. ~(Spot(proc[p]) > Len(Code[program][Fn(proc[p])]))  BY <1>4, <2>1 DEF Ended, Text, Fn, Spot
  <2> QED  BY <1>3, <2>1, <2>2 DEF Works
<1> QED  BY <1>1, <1>2, <1>3, <1>5, <1>6 DEF Does, Works

LEMMA Becomes ==
  ASSUME Typed, AllSound, NEW p \in Pids, NEW Q \in Procs(program), Sound(program, Q),
         Become(p, Q)
  PROVE  proc' \in [Pids -> Procs(program')] /\ AllSound' /\ proc'[p] = Q
         /\ (\A q \in Pids \ {p}: proc'[q] = proc[q])
         /\ UNCHANGED <<program, tty, sent>>
<1>1. proc' = [proc EXCEPT ![p] = Q] /\ UNCHANGED <<program, tty, sent>>  BY DEF Become
<1>2. proc \in [Pids -> Procs(program)]  BY DEF Typed
<1>3. proc'[p] = Q /\ \A q \in Pids \ {p}: proc'[q] = proc[q]  BY <1>1, <1>2
<1>4. proc' \in [Pids -> Procs(program)]  BY <1>1, <1>2
<1> QED  BY <1>1, <1>3, <1>4 DEF AllSound

LEMMA Ends ==
  ASSUME Typed, AllSound, NEW p \in Pids, Live(p), End(p)
  PROVE  /\ proc' \in [Pids -> Procs(program')] /\ AllSound' /\ UNCHANGED <<program, tty, sent>>
         /\ proc'[p].state \in {"zombie", "gone"}
         /\ \A q \in Pids: proc'[q] \in Procs(program) /\ Same(proc[q], proc'[q])
                           /\ proc'[q].parent = proc[q].parent /\ proc'[q].pending = proc[q].pending
                           /\ proc'[q].buf = proc[q].buf /\ proc'[q].alarm = proc[q].alarm
                           /\ proc'[q].closed = proc[q].closed
         /\ \A q \in Pids \ {p}: \/ proc'[q].state = proc[q].state
                                 \/ proc[q].state = "zombie" /\ proc'[q].state = "gone"
<1>1. proc \in [Pids -> Procs(program)] /\ program \in DOMAIN Code  BY DEF Typed
<1>2. UNCHANGED <<program, tty, sent>> /\ proc' = [q \in Pids |-> proc'[q]]  BY DEF End
<1> DEFINE Put(q, x) == [proc[q] EXCEPT !.state = x]
           Kept(P, Q) == /\ Same(P, Q) /\ Q.parent = P.parent /\ Q.pending = P.pending /\ Q.buf = P.buf
                         /\ Q.alarm = P.alarm /\ Q.closed = P.closed
<1>3. ASSUME NEW q \in Pids, NEW x \in {"none", "live", "zombie", "gone"}
      PROVE  Put(q, x) \in Procs(program) /\ Kept(proc[q], Put(q, x)) /\ Put(q, x).state = x
  <2>1. proc[q] \in Procs(program)  BY <1>1
  <2> QED  BY <2>1 DEF Procs, Same
<1>4. \A q \in Pids: \/ q # p /\ proc'[q] = proc[q]
                     \/ q # p /\ proc[q].state = "zombie" /\ proc'[q] = Put(q, "gone")
                     \/ q = p /\ \E x \in {"zombie", "gone"}: proc'[q] = Put(q, x)
  BY DEF End
<1>5. \A q \in Pids: proc[q] \in Procs(program) /\ Kept(proc[q], proc[q])  BY <1>1 DEF Same
<1> HIDE DEF Put, Kept
<1>10. \A q \in Pids: proc'[q] \in Procs(program) /\ Kept(proc[q], proc'[q])
  BY <1>3, <1>4, <1>5
<1>6. \A q \in Pids: proc'[q] \in Procs(program) /\ Same(proc[q], proc'[q])
                     /\ proc'[q].parent = proc[q].parent /\ proc'[q].pending = proc[q].pending
                     /\ proc'[q].buf = proc[q].buf /\ proc'[q].alarm = proc[q].alarm
                     /\ proc'[q].closed = proc[q].closed
  BY <1>10 DEF Kept
<1>7. /\ proc'[p].state \in {"zombie", "gone"}
      /\ \A q \in Pids \ {p}: \/ proc'[q].state = proc[q].state
                              \/ proc[q].state = "zombie" /\ proc'[q].state = "gone"
  BY <1>3, <1>4
<1>8. AllSound'
  <2> SUFFICES ASSUME NEW q \in Pids, proc'[q].state # "none" PROVE Sound(program', proc'[q])
    BY DEF AllSound
  <2>1. proc[q].state # "none"  BY <1>7 DEF Live
  <2>2. Sound(program, proc[q])  BY <2>1 DEF AllSound
  <2>3. Sound(program, proc'[q])  BY <1>1, <1>6, <2>2, SoundSame
  <2> QED  BY <1>2, <2>3
<1>9. proc' \in [Pids -> Procs(program')]  BY <1>2, <1>6
<1> QED  BY <1>2, <1>6, <1>7, <1>8, <1>9

-----------------------------------------------------------------------------
(* The kinds of steps *)

(* To another call of the same function. *)
Moves(p) ==
  /\ Live(p) /\ Works(program, proc[p]) /\ Silent
  /\ Call(p) = Asks(program, proc[p])
  /\ Call(p).op \notin {"print", "write", "closeAll", "setjmp"}
  /\ \E n: /\ MayGo(Call(p), Spot(proc[p]), n) /\ Become(p, At(proc[p], n))
           /\ Call(p).op = "fork" => n = Call(p).fails
           /\ Call(p).op = "wait" => n = Call(p).none /\ Children(p) = {}
           /\ Call(p).op = "ifZero" /\ n = Spot(proc[p]) + 1 => proc[p].flag # 0

(* Anything that has to do with signals. *)
Handling(p) ==
  /\ Live(p) /\ Silent /\ program \notin Forking
  /\ \E Q \in Procs(program):
       /\ Sound(program, Q) /\ Become(p, Q)
       /\ Q.state \in {"live", "gone"} /\ Q.parent = proc[p].parent /\ Q.buf = proc[p].buf

(* A signal is sent. *)
Signalled(p) ==
  /\ Live(p) /\ Silent /\ UNCHANGED <<program, tty>>
  /\ \E Q \in Procs(program):
       /\ Sound(program, Q) /\ proc' = [proc EXCEPT ![p] = Q]
       /\ Q.state = "live" /\ Q.parent = proc[p].parent /\ Q.buf = proc[p].buf
       /\ Q.closed = proc[p].closed /\ Q.stack = proc[p].stack
  /\ sent' \in Seq(Pids \X Sigs)
  /\ sent' # << >> \/ (proc[p].alarm /\ sent' = sent)

Reaps(p) == Does(p, "wait") /\ Silent /\ \E c \in Children(p):
              /\ proc[c].state = "zombie"
              /\ proc' = [proc EXCEPT ![p] = After(@), ![c].state = "gone"]
              /\ UNCHANGED <<program, tty, sent>>

Leaves(p) == Exits(p) \/ Dies(p) \/ Terminated(p)

LEMMA MovesAre ==
  ASSUME Typed, AllSound, NEW p \in Pids
  PROVE  Sleeps(p) \/ Reads(p) \/ Jumps(p) \/ GoesOn(p) \/ ForkFails(p) \/ ExecFails(p)
         \/ (Does(p, "wait") /\ Silent /\ Children(p) = {} /\ Become(p, At(proc[p], Call(p).none)))
         => Moves(p)
<1> DEFINE P == proc[p]
<1>1. ASSUME NEW op, Does(p, op),
             op \in {"sleep", "read", "goto", "loop", "ifZero", "ifPending", "fork", "exec", "wait"}
      PROVE  /\ Live(p) /\ Works(program, P) /\ Call(p) = Asks(program, P) /\ Call(p).op = op
             /\ Call(p).op \notin {"print", "write", "closeAll", "setjmp"}
             /\ After(P) = At(P, Spot(P) + 1)
             /\ op \notin {"goto", "exec"} => MayGo(Call(p), Spot(P), Spot(P) + 1)
             /\ op \in {"goto", "loop", "ifZero", "ifPending"} => MayGo(Call(p), Spot(P), Call(p).to)
             /\ op \in {"fork", "exec"} => MayGo(Call(p), Spot(P), Call(p).fails)
             /\ op = "wait" => MayGo(Call(p), Spot(P), Call(p).none)
             /\ op = "ifZero" => Call(p).to # Spot(P) + 1
  <2>1. /\ P \in Procs(program) /\ Sound(program, P) /\ Works(program, P) /\ program \in DOMAIN Code
        /\ Live(p) /\ Call(p) = Asks(program, P) /\ Call(p).op = op
        /\ Fits(program, Fn(P), Spot(P), Call(p))
    BY <1>1, DoesIs
  <2>2. After(P) = At(P, Spot(P) + 1)  BY <2>1, AfterIs, CallIs DEF Spot
  <2>3. op = "ifZero" => Call(p).to # Spot(P) + 1  BY <2>1 DEF Fits
  <2> QED  BY <1>1, <2>1, <2>2, <2>3 DEF MayGo
<1>2. CASE Sleeps(p)
  <2>1. Does(p, "sleep") /\ Silent /\ Become(p, After(P))  BY <1>2 DEF Sleeps
  <2> QED  BY <1>1, <2>1 DEF Moves
<1>3. CASE Reads(p)
  <2>1. Does(p, "read") /\ Silent /\ Become(p, After(P))  BY <1>3 DEF Reads
  <2> QED  BY <1>1, <2>1 DEF Moves
<1>4. CASE Jumps(p)
  <2>1. Taken(p) /\ Silent /\ Become(p, At(P, Call(p).to))  BY <1>4 DEF Jumps
  <2>2. PICK op \in {"goto", "loop", "ifZero", "ifPending"}: Does(p, op)  BY <2>1 DEF Taken
  <2> QED  BY <1>1, <2>1, <2>2 DEF Moves
<1>5. CASE GoesOn(p)
  <2>1. NotTaken(p) /\ Silent /\ Become(p, After(P))  BY <1>5 DEF GoesOn
  <2>2. PICK op \in {"loop", "ifZero", "ifPending"}: Does(p, op) /\ (op = "ifZero" => P.flag # 0)
    BY <2>1 DEF NotTaken
  <2> QED  BY <1>1, <2>1, <2>2 DEF Moves
<1>6. CASE ForkFails(p)
  <2>1. Does(p, "fork") /\ Silent /\ Become(p, At(P, Call(p).fails))  BY <1>6 DEF ForkFails
  <2> QED  BY <1>1, <2>1 DEF Moves
<1>7. CASE ExecFails(p)
  <2>1. Does(p, "exec") /\ Silent /\ Become(p, At(P, Call(p).fails))  BY <1>7 DEF ExecFails
  <2> QED  BY <1>1, <2>1 DEF Moves
<1>8. CASE Does(p, "wait") /\ Silent /\ Children(p) = {} /\ Become(p, At(proc[p], Call(p).none))
  BY <1>1, <1>8 DEF Moves
<1> QED  BY <1>2, <1>3, <1>4, <1>5, <1>6, <1>7, <1>8

LEMMA WaitsAre ==
  ASSUME Typed, AllSound, NEW p \in Pids, Waits(p)
  PROVE  Moves(p) \/ Reaps(p)
<1>1. CASE Children(p) = {} /\ Become(p, At(proc[p], Call(p).none))
  BY <1>1, MovesAre DEF Waits
<1>2. CASE ~(Children(p) = {} /\ Become(p, At(proc[p], Call(p).none)))
  BY <1>2 DEF Waits, Reaps
<1> QED  BY <1>1, <1>2

LEMMA HandlingIs ==
  ASSUME Typed, AllSound, NEW p \in Pids
  PROVE  Sets(p) \/ Handles(p) \/ Masks(p) \/ Kills(p) \/ Alarms(p) \/ Pauses(p) \/ Suspends(p)
         \/ Delivers(p) \/ Returns(p) \/ SetsJmp(p) \/ LongJmps(p)
         => Handling(p)
<1> DEFINE P == proc[p]
           R == After(P)
           c == Call(p)
<1>1. ASSUME NEW op, Does(p, op), op \notin ForkingOps
      PROVE  /\ P \in Procs(program) /\ Sound(program, P) /\ Works(program, P)
             /\ program \in DOMAIN Code /\ Live(p) /\ c = Asks(program, P) /\ c.op = op
             /\ Fits(program, Fn(P), Spot(P), c) /\ program \notin Forking
             /\ op \notin {"spin", "longjmp", "setjmp", "ifZero"} =>
                  R \in Procs(program) /\ Sound(program, R) /\ Stays(P, R)
  <2>1. /\ P \in Procs(program) /\ Sound(program, P) /\ Works(program, P) /\ program \in DOMAIN Code
        /\ Live(p) /\ c = Asks(program, P) /\ c.op = op /\ Fits(program, Fn(P), Spot(P), c)
    BY <1>1, DoesIs
  <2>2. program \notin Forking  BY <1>1, <2>1 DEF Fits
  <2>3. ASSUME op \notin {"spin", "longjmp", "setjmp", "ifZero"}
        PROVE  R \in Procs(program) /\ Sound(program, R) /\ Stays(P, R)
    <3>1. op \notin {"exit", "die", "goto", "spin", "exec", "longjmp", "setjmp"}
      BY <1>1, <2>3 DEF ForkingOps
    <3> QED  BY <2>1, <2>3, <3>1, SoundAfter
  <2> QED  BY <2>1, <2>2, <2>3
<1> HIDE DEF R
<1>2. ASSUME NEW op, Does(p, op), op \notin ForkingOps, Silent, NEW Q \in Procs(program),
             Sound(program, Q), Become(p, Q),
             Q.state \in {"live", "gone"}, Q.parent = P.parent, Q.buf = P.buf
      PROVE  Handling(p)
  BY <1>1, <1>2 DEF Handling
<1>3. CASE Sets(p)
  <2> DEFINE Q == [R EXCEPT !.flag = c.value]
  <2>1. Does(p, "set") /\ Silent /\ Become(p, Q)  BY <1>3 DEF Sets, R
  <2>2. "set" \notin ForkingOps  BY DEF ForkingOps
  <2>3. Q \in Procs(program) /\ Sound(program, Q)  BY <1>1, <2>1, <2>2, SoundSets DEF R
  <2>4. Q.state = "live" /\ Q.parent = P.parent /\ Q.buf = P.buf
    BY <1>1, <2>1, <2>2 DEF Stays, Procs, Live
  <2> QED  BY <1>2, <2>1, <2>2, <2>3, <2>4
<1>4. CASE Handles(p)
  <2>1. Does(p, "handle") /\ Silent  BY <1>4 DEF Handles
  <2>2. "handle" \notin ForkingOps  BY DEF ForkingOps
  <2>3. PICK m \in c.masks, f \in c.flags:
          Become(p, [R EXCEPT !.action[c.sig] = [h |-> c.h, mask |-> m, flags |-> f],
                              !.pending = IF c.h = "IGN" THEN @ \ {c.sig} ELSE @])
    BY <1>4 DEF Handles, R
  <2> DEFINE Q == [R EXCEPT !.action[c.sig] = [h |-> c.h, mask |-> m, flags |-> f],
                            !.pending = IF c.h = "IGN" THEN @ \ {c.sig} ELSE @]
  <2>6. /\ P \in Procs(program) /\ Sound(program, P) /\ Works(program, P)
        /\ program \in DOMAIN Code /\ c = Asks(program, P) /\ c.op = "handle"
    BY <1>1, <2>1, <2>2
  <2>4. Q \in Procs(program) /\ Sound(program, Q)
    <3> HIDE DEF c, P
    <3> QED  BY <2>3, <2>6, SoundHandles DEF R
  <2>5. Q.state = "live" /\ Q.parent = P.parent /\ Q.buf = P.buf
    BY <1>1, <2>1, <2>2 DEF Stays, Procs, Live
  <2> QED  BY <1>2, <2>1, <2>2, <2>3, <2>4, <2>5
<1>5. CASE Masks(p)
  <2> DEFINE new == CASE c.how = "block"   -> P.mask \cup c.sigs
                      [] c.how = "unblock" -> P.mask \ c.sigs
                      [] c.how = "set"     -> c.sigs
             Q == [R EXCEPT !.mask = new, !.own = new]
  <2>1. Does(p, "mask") /\ Silent /\ Become(p, Q)  BY <1>5 DEF Masks, R
  <2>2. "mask" \notin ForkingOps  BY DEF ForkingOps
  <2>6. /\ P.mask \in SUBSET Sigs /\ c.sigs \in SUBSET Sigs
        /\ c.how = "block" \/ c.how = "unblock" \/ c.how = "set"
    BY <1>1, <2>1, <2>2 DEF Fits, Procs
  <2>3. new \in SUBSET Sigs  BY <2>6
  <2> HIDE DEF new
  <2>4. Q \in Procs(program) /\ Sound(program, Q)  BY <1>1, <2>1, <2>2, <2>3, SoundMasks DEF R
  <2>5. Q.state = "live" /\ Q.parent = P.parent /\ Q.buf = P.buf
    BY <1>1, <2>1, <2>2 DEF Stays, Procs, Live
  <2> QED  BY <1>2, <2>1, <2>2, <2>4, <2>5
<1>6. CASE Kills(p)
  <2>1. Does(p, "kill") /\ Silent /\ Become(p, Pend(R, c.sig))  BY <1>6 DEF Kills, R
  <2>2. "kill" \notin ForkingOps  BY DEF ForkingOps
  <2>3. c.sig \in Sigs  BY <1>1, <2>1, <2>2 DEF Fits
  <2>4. Pend(R, c.sig) \in Procs(program) /\ Sound(program, Pend(R, c.sig))
        /\ Pend(R, c.sig).state = R.state /\ Pend(R, c.sig).parent = R.parent /\ Pend(R, c.sig).buf = R.buf
    BY <1>1, <2>1, <2>2, <2>3, SoundPend
  <2>5. R.state = "live" /\ R.parent = P.parent /\ R.buf = P.buf
    BY <1>1, <2>1, <2>2 DEF Stays, Live
  <2> QED  BY <1>2, <2>1, <2>2, <2>4, <2>5
<1>7. CASE Alarms(p)
  <2> DEFINE Q == [R EXCEPT !.alarm = c.on]
  <2>1. Does(p, "alarm") /\ Silent /\ Become(p, Q)  BY <1>7 DEF Alarms, R
  <2>2. "alarm" \notin ForkingOps  BY DEF ForkingOps
  <2>3. c.on = TRUE \/ c.on = FALSE  BY <1>1, <2>1, <2>2 DEF Fits
  <2>4. c.on \in BOOLEAN  BY <2>3
  <2>5. R \in Procs(program) /\ Sound(program, R) /\ R.state = "live" /\ R.parent = P.parent /\ R.buf = P.buf
    BY <1>1, <2>1, <2>2 DEF Stays, Live
  <2>6. /\ Q \in Procs(program) /\ Same(R, Q) /\ Q.pending = R.pending
        /\ Q.state = "live" /\ Q.parent = P.parent /\ Q.buf = P.buf
    BY <2>4, <2>5 DEF Procs, Same
  <2>7. program \in DOMAIN Code  BY DEF Typed
  <2> HIDE DEF Q
  <2>8. Sound(program, Q)  BY <2>5, <2>6, <2>7, SoundSame
  <2> QED  BY <1>2, <2>1, <2>2, <2>6, <2>8
<1>8. CASE Pauses(p)
  <2> DEFINE Q == [P EXCEPT !.waits = TRUE]
  <2>1. Does(p, "pause") /\ Silent /\ Become(p, Q)  BY <1>8 DEF Pauses
  <2>2. "pause" \notin ForkingOps  BY DEF ForkingOps
  <2>3. Q \in Procs(program) /\ Sound(program, Q)  BY <1>1, <2>1, <2>2, SoundWaits
  <2>4. Q.state = "live" /\ Q.parent = P.parent /\ Q.buf = P.buf
    BY <1>1, <2>1, <2>2 DEF Procs, Live
  <2> QED  BY <1>2, <2>1, <2>2, <2>3, <2>4
<1>9. CASE Suspends(p)
  <2> DEFINE Q == [P EXCEPT !.waits = TRUE, !.kept = <<P.mask>>, !.mask = c.sigs]
  <2>1. Does(p, "suspend") /\ Silent /\ Become(p, Q)  BY <1>9 DEF Suspends
  <2>2. "suspend" \notin ForkingOps  BY DEF ForkingOps
  <2>5. /\ P \in Procs(program) /\ Sound(program, P) /\ Works(program, P)
        /\ program \in DOMAIN Code /\ c = Asks(program, P) /\ c.op = "suspend"
    BY <1>1, <2>1, <2>2
  <2>6. LET X == [P EXCEPT !.waits = TRUE, !.kept = <<P.mask>>, !.mask = Asks(program, P).sigs]
        IN X \in Procs(program) /\ Sound(program, X)
    BY <2>5, SoundWaits
  <2>3. Q \in Procs(program) /\ Sound(program, Q)  BY <2>5, <2>6
  <2>4. Q.state = "live" /\ Q.parent = P.parent /\ Q.buf = P.buf
    BY <1>1, <2>1, <2>2 DEF Procs, Live
  <2> QED  BY <1>2, <2>1, <2>2, <2>3, <2>4
<1>10. P \in Procs(program) /\ program \in DOMAIN Code /\ (Live(p) => Sound(program, P))
  BY DEF Typed, AllSound, Live
<1>11. CASE Delivers(p)
  <2>1. Live(p) /\ Silent  BY <1>11 DEF Delivers
  <2>2. PICK s \in Due(P): P.action[s].h # "DFL" /\ Become(p, Delivered(P, s))
    BY <1>11 DEF Delivers
  <2>3. /\ Delivered(P, s) \in Procs(program) /\ Sound(program, Delivered(P, s)) /\ program \notin Forking
        /\ Delivered(P, s).state = P.state /\ Delivered(P, s).parent = P.parent
        /\ Delivered(P, s).buf = P.buf
    BY <1>10, <2>1, <2>2, SoundDelivered
  <2> QED  BY <2>1, <2>2, <2>3 DEF Handling, Live
<1>12. CASE Returns(p)
  <2> DEFINE Q == [P EXCEPT !.stack = Front(@), !.mask = Last(P.stack).saved]
  <2>1. Live(p) /\ Silent /\ Ended(P) /\ Become(p, Q)  BY <1>12 DEF Returns
  <2>2. Spot(P) > Len(Code[program][Fn(P)])
    BY <1>10, <2>1, CallIs, TopIs DEF Ended, Spot, Fn, Text
  <2>3. Q \in Procs(program) /\ Sound(program, Q) /\ program \notin Forking
    BY <1>10, <2>1, <2>2, SoundReturns
  <2>4. Q.state = "live" /\ Q.parent = P.parent /\ Q.buf = P.buf
    BY <1>10, <2>1 DEF Procs, Live
  <2> QED  BY <2>1, <2>3, <2>4 DEF Handling
<1>13. CASE SetsJmp(p)
  <2> DEFINE e == [depth |-> Depth(P), lands |-> c.lands, mask |-> IF c.saves THEN <<P.mask>> ELSE << >>]
             Q == [R EXCEPT !.env = [b \in DOMAIN @ \cup {c.env} |-> IF b = c.env THEN e ELSE @[b]]]
  <2>1. Does(p, "setjmp") /\ Silent /\ Become(p, Q)  BY <1>13 DEF SetsJmp, R
  <2>2. "setjmp" \notin ForkingOps  BY DEF ForkingOps
  <2>6. /\ P \in Procs(program) /\ Sound(program, P) /\ Works(program, P)
        /\ program \in DOMAIN Code /\ c = Asks(program, P) /\ c.op = "setjmp"
    BY <1>1, <2>1, <2>2
  <2>7. LET c0 == Asks(program, P)
            e0 == [depth |-> Depth(P), lands |-> c0.lands, mask |-> IF c0.saves THEN <<P.mask>> ELSE << >>]
            X == [After(P) EXCEPT !.env = [b \in DOMAIN @ \cup {c0.env} |-> IF b = c0.env THEN e0 ELSE @[b]]]
        IN X \in Procs(program) /\ Sound(program, X)
    BY <2>6, SoundSetsJmp
  <2>3. Q \in Procs(program) /\ Sound(program, Q)  BY <2>6, <2>7 DEF R
  <2>4. R \in Procs(program) /\ Stays(P, R)
    <3>1. P.stack # << >>  BY <1>10, <1>1, <2>1, <2>2, CallIs
    <3> QED  BY <1>10, <3>1, AfterIs, AtStays DEF R
  <2>5. Q.state = "live" /\ Q.parent = P.parent /\ Q.buf = P.buf
    BY <1>1, <2>1, <2>2, <2>4 DEF Stays, Procs, Live
  <2> QED  BY <1>2, <2>1, <2>2, <2>3, <2>5
<1>14. CASE LongJmps(p)
  <2>1. Does(p, "longjmp") /\ Silent  BY <1>14 DEF LongJmps
  <2>2. "longjmp" \notin ForkingOps  BY DEF ForkingOps
  <2>3. /\ P \in Procs(program) /\ Sound(program, P) /\ Works(program, P) /\ program \in DOMAIN Code
        /\ Live(p) /\ Fits(program, Fn(P), Spot(P), c) /\ program \notin Forking /\ c.op = "longjmp"
    BY <1>1, <2>1, <2>2
  <2>4. CASE c.env \in DOMAIN P.env
    <3> DEFINE Q == JumpsTo(P, P.env[c.env])
    <3>1. Become(p, Q)  BY <1>14, <2>4 DEF LongJmps
    <3>2. Q \in Procs(program) /\ Sound(program, Q)  BY <2>3, <2>4, SoundJumps DEF Works
    <3>3. Q.state = "live" /\ Q.parent = P.parent /\ Q.buf = P.buf
      BY <2>3 DEF JumpsTo, At, Procs, Live
    <3> QED  BY <1>2, <2>1, <2>2, <3>1, <3>2, <3>3
  <2>5. CASE c.env \notin DOMAIN P.env
    <3> DEFINE Q == [P EXCEPT !.wild = TRUE, !.state = "gone"]
    <3>1. Become(p, Q)  BY <1>14, <2>5 DEF LongJmps
    <3>2. program = "sigsetjmp1"
      <4>1. Needs(program, Fn(P), Spot(P)) \subseteq DOMAIN P.env
        BY <2>3, CallIs DEF Sound, Prepared, Fn, Spot
      <4> QED  BY <2>3, <2>5, <4>1 DEF Fits
    <3>3. /\ Q \in Procs(program) /\ Q.flag = P.flag /\ Q.stack = P.stack /\ Q.mask = P.mask
          /\ Q.own = P.own /\ Q.action = P.action /\ Q.env = P.env /\ Q.kept = P.kept
          /\ Q.waits = P.waits /\ Q.asked = P.asked /\ Q.pending = P.pending
          /\ Q.state = "gone" /\ Q.parent = P.parent /\ Q.buf = P.buf
      BY <2>3 DEF Procs
    <3> HIDE DEF Q
    <3>4. Stacked(program, Q) /\ Masked(program, Q) /\ Separate(program, Q) /\ Prepared(program, Q)
      BY <2>3, <3>2, <3>3 DEF Sound, Stacked, Masked, Separate, Prepared, Depth, Bottom
    <3> QED  BY <1>2, <2>1, <2>2, <3>1, <3>3, <3>4 DEF Sound
  <2> QED  BY <2>4, <2>5
<1> QED  BY <1>3, <1>4, <1>5, <1>6, <1>7, <1>8, <1>9, <1>11, <1>12, <1>13, <1>14

(* A signal arrives: from a timer or from a user. *)
LEMMA SignalledIs ==
  ASSUME Typed, AllSound, NEW p \in Pids
  PROVE  Rings(p) \/ (\E s \in UserSigs: Sends(p, s)) => Signalled(p)
<1> DEFINE P == proc[p]
<1>1. /\ P \in Procs(program) /\ program \in DOMAIN Code /\ sent \in Seq(Pids \X Sigs)
      /\ Live(p) => Sound(program, P)
  BY DEF Typed, AllSound, Live
<1>2. CASE Rings(p)
  <2> DEFINE R == [P EXCEPT !.alarm = FALSE]
             Q == Pend(R, "ALRM")
  <2>1. Live(p) /\ P.alarm /\ Silent /\ Become(p, Q)  BY <1>2 DEF Rings
  <2>2. /\ R \in Procs(program) /\ Same(P, R) /\ R.pending = P.pending /\ R.state = "live"
        /\ R.parent = P.parent /\ R.buf = P.buf /\ R.closed = P.closed
    BY <1>1, <2>1 DEF Procs, Same, Live
  <2> HIDE DEF R
  <2>3. Sound(program, R)  BY <1>1, <2>1, <2>2, SoundSame
  <2>4. "ALRM" \in Sigs  BY DEF Sigs
  <2>5. /\ Q \in Procs(program) /\ Sound(program, Q) /\ Same(R, Q)
        /\ Q.state = R.state /\ Q.parent = R.parent /\ Q.buf = R.buf /\ Q.closed = R.closed
    BY <1>1, <2>2, <2>3, <2>4, SoundPend
  <2>6. Q.stack = P.stack  BY <2>2, <2>5 DEF Same
  <2> QED  BY <1>1, <2>1, <2>2, <2>5, <2>6 DEF Signalled, Become
<1>3. ASSUME NEW s \in UserSigs, Sends(p, s) PROVE Signalled(p)
  <2> DEFINE Q == Pend(P, s)
  <2>1. Live(p) /\ sent' = Append(sent, <<p, s>>) /\ proc' = [proc EXCEPT ![p] = Q]
        /\ UNCHANGED <<program, tty, out>>
    BY <1>3 DEF Sends
  <2>2. s \in Sigs  BY DEF UserSigs, Handled, Sigs
  <2>3. /\ Q \in Procs(program) /\ Sound(program, Q) /\ Same(P, Q)
        /\ Q.state = P.state /\ Q.parent = P.parent /\ Q.buf = P.buf /\ Q.closed = P.closed
    BY <1>1, <2>1, <2>2, SoundPend
  <2>4. sent' \in Seq(Pids \X Sigs) /\ sent' # << >>
    <3>1. sent' \in Seq(Pids \X Sigs) /\ Len(sent') = Len(sent) + 1 /\ Len(sent) \in Nat
      BY <1>1, <2>1, <2>2
    <3>2. Len(<< >>) # Len(sent) + 1  BY <3>1
    <3> QED  BY <3>1, <3>2
  <2>5. Q.state = "live" /\ Q.stack = P.stack  BY <2>1, <2>3 DEF Live, Same
  <2>6. UNCHANGED <<program, tty>> /\ Silent  BY <2>1 DEF Silent
  <2> QED  BY <2>1, <2>3, <2>4, <2>5, <2>6 DEF Signalled
<1> QED  BY <1>2, <1>3

LEMMA Kinds ==
  ASSUME Typed, AllSound, [Next]_vars
  PROVE  \/ UNCHANGED vars
         \/ \E p \in Pids: \/ PrintLine(p) \/ WriteLine(p) \/ Forks(p) \/ Execs(p) \/ Reaps(p)
                           \/ Leaves(p) \/ Closes(p) \/ Moves(p) \/ Handling(p) \/ Signalled(p)
<1> SUFFICES ASSUME NEW p \in Pids,
                    Runs(p) \/ Reads(p) \/ Rings(p) \/ \E s \in UserSigs: Sends(p, s)
             PROVE  \/ PrintLine(p) \/ WriteLine(p) \/ Forks(p) \/ Execs(p) \/ Reaps(p)
                    \/ Leaves(p) \/ Closes(p) \/ Moves(p) \/ Handling(p) \/ Signalled(p)
  BY DEF Next
<1> QED  BY MovesAre, WaitsAre, HandlingIs, SignalledIs DEF Runs, Leaves

(* What the steps of processes that are not about signals change. *)
LEMMA MovesTo ==
  ASSUME Typed, AllSound, NEW p \in Pids, Moves(p)
  PROVE  \E n: LET Q == At(proc[p], n) IN
           /\ MayGo(Call(p), Spot(proc[p]), n)
           /\ Call(p).op = "fork" => n = Call(p).fails
           /\ Call(p).op = "wait" => n = Call(p).none /\ Children(p) = {}
           /\ Become(p, Q) /\ Q \in Procs(program) /\ Sound(program, Q)
           /\ Stays(proc[p], Q) /\ Fn(Q) = Fn(proc[p]) /\ Spot(Q) = n
<1> DEFINE P == proc[p]
<1>1. P \in Procs(program) /\ program \in DOMAIN Code /\ Sound(program, P)
  BY DEF Typed, AllSound, Moves, Live
<1>2. PICK n: /\ MayGo(Call(p), Spot(P), n) /\ Become(p, At(P, n))
              /\ Call(p).op = "fork" => n = Call(p).fails
              /\ Call(p).op = "wait" => n = Call(p).none /\ Children(p) = {}
              /\ Call(p).op = "ifZero" /\ n = Spot(P) + 1 => P.flag # 0
  BY DEF Moves
<1>3. Works(program, P) /\ Call(p) = Asks(program, P) /\ Call(p).op # "setjmp"  BY DEF Moves
<1>4. At(P, n) \in Procs(program) /\ Sound(program, At(P, n))  BY <1>1, <1>2, <1>3, SoundStep
<1>5. n \in Nat \ {0}
  <2>1. /\ Fn(P) \in DOMAIN Code[program] /\ Fits(program, Fn(P), Spot(P), Call(p))
    BY <1>1, <1>3, CallIs DEF Works
  <2>2. n \in Spots(program, Fn(P)) /\ Len(Code[program][Fn(P)]) \in Nat
    BY <1>1, <1>2, <2>1, CallsFit DEF Fits, Starts
  <2>3. CASE Fn(P) \in Bottoms \/ program = "sigsetjmp1"
    <3>1. n \in 1..(Len(Code[program][Fn(P)]) + 0)  BY <2>2, <2>3 DEF Spots
    <3> QED  BY <2>2, <3>1
  <2>4. CASE ~(Fn(P) \in Bottoms \/ program = "sigsetjmp1")
    <3>1. n \in 1..(Len(Code[program][Fn(P)]) + 1)  BY <2>2, <2>4 DEF Spots
    <3> QED  BY <2>2, <3>1
  <2> QED  BY <2>3, <2>4
<1>6. P.stack # << >>  BY <1>1, CallIs
<1>7. Stays(P, At(P, n)) /\ Fn(At(P, n)) = Fn(P) /\ Spot(At(P, n)) = n  BY <1>1, <1>5, <1>6, AtStays
<1> QED  BY <1>2, <1>4, <1>7

(* The call after, with other fields than Sound looks at changed. *)
Follows(p, Q) ==
  /\ Q \in Procs(program) /\ Sound(program, Q) /\ Become(p, Q) /\ Q.state = "live"
  /\ Q.parent = proc[p].parent /\ Q.pending = proc[p].pending /\ Q.alarm = proc[p].alarm
  /\ Fn(Q) = Fn(proc[p]) /\ Spot(Q) = Spot(proc[p]) + 1

LEMMA WritesTo ==
  ASSUME Typed, AllSound, NEW p \in Pids
  PROVE  /\ PrintLine(p) => \E Q: /\ Follows(p, Q) /\ Q.closed = proc[p].closed
                                  /\ \/ tty /\ Q.buf = proc[p].buf /\ Emit(proc[p], <<<<p, Call(p).line>>>>)
                                     \/ ~tty /\ Q.buf = Append(proc[p].buf, <<p, Call(p).line>>) /\ Silent
         /\ WriteLine(p) => \E Q: /\ Follows(p, Q) /\ Q.closed = proc[p].closed /\ Q.buf = proc[p].buf
                                  /\ Emit(proc[p], <<<<p, Call(p).line>>>>)
         /\ Closes(p) => \E Q: Follows(p, Q) /\ Q.closed /\ Q.buf = proc[p].buf /\ Silent
<1> DEFINE P == proc[p]
           R == After(P)
           l == <<p, Call(p).line>>
<1>1. ASSUME NEW op \in {"print", "write", "closeAll"}, Does(p, op)
      PROVE  /\ R \in Procs(program) /\ Sound(program, R) /\ Stays(P, R)
             /\ Fn(R) = Fn(P) /\ Spot(R) = Spot(P) + 1 /\ R.state = "live"
             /\ program \in DOMAIN Code /\ (op # "closeAll" => l \in Lines)
  <2>1. /\ P \in Procs(program) /\ Sound(program, P) /\ Works(program, P) /\ program \in DOMAIN Code
        /\ Live(p) /\ Call(p) = Asks(program, P) /\ Call(p).op = op
        /\ Fits(program, Fn(P), Spot(P), Call(p))
    BY <1>1, DoesIs
  <2>2. R \in Procs(program) /\ Sound(program, R) /\ Stays(P, R) /\ Fn(R) = Fn(P) /\ Spot(R) = Spot(P) + 1
    BY <2>1, SoundAfter
  <2>3. op # "closeAll" => l \in Lines  BY <2>1 DEF Fits, Lines
  <2> QED  BY <2>1, <2>2, <2>3 DEF Stays, Live
<1> HIDE DEF R, l
<1>2. ASSUME PrintLine(p)
      PROVE  \E Q: /\ Follows(p, Q) /\ Q.closed = proc[p].closed
                   /\ \/ tty /\ Q.buf = proc[p].buf /\ Emit(proc[p], <<l>>)
                      \/ ~tty /\ Q.buf = Append(proc[p].buf, l) /\ Silent
  <2>1. Does(p, "print")  BY <1>2 DEF PrintLine
  <2>2. CASE tty
    <3>1. Become(p, R) /\ Emit(P, <<l>>)  BY <1>2, <2>2 DEF PrintLine, R, l
    <3>2. Follows(p, R) /\ R.closed = P.closed /\ R.buf = P.buf
      BY <1>1, <2>1, <3>1 DEF Follows, Stays
    <3> QED  BY <2>2, <3>1, <3>2
  <2>3. CASE ~tty
    <3> DEFINE Q == [R EXCEPT !.buf = Append(@, l)]
    <3>1. Become(p, Q) /\ Silent  BY <1>2, <2>3 DEF PrintLine, R, l
    <3>2. R \in Procs(program) /\ l \in Lines /\ R.buf \in Seq(Lines)  BY <1>1, <2>1 DEF Procs
    <3>3. Append(R.buf, l) \in Seq(Lines)  BY <3>2
    <3>4. /\ Q \in Procs(program) /\ Same(R, Q) /\ Q.pending = R.pending /\ Q.state = R.state
          /\ Q.parent = R.parent /\ Q.alarm = R.alarm /\ Q.closed = R.closed /\ Q.buf = Append(R.buf, l)
      BY <3>2, <3>3 DEF Procs, Same
    <3> HIDE DEF Q
    <3>5. Sound(program, Q)  BY <1>1, <2>1, <3>4, SoundSame
    <3>6. Fn(Q) = Fn(R) /\ Spot(Q) = Spot(R)  BY <3>4 DEF Same, Fn, Spot, Depth
    <3>7. Follows(p, Q) /\ Q.closed = P.closed /\ Q.buf = Append(P.buf, l)
      BY <1>1, <2>1, <3>1, <3>4, <3>5, <3>6 DEF Follows, Stays
    <3> QED  BY <2>3, <3>1, <3>7
  <2> QED  BY <2>2, <2>3
<1>3. ASSUME WriteLine(p)
      PROVE  \E Q: Follows(p, Q) /\ Q.closed = P.closed /\ Q.buf = P.buf /\ Emit(P, <<l>>)
  <2>1. Does(p, "write") /\ Become(p, R) /\ Emit(P, <<l>>)  BY <1>3 DEF WriteLine, R, l
  <2>2. Follows(p, R) /\ R.closed = P.closed /\ R.buf = P.buf
    BY <1>1, <2>1 DEF Follows, Stays
  <2> QED  BY <2>1, <2>2
<1>4. ASSUME Closes(p)
      PROVE  \E Q: Follows(p, Q) /\ Q.closed /\ Q.buf = P.buf /\ Silent
  <2> DEFINE Q == [R EXCEPT !.closed = TRUE]
  <2>1. Does(p, "closeAll") /\ Silent /\ Become(p, Q)  BY <1>4 DEF Closes, R
  <2>2. /\ Q \in Procs(program) /\ Same(R, Q) /\ Q.pending = R.pending /\ Q.state = R.state
        /\ Q.parent = R.parent /\ Q.alarm = R.alarm /\ Q.closed /\ Q.buf = R.buf
    BY <1>1, <2>1 DEF Procs, Same
  <2> HIDE DEF Q
  <2>3. Sound(program, Q)  BY <1>1, <2>1, <2>2, SoundSame
  <2>4. Fn(Q) = Fn(R) /\ Spot(Q) = Spot(R)  BY <2>2 DEF Same, Fn, Spot, Depth
  <2>5. Follows(p, Q) /\ Q.closed /\ Q.buf = P.buf
    BY <1>1, <2>1, <2>2, <2>3, <2>4 DEF Follows, Stays
  <2> QED  BY <2>1, <2>5
<1> QED  BY <1>2, <1>3, <1>4 DEF l

LEMMA ForksTo ==
  ASSUME Typed, AllSound, NEW p \in Pids, Forks(p)
  PROVE  \E c \in Pids: \E Q, C \in Procs(program):
           /\ c # p /\ proc[c].state = "none" /\ \A q \in Pids: q < c => proc[q].state # "none"
           /\ proc' = [proc EXCEPT ![p] = Q, ![c] = C]
           /\ proc'[p] = Q /\ proc'[c] = C /\ \A q \in Pids \ {p, c}: proc'[q] = proc[q]
           /\ Sound(program, Q) /\ Stays(proc[p], Q)
           /\ Fn(Q) = Fn(proc[p]) /\ Spot(Q) = Spot(proc[p]) + 1
           /\ Sound(program, C) /\ C.state = "live" /\ C.parent = p /\ C.pending = {} /\ ~C.alarm
           /\ C.buf = proc[p].buf /\ C.closed = proc[p].closed
           /\ Fn(C) = Fn(proc[p]) /\ Spot(C) = Call(p).child
           /\ Does(p, "fork") /\ Silent /\ UNCHANGED <<program, tty, sent>>
<1> DEFINE P == proc[p]
           Q == After(P)
           D == At(P, Call(p).child)
           C == [D EXCEPT !.parent = p, !.pending = {}, !.alarm = FALSE]
<1>1. Does(p, "fork") /\ Silent /\ UNCHANGED <<program, tty, sent>>  BY DEF Forks
<1>2. PICK c \in Pids: /\ proc[c].state = "none" /\ \A q \in Pids: q < c => proc[q].state # "none"
                       /\ proc' = [proc EXCEPT ![p] = Q, ![c] = C]
  BY DEF Forks
<1>3. /\ P \in Procs(program) /\ Sound(program, P) /\ Works(program, P) /\ program \in DOMAIN Code
      /\ Live(p) /\ Call(p) = Asks(program, P) /\ Call(p).op = "fork"
      /\ Fits(program, Fn(P), Spot(P), Call(p))
  BY <1>1, DoesIs
<1>4. Q \in Procs(program) /\ Sound(program, Q) /\ Stays(P, Q) /\ Fn(Q) = Fn(P) /\ Spot(Q) = Spot(P) + 1
  BY <1>3, SoundAfter
<1>5. MayGo(Call(p), Spot(P), Call(p).child)  BY <1>3 DEF MayGo
<1>6. D \in Procs(program) /\ Sound(program, D)  BY <1>3, <1>5, SoundStep
<1>7. Call(p).child \in Nat \ {0} /\ P.stack # << >>
  <2>1. /\ P.stack # << >> /\ Fn(P) \in DOMAIN Code[program] /\ Len(Code[program][Fn(P)]) \in Nat
    BY <1>3, CallIs
  <2>2. Call(p).child \in Spots(program, Fn(P))  BY <1>3, <1>5 DEF Fits
  <2>3. CASE Fn(P) \in Bottoms \/ program = "sigsetjmp1"
    <3>1. Call(p).child \in 1..(Len(Code[program][Fn(P)]) + 0)  BY <2>2, <2>3 DEF Spots
    <3> QED  BY <2>1, <3>1
  <2>4. CASE ~(Fn(P) \in Bottoms \/ program = "sigsetjmp1")
    <3>1. Call(p).child \in 1..(Len(Code[program][Fn(P)]) + 1)  BY <2>2, <2>4 DEF Spots
    <3> QED  BY <2>1, <3>1
  <2> QED  BY <2>1, <2>3, <2>4
<1>8. Stays(P, D) /\ Fn(D) = Fn(P) /\ Spot(D) = Call(p).child  BY <1>3, <1>7, AtStays
<1> HIDE DEF D, Q
<1>9. /\ C \in Procs(program) /\ Same(D, C) /\ C.pending = {} /\ ~C.alarm /\ C.parent = p
      /\ C.state = D.state /\ C.buf = D.buf /\ C.closed = D.closed
  BY <1>6 DEF Procs, Same
<1> HIDE DEF C
<1>10. Sound(program, C)  BY <1>3, <1>6, <1>9, SoundSame
<1>11. Fn(C) = Fn(P) /\ Spot(C) = Call(p).child  BY <1>8, <1>9 DEF Same, Fn, Spot, Depth
<1>12. C.state = "live" /\ C.buf = P.buf /\ C.closed = P.closed
  BY <1>3, <1>8, <1>9 DEF Stays, Live
<1>13. c # p  BY <1>2, <1>3 DEF Live
<1>14. proc \in [Pids -> Procs(program)]  BY DEF Typed
<1>15. proc'[p] = Q /\ proc'[c] = C /\ \A q \in Pids \ {p, c}: proc'[q] = proc[q]
  BY <1>2, <1>13, <1>14
<1> QED  BY <1>1, <1>2, <1>4, <1>9, <1>10, <1>11, <1>12, <1>13, <1>15

LEMMA ExecsTo ==
  ASSUME Typed, AllSound, NEW p \in Pids, Execs(p)
  PROVE  \E Q: /\ Q \in Procs(program) /\ Sound(program, Q) /\ Become(p, Q) /\ Silent
               /\ Q.state = "live" /\ Q.parent = proc[p].parent /\ Q.pending = proc[p].pending
               /\ Q.alarm = proc[p].alarm /\ Q.buf = << >> /\ Q.closed = proc[p].closed
               /\ Q.stack[1].fn = "image" /\ Q.stack[1].at = 1 /\ Depth(Q) = 1 /\ Does(p, "exec")
<1> DEFINE P == proc[p]
           F == Frame("image", 1, {})
           Q == [P EXCEPT !.stack = <<F>>, !.buf = << >>]
<1>1. Does(p, "exec") /\ Silent /\ Become(p, Q)  BY DEF Execs
<1>2. /\ P \in Procs(program) /\ Sound(program, P) /\ Works(program, P) /\ program \in DOMAIN Code
      /\ Live(p) /\ Call(p) = Asks(program, P) /\ Call(p).op = "exec"
  BY <1>1, DoesIs
<1>3. Q \in Procs(program) /\ Sound(program, Q)  BY <1>2, SoundExecs
<1>4. <<F>>[1].fn = "image" /\ <<F>>[1].at = 1 /\ Len(<<F>>) = 1  BY DEF Frame
<1> HIDE DEF F
<1>5. /\ Q.state = P.state /\ Q.parent = P.parent /\ Q.pending = P.pending /\ Q.alarm = P.alarm
      /\ Q.buf = << >> /\ Q.closed = P.closed /\ Q.stack = <<F>>
  BY <1>2 DEF Procs
<1> HIDE DEF Q
<1> QED  BY <1>1, <1>2, <1>3, <1>4, <1>5 DEF Live, Depth

LEMMA ReapsTo ==
  ASSUME Typed, AllSound, NEW p \in Pids, Reaps(p)
  PROVE  \E c \in Pids: \E Q, C \in Procs(program):
           /\ c # p /\ proc[c].state = "zombie" /\ proc[c].parent = p
           /\ proc'[p] = Q /\ proc'[c] = C /\ \A q \in Pids \ {p, c}: proc'[q] = proc[q]
           /\ proc' \in [Pids -> Procs(program)]
           /\ Sound(program, Q) /\ Stays(proc[p], Q)
           /\ Fn(Q) = Fn(proc[p]) /\ Spot(Q) = Spot(proc[p]) + 1
           /\ Sound(program, C) /\ C.state = "gone" /\ C.parent = p /\ C.buf = proc[c].buf
           /\ Does(p, "wait") /\ Silent /\ UNCHANGED <<program, tty, sent>>
<1> DEFINE P == proc[p]
           Q == After(P)
<1>1. Does(p, "wait") /\ Silent  BY DEF Reaps
<1>2. PICK c \in Children(p): /\ proc[c].state = "zombie" /\ UNCHANGED <<program, tty, sent>>
                              /\ proc' = [proc EXCEPT ![p] = After(@), ![c].state = "gone"]
  BY DEF Reaps
<1>3. /\ P \in Procs(program) /\ Sound(program, P) /\ Works(program, P) /\ program \in DOMAIN Code
      /\ Live(p) /\ Call(p) = Asks(program, P) /\ Call(p).op = "wait"
  BY <1>1, DoesIs
<1>4. Q \in Procs(program) /\ Sound(program, Q) /\ Stays(P, Q) /\ Fn(Q) = Fn(P) /\ Spot(Q) = Spot(P) + 1
  BY <1>3, SoundAfter
<1>5. c \in Pids /\ c # p /\ proc[c].parent = p  BY <1>2, <1>3 DEF Live, Children
<1> DEFINE C == [proc[c] EXCEPT !.state = "gone"]
<1> HIDE DEF Q
<1>6. proc \in [Pids -> Procs(program)] /\ proc[c] \in Procs(program)  BY <1>5 DEF Typed
<1>7. /\ C \in Procs(program) /\ Same(proc[c], C) /\ C.pending = proc[c].pending /\ C.state = "gone"
      /\ C.parent = proc[c].parent /\ C.buf = proc[c].buf
  BY <1>6 DEF Procs, Same
<1>8. proc' = [proc EXCEPT ![p] = Q, ![c] = C]  BY <1>2, <1>5, <1>6 DEF Q
<1> HIDE DEF C
<1>9. Sound(program, C)
  <2>1. Sound(program, proc[c])  BY <1>2, <1>5 DEF AllSound
  <2> QED  BY <1>3, <1>6, <1>7, <2>1, SoundSame
<1>10. proc'[p] = Q /\ proc'[c] = C /\ (\A q \in Pids \ {p, c}: proc'[q] = proc[q])
       /\ proc' \in [Pids -> Procs(program)]
  BY <1>4, <1>5, <1>6, <1>7, <1>8
<1> QED  BY <1>1, <1>2, <1>4, <1>5, <1>7, <1>9, <1>10

LEMMA MainIn == \A pr \in DOMAIN Code: "main" \in DOMAIN Code[pr]
<1>1. /\ "main" \in DOMAIN Fork1 /\ "main" \in DOMAIN Wait1 /\ "main" \in DOMAIN Wait2
      /\ "main" \in DOMAIN Wait3 /\ "main" \in DOMAIN Wait4 /\ "main" \in DOMAIN Execl2
      /\ "main" \in DOMAIN Execv1 /\ "main" \in DOMAIN Daemon
  BY DEF Fork1, Wait1, Wait2, Wait3, Wait4, Execl2, Execv1, Daemon
<1>2. /\ "main" \in DOMAIN Signal1 /\ "main" \in DOMAIN Signal2 /\ "main" \in DOMAIN Alarm1
      /\ "main" \in DOMAIN Alarm2 /\ "main" \in DOMAIN PauseLoop /\ "main" \in DOMAIN Sigprocmask
      /\ "main" \in DOMAIN Sigaction1 /\ "main" \in DOMAIN Sigaction2
      /\ "main" \in DOMAIN Sigaction3 /\ "main" \in DOMAIN Sigpending
  BY DEF Signal1, Signal2, Alarm1, Alarm2, PauseLoop, Sigprocmask, Sigaction1, Sigaction2,
         Sigaction3, Sigpending
<1>3. /\ "main" \in DOMAIN Sigsetjmp1 /\ "main" \in DOMAIN Sigsetjmp2 /\ "main" \in DOMAIN Sigsetjmp3
      /\ "main" \in DOMAIN Sigsuspend1 /\ "main" \in DOMAIN Sigsuspend2
      /\ "main" \in DOMAIN Sigsuspend3
  BY DEF Sigsetjmp1, Sigsetjmp2, Sigsetjmp3, Sigsuspend1, Sigsuspend2, Sigsuspend3
<1> QED  BY <1>1, <1>2, <1>3 DEF Code

(* Processes that have not been started have nothing on their stack. *)
Unborn == \A p \in Pids: proc[p].state = "none" => proc[p].stack = << >> /\ ~proc[p].wild

Kernel == Typed /\ AllSound /\ Unborn

LEMMA OutStays ==
  ASSUME Typed, NEW P, NEW lines \in Seq(Lines), Emit(P, lines)
  PROVE  DOMAIN out' \subseteq Lines /\ out' \in [DOMAIN out' -> Nat \ {0}]
<1>1. DOMAIN out \subseteq Lines /\ out \in [DOMAIN out -> Nat \ {0}]  BY DEF Typed
<1>2. CASE P.closed
  BY <1>1, <1>2 DEF Emit
<1>3. CASE ~P.closed
  <2>1. out' = out (+) ToBag(lines)  BY <1>3 DEF Emit
  <2>2. Adds(Lines, out, lines, out')  BY <1>1, <2>1, BagsAdd
  <2> QED  BY <2>2 DEF Adds
<1> QED  BY <1>2, <1>3

(* How a process starts. *)
LEMMA FirstIs ==
  ASSUME NEW pr \in DOMAIN Code
  PROVE  LET P == [Nobody EXCEPT !.state = "live", !.stack = <<Frame("main", 1, {})>>]
         IN /\ Nobody \in Procs(pr) /\ Nobody.state = "none" /\ Nobody.stack = << >> /\ ~Nobody.wild
            /\ Nobody.parent = 0 /\ Nobody.buf = << >> /\ Nobody.pending = {} /\ ~Nobody.alarm
            /\ P \in Procs(pr) /\ Sound(pr, P) /\ P.state = "live" /\ P.parent = 0
            /\ P.buf = << >> /\ P.pending = {} /\ ~P.alarm /\ ~P.closed
            /\ P.stack[1].fn = "main" /\ P.stack[1].at = 1 /\ Depth(P) = 1
<1> DEFINE F == Frame("main", 1, {})
           P == [Nobody EXCEPT !.state = "live", !.stack = <<F>>]
<1>1. "main" \in DOMAIN Code[pr]  BY MainIn
<1>2. 1 \in Spots(pr, "main")  BY <1>1, CallsFit DEF Starts
<1>3. F \in Frames(pr) /\ F.fn = "main" /\ F.at = 1  BY <1>1 DEF Frames, Frame
<1>4. [s \in Sigs |-> Default] \in [Sigs -> Actions(pr)]  BY DEF Default, Actions
<1>5. [b \in {} |-> << >>] \in UNION {[D -> Marks(pr)]: D \in SUBSET Buffers}
      /\ DOMAIN [b \in {} |-> << >>] = {}
  OBVIOUS
<1>6. /\ Nobody \in Procs(pr) /\ Nobody.state = "none" /\ Nobody.stack = << >> /\ ~Nobody.wild
      /\ Nobody.parent = 0 /\ Nobody.buf = << >> /\ Nobody.pending = {} /\ ~Nobody.alarm
      /\ Nobody.mask = {} /\ Nobody.own = {} /\ Nobody.action = [s \in Sigs |-> Default]
      /\ DOMAIN Nobody.env = {} /\ ~Nobody.waits /\ Nobody.kept = << >> /\ Nobody.flag = 0
      /\ ~Nobody.closed /\ ~Nobody.asked
  BY <1>4, <1>5 DEF Nobody, Procs
<1>7. <<F>> \in Seq(Frames(pr)) /\ <<F>>[1] = F /\ Len(<<F>>) = 1 /\ <<F>> # << >>  BY <1>3
<1>8. /\ P \in Procs(pr) /\ P.state = "live" /\ P.stack = <<F>> /\ ~P.wild
      /\ P.parent = 0 /\ P.buf = << >> /\ P.pending = {} /\ ~P.alarm
      /\ P.mask = {} /\ P.own = {} /\ P.action = [s \in Sigs |-> Default]
      /\ DOMAIN P.env = {} /\ ~P.waits /\ P.kept = << >> /\ P.flag = 0
      /\ ~P.closed /\ ~P.asked
  BY <1>6, <1>7 DEF Procs
<1> HIDE DEF F, P
<1>9. Depth(P) = 1 /\ P.stack[1] = F  BY <1>7, <1>8 DEF Depth
<1>10. \A s \in Sigs: P.action[s].h = "DFL"  BY <1>8 DEF Default
<1>11. Stacked(pr, P)  BY <1>2, <1>3, <1>7, <1>8, <1>9, <1>10 DEF Stacked, Bottoms
<1>12. Masked(pr, P)  BY <1>8, <1>9, <1>10 DEF Masked, Bottom
<1>13. Separate(pr, P)  BY <1>8, <1>9, <1>10 DEF Separate
<1>14. Prepared(pr, P)
  <2>1. Needs(pr, "main", 1) = {} /\ Needs(pr, "DFL", 1) = {}  BY DEF Needs
  <2> QED  BY <1>3, <1>8, <1>9, <1>10, <2>1 DEF Prepared
<1> QED  BY <1>3, <1>6, <1>8, <1>9, <1>11, <1>12, <1>13, <1>14 DEF Sound, P, F

LEMMA KernelInit == Init => Kernel
<1> SUFFICES ASSUME Init PROVE Kernel  OBVIOUS
<1> DEFINE P == [Nobody EXCEPT !.state = "live", !.stack = <<Frame("main", 1, {})>>]
<1>1. /\ program \in DOMAIN Code /\ tty \in BOOLEAN /\ out = EmptyBag /\ sent = << >>
      /\ proc = [p \in Pids |-> IF p = 1 THEN P ELSE Nobody]
  BY DEF Init
<1>2. /\ Nobody \in Procs(program) /\ Nobody.state = "none" /\ Nobody.stack = << >> /\ ~Nobody.wild
      /\ P \in Procs(program) /\ Sound(program, P) /\ P.state = "live"
  BY <1>1, FirstIs
<1> HIDE DEF P
<1>3. DOMAIN out = {} /\ out \in [DOMAIN out -> Nat \ {0}]
  BY <1>1 DEF EmptyBag, SetToBag
<1>4. Typed  BY <1>1, <1>2, <1>3 DEF Typed
<1> QED  BY <1>1, <1>2, <1>4 DEF Kernel, AllSound, Unborn

LEMMA KernelNext == Kernel /\ [Next]_vars => Kernel'
<1> SUFFICES ASSUME Kernel, [Next]_vars PROVE Kernel'  OBVIOUS
<1>1. Typed /\ AllSound /\ Unborn  BY DEF Kernel
<1> DEFINE Steps == /\ proc' \in [Pids -> Procs(program')] /\ AllSound' /\ UNCHANGED <<program, tty>>
                    /\ \A q \in Pids: \/ proc'[q] = proc[q]
                                      \/ proc'[q].state # "none"
                                      \/ Same(proc[q], proc'[q]) /\ proc'[q].state = proc[q].state
           Sent == sent' \in Seq(Pids \X Sigs)
           Out  == DOMAIN out' \subseteq Lines /\ out' \in [DOMAIN out' -> Nat \ {0}]
<1>2. Steps /\ Sent /\ Out => Kernel'
  <2> SUFFICES ASSUME Steps, Sent, Out PROVE Kernel'  OBVIOUS
  <2>1. Typed'  BY <1>1 DEF Typed
  <2>2. Unborn'
    <3> SUFFICES ASSUME NEW q \in Pids, proc'[q].state = "none"
                 PROVE  proc'[q].stack = << >> /\ ~proc'[q].wild
      BY DEF Unborn
    <3> QED  BY <1>1 DEF Unborn, Same
  <2> QED  BY <2>1, <2>2 DEF Kernel
<1>3. Silent => Out  BY <1>1 DEF Typed, Silent
<1>4. UNCHANGED sent => Sent  BY <1>1 DEF Typed
<1>5. \A p \in Pids: Live(p) => proc[p].state # "none"  BY DEF Live
<1> HIDE DEF Sent, Out
<1>6. ASSUME NEW p \in Pids, NEW Q \in Procs(program), Sound(program, Q), Become(p, Q), Live(p),
             Q.state # "none"
      PROVE  Steps /\ Sent
  BY <1>1, <1>4, <1>5, <1>6, Becomes
<1>7. CASE UNCHANGED vars
  BY <1>1, <1>2, <1>3, <1>4, <1>7 DEF vars, Typed, AllSound, Silent
<1>8. ASSUME NEW p \in Pids,
             \/ PrintLine(p) \/ WriteLine(p) \/ Forks(p) \/ Execs(p) \/ Reaps(p)
             \/ Leaves(p) \/ Closes(p) \/ Moves(p) \/ Handling(p) \/ Signalled(p)
      PROVE  Steps /\ Sent /\ Out
  <2>1. CASE PrintLine(p) \/ WriteLine(p) \/ Closes(p)
    <3>1. PICK Q: /\ Follows(p, Q)
                  /\ \/ Emit(proc[p], <<<<p, Call(p).line>>>>) /\ (PrintLine(p) \/ WriteLine(p))
                     \/ Silent
      BY <1>1, <2>1, WritesTo
    <3>2. Does(p, "print") \/ Does(p, "write") \/ Does(p, "closeAll")
      BY <2>1 DEF PrintLine, WriteLine, Closes
    <3>3. Live(p) /\ Fits(program, Fn(proc[p]), Spot(proc[p]), Call(p))
          /\ (Does(p, "print") => Call(p).op = "print") /\ (Does(p, "write") => Call(p).op = "write")
      BY <1>1, <3>2, DoesIs
    <3>4. Steps /\ Sent  BY <1>6, <3>1, <3>3 DEF Follows
    <3>5. Out
      <4>1. CASE Silent  BY <1>3, <4>1
      <4>2. CASE Emit(proc[p], <<<<p, Call(p).line>>>>) /\ (PrintLine(p) \/ WriteLine(p))
        <5>1. <<p, Call(p).line>> \in Lines
          BY <3>3, <4>2 DEF PrintLine, WriteLine, Fits, Lines
        <5>2. <<<<p, Call(p).line>>>> \in Seq(Lines)  BY <5>1
        <5> QED  BY <1>1, <4>2, <5>2, OutStays DEF Out
      <4> QED  BY <3>1, <4>1, <4>2
    <3> QED  BY <3>4, <3>5
  <2>2. CASE Forks(p)
    <3>1. PICK c \in Pids: \E Q, C \in Procs(program):
           /\ c # p /\ proc[c].state = "none"
           /\ proc'[p] = Q /\ proc'[c] = C /\ \A q \in Pids \ {p, c}: proc'[q] = proc[q]
           /\ proc' = [proc EXCEPT ![p] = Q, ![c] = C]
           /\ Sound(program, Q) /\ Q.state = proc[p].state
           /\ Sound(program, C) /\ C.state = "live" 
           /\ Does(p, "fork") /\ Silent /\ UNCHANGED <<program, tty, sent>>
      BY <1>1, <2>2, ForksTo DEF Stays
    <3>2. proc' \in [Pids -> Procs(program')]  BY <1>1, <3>1 DEF Typed
    <3>3. Live(p) /\ proc'[p].state # "none"  BY <3>1 DEF Does, Live
    <3>4. AllSound'  BY <1>1, <3>1 DEF AllSound
    <3> QED  BY <1>3, <1>4, <1>5, <3>1, <3>2, <3>3, <3>4
  <2>3. CASE Execs(p)
    <3>1. PICK Q: /\ Q \in Procs(program) /\ Sound(program, Q) /\ Become(p, Q) /\ Silent
                  /\ Q.state = "live" /\ Does(p, "exec")
      BY <1>1, <2>3, ExecsTo
    <3>2. Live(p)  BY <3>1 DEF Does
    <3> QED  BY <1>3, <1>6, <3>1, <3>2
  <2>4. CASE Reaps(p)
    <3>1. PICK c \in Pids: \E Q, C \in Procs(program):
           /\ c # p /\ proc[c].state = "zombie"
           /\ proc'[p] = Q /\ proc'[c] = C /\ \A q \in Pids \ {p, c}: proc'[q] = proc[q]
           /\ proc' \in [Pids -> Procs(program)]
           /\ Sound(program, Q) /\ Q.state = proc[p].state
           /\ Sound(program, C) /\ C.state = "gone"
           /\ Does(p, "wait") /\ Silent /\ UNCHANGED <<program, tty, sent>>
      BY <1>1, <2>4, ReapsTo DEF Stays
    <3>2. Live(p) /\ proc'[p].state # "none"  BY <3>1 DEF Does, Live
    <3>3. AllSound'  BY <1>1, <3>1 DEF AllSound
    <3> QED  BY <1>3, <1>4, <1>5, <3>1, <3>2, <3>3
  <2>5. CASE Leaves(p)
    <3>1. Live(p) /\ End(p) /\ (Silent \/ Emit(proc[p], proc[p].buf))
      BY <2>5 DEF Leaves, Exits, Dies, Terminated, Does
    <3>2. Steps /\ UNCHANGED sent
      <4>1. /\ proc' \in [Pids -> Procs(program')] /\ AllSound' /\ UNCHANGED <<program, tty, sent>>
            /\ proc'[p].state \in {"zombie", "gone"}
            /\ \A q \in Pids: Same(proc[q], proc'[q])
            /\ \A q \in Pids \ {p}: \/ proc'[q].state = proc[q].state
                                    \/ proc[q].state = "zombie" /\ proc'[q].state = "gone"
        BY <1>1, <3>1, Ends
      <4> QED  BY <1>5, <3>1, <4>1
    <3>3. proc[p].buf \in Seq(Lines)
      <4>1. proc[p] \in Procs(program)  BY <1>1 DEF Typed
      <4> QED  BY <4>1 DEF Procs
    <3>4. Out
      <4>1. CASE Silent  BY <1>3, <4>1
      <4>2. CASE Emit(proc[p], proc[p].buf)  BY <1>1, <3>3, <4>2, OutStays DEF Out
      <4> QED  BY <3>1, <4>1, <4>2
    <3> QED  BY <1>4, <3>2, <3>4
  <2>6. CASE Moves(p)
    <3>1. PICK n: LET Q == At(proc[p], n) IN
            /\ Become(p, Q) /\ Q \in Procs(program) /\ Sound(program, Q) /\ Q.state = proc[p].state
      BY <1>1, <2>6, MovesTo DEF Stays
    <3>2. Live(p) /\ Silent /\ proc[p].state # "none"  BY <1>5, <2>6 DEF Moves
    <3> HIDE DEF Steps
    <3> QED  BY <1>3, <1>6, <3>1, <3>2
  <2>7. CASE Handling(p)
    <3>1. PICK Q \in Procs(program): Sound(program, Q) /\ Become(p, Q) /\ Q.state \in {"live", "gone"}
      BY <2>7 DEF Handling
    <3>2. Live(p) /\ Silent /\ Q.state # "none"  BY <2>7, <3>1 DEF Handling
    <3> QED  BY <1>3, <1>6, <3>1, <3>2
  <2>8. CASE Signalled(p)
    <3>1. PICK Q \in Procs(program):
            Sound(program, Q) /\ proc' = [proc EXCEPT ![p] = Q] /\ Q.state = "live"
      BY <2>8 DEF Signalled
    <3>2. Live(p) /\ Silent /\ UNCHANGED <<program, tty>> /\ Sent  BY <2>8 DEF Signalled, Sent
    <3>3. /\ proc' \in [Pids -> Procs(program')] /\ proc'[p] = Q
          /\ \A q \in Pids \ {p}: proc'[q] = proc[q]
      BY <1>1, <3>1, <3>2 DEF Typed
    <3>4. AllSound'  BY <1>1, <3>1, <3>2, <3>3 DEF AllSound
    <3> QED  BY <1>3, <1>5, <3>1, <3>2, <3>3, <3>4
  <2> QED  BY <1>8, <2>1, <2>2, <2>3, <2>4, <2>5, <2>6, <2>7, <2>8
<1> QED  BY <1>1, <1>2, <1>7, <1>8, Kinds DEF Sent, Out

(* In every state the variables have their types and every process is      *)
(* sound: handlers are stacked above main; and in all programs but         *)
(* sigsetjmp1, of which it does not hold, the mask main asked for is to be *)
(* restored below them all, and jump buffers are set before their use.     *)
THEOREM KernelCorrect == Spec => []Kernel
BY KernelInit, KernelNext, PTL DEF Spec

(* Wherever signals and jumps have led main to, what is blocked is what    *)
(* main itself asked for; after sigsetjmp1's longjmp also INT.             *)
THEOREM MainMaskCorrect == Spec => []MainMask
<1>1. Kernel => MainMask
  <2> SUFFICES ASSUME Kernel, NEW p \in Pids, Live(p), Depth(proc[p]) = 1, proc[p].kept = << >>
               PROVE  proc[p].mask = proc[p].own \cup
                        (IF program = "sigsetjmp1" /\ proc[p].asked THEN {"INT"} ELSE {})
    BY DEF MainMask
  <2>1. Masked(program, proc[p])  BY DEF Kernel, AllSound, Sound, Live
  <2>2. CASE program # "sigsetjmp1"
    BY <2>1, <2>2 DEF Masked, Bottom
  <2>3. CASE program = "sigsetjmp1"
    <3>1. proc[p].own = {} /\ proc[p].mask = IF proc[p].asked THEN {"INT"} ELSE {}
      BY <2>1, <2>3 DEF Masked, Jumping
    <3> QED  BY <2>3, <3>1
  <2> QED  BY <2>2, <2>3
<1> QED  BY <1>1, KernelCorrect, PTL

(* sigaction3's two handlers are never both on the stack.                  *)
THEOREM HandlersApartCorrect == Spec => []HandlersApart
<1>1. Kernel => HandlersApart
  <2> SUFFICES ASSUME Kernel, program = "sigaction3", NEW p \in Pids
               PROVE  Cardinality({proc[p].stack[k].fn: k \in DOMAIN proc[p].stack}
                                    \cap {"handler1", "handler2"}) <= 1
    BY DEF HandlersApart
  <2> DEFINE S == proc[p].stack
             T == {S[k].fn: k \in DOMAIN S} \cap {"handler1", "handler2"}
  <2>1. \E h: T \subseteq {h}
    <3>1. CASE proc[p].state = "none"
      <4>1. S = << >>  BY <3>1 DEF Kernel, Unborn
      <4> QED  BY <4>1
    <3>2. CASE proc[p].state # "none"
      <4>1. Stacked(program, proc[p]) /\ Separate(program, proc[p])
        BY <3>2 DEF Kernel, AllSound, Sound
      <4>2. S[1].fn \notin {"handler1", "handler2"}  BY <4>1 DEF Stacked, Bottoms
      <4>3. \A k \in 2..Depth(proc[p]): S[k].fn = S[2].fn  BY <4>1 DEF Separate
      <4>4. S \in Seq(Frames(program))  BY DEF Kernel, Typed, Procs
      <4>5. DOMAIN S = 1..Len(S) /\ Depth(proc[p]) = Len(S) /\ Len(S) \in Nat  BY <4>4 DEF Depth
      <4>6. \A k \in DOMAIN S: k = 1 \/ k \in 2..Depth(proc[p])  BY <4>5
      <4>7. T \subseteq {S[2].fn}  BY <4>2, <4>3, <4>6
      <4> QED  BY <4>7
    <3> QED  BY <3>1, <3>2
  <2> HIDE DEF T
  <2>2. PICK h: T \subseteq {h}  BY <2>1
  <2>3. IsFiniteSet({h}) /\ Cardinality({h}) = 1  BY FS_Singleton
  <2>4. Cardinality(T) <= 1  BY <2>2, <2>3, FS_Subset
  <2> QED  BY <2>4 DEF T
<1> QED  BY <1>1, KernelCorrect, PTL

(* No program but sigsetjmp1 jumps through a buffer that is not set.       *)
THEOREM JumpsHomeCorrect == Spec => []JumpsHome
<1>1. Kernel => JumpsHome
  <2> SUFFICES ASSUME Kernel, program # "sigsetjmp1", NEW p \in Pids PROVE ~proc[p].wild
    BY DEF JumpsHome
  <2>1. CASE proc[p].state = "none"
    BY <2>1 DEF Kernel, Unborn
  <2>2. CASE proc[p].state # "none"
    BY <2>2 DEF Kernel, AllSound, Sound, Prepared
  <2> QED  BY <2>1, <2>2
<1> QED  BY <1>1, KernelCorrect, PTL

-----------------------------------------------------------------------------
(* What the programs with children ask for *)

(* What is true of call c at k of function f: what has been written is     *)
(* written once only if no line lies behind a step back to it, and if      *)
(* forks come before prints, or what the child inherits is never flushed.  *)
Sober(pr, f, k, c) ==
  /\ c.op \in {"print", "write"} => c.line \in Ahead(pr, f, k) /\ c.line \notin Ahead(pr, f, k + 1)
  /\ (c.op = "print" => ~Fresh(pr, f, k + 1))
  /\ \A n: MayGo(c, k, n) => /\ Ahead(pr, f, n) \subseteq Ahead(pr, f, k)
                            /\ (Fresh(pr, f, n) => Fresh(pr, f, k))
                            /\ (Doomed(pr, k) => Doomed(pr, n) \/ c.op = "closeAll")
  /\ c.op = "exit" => ~Doomed(pr, k)
  /\ c.op = "fork" => Doomed(pr, c.child) \/ Fresh(pr, f, k) \/ pr = "fork1"
  /\ c.op = "exec" => f = "main" /\ Ahead(pr, "image", 1) \subseteq Ahead(pr, f, k) /\ ~Doomed(pr, 1)

(* wait3 and wait4 get to call 6 and behind only when wait finds no        *)
(* children and in new processes, which never fork or wait there; they end *)
(* nowhere else.                                                           *)
Patient(pr, f, k, c) ==
  /\ c = Printf("all_children_terminated") => pr \in Waiters /\ f = "main" /\ k >= 6
  /\ pr \in Waiters =>
       /\ c.op \in {"fork", "wait"} => f = "main" /\ k < 6
       /\ c.op \in {"exit", "die", "exec"} => f = "image" \/ k >= 6
       /\ \A n: MayGo(c, k, n) /\ n >= 6 =>
            \/ f = "image" \/ k >= 6
            \/ c.op = "wait" /\ n = c.none /\ n # k + 1
            \/ c.op = "fork" /\ n = c.child /\ n \notin {c.fails, k + 1}

LEMMA ForkingFit ==
  ASSUME NEW pr \in Forking, NEW f \in DOMAIN Code[pr]
  PROVE  \A k \in 1..Len(Code[pr][f]): /\ Sober(pr, f, k, Code[pr][f][k])
                                      /\ Patient(pr, f, k, Code[pr][f][k])
<1> USE DEF Sober, Patient, MayGo, Ahead, Fresh, Doomed, Waiters
<1>1. CASE pr = "fork1"
  <2>1. Code[pr] = Fork1  BY <1>1 DEF Code
  <2>2. DOMAIN Fork1 = {"main"}  BY DEF Fork1
  <2>3. CASE f = "main"
    BY <1>1, <2>1, <2>2, <2>3 DEF Fork1, Printf, Write, Fork, Exit, Sleep
  <2> QED  BY <2>1, <2>2, <2>3
<1>2. CASE pr = "wait1"
  <2>1. Code[pr] = Wait1  BY <1>2 DEF Code
  <2>2. DOMAIN Wait1 = {"main"}  BY DEF Wait1
  <2>3. CASE f = "main"
    <3>1. \A k \in 1..Len(Code[pr][f]): Sober(pr, f, k, Code[pr][f][k])
      <4> DEFINE c(k) == Code[pr][f][k]
      <4> USE <1>2, <2>1, <2>3 DEF Wait1, Printf, Write, Fork, Wait, Exit, Die
      <4>1. \A k \in 1..Len(Code[pr][f]): c(k).op \in {"print", "write"} =>
              c(k).line \in Ahead(pr, f, k)
        OBVIOUS
      <4>2. \A k \in 1..Len(Code[pr][f]): c(k).op \in {"print", "write"} =>
              c(k).line \notin Ahead(pr, f, k + 1)
        OBVIOUS
      <4>3. \A k \in 1..Len(Code[pr][f]): \A n: MayGo(c(k), k, n) =>
              Ahead(pr, f, n) \subseteq Ahead(pr, f, k)
        OBVIOUS
      <4>4. \A k \in 1..Len(Code[pr][f]): \A n: MayGo(c(k), k, n) =>
              /\ (Fresh(pr, f, n) => Fresh(pr, f, k))
              /\ (Doomed(pr, k) => Doomed(pr, n) \/ c(k).op = "closeAll")
        OBVIOUS
      <4>5. \A k \in 1..Len(Code[pr][f]):
              /\ c(k).op = "print" => ~Fresh(pr, f, k + 1)
              /\ c(k).op = "exit" => ~Doomed(pr, k)
              /\ c(k).op = "fork" => Doomed(pr, c(k).child) \/ Fresh(pr, f, k) \/ pr = "fork1"
              /\ c(k).op # "exec"
        OBVIOUS
      <4> HIDE <1>2, <2>1, <2>3
      <4> HIDE DEF Wait1, Printf, Write, Fork, Wait, Exit, Die, MayGo, Ahead, Fresh, Doomed, c
      <4>6. \A k \in 1..Len(Code[pr][f]): Sober(pr, f, k, c(k))
        BY <4>1, <4>2, <4>3, <4>4, <4>5 DEF Sober
      <4> QED  BY <4>6 DEF c
    <3>2. \A k \in 1..Len(Code[pr][f]): Patient(pr, f, k, Code[pr][f][k])
      BY <1>2, <2>1, <2>2, <2>3 DEF Wait1, Printf, Write, Fork, Wait, Exit, Die
    <3> QED  BY <3>1, <3>2
  <2> QED  BY <2>1, <2>2, <2>3
<1>3. CASE pr = "wait2"
  <2>1. Code[pr] = Wait2  BY <1>3 DEF Code
  <2>2. DOMAIN Wait2 = {"main"}  BY DEF Wait2
  <2>3. CASE f = "main"
    BY <1>3, <2>1, <2>2, <2>3 DEF Wait2, Printf, Fork, Wait, Exit
  <2> QED  BY <2>1, <2>2, <2>3
<1>4. CASE pr = "wait3"
  <2>1. Code[pr] = Wait3  BY <1>4 DEF Code
  <2>2. DOMAIN Wait3 = {"main", "image"}  BY DEF Wait3
  <2>3. CASE f = "main"
    BY <1>4, <2>1, <2>2, <2>3 DEF Wait3, Printf, Fork, Exec, Wait, Exit, Goto, Image, Write
  <2>4. CASE f = "image"
    BY <1>4, <2>1, <2>2, <2>4 DEF Wait3, Printf, Fork, Exec, Wait, Exit, Goto, Image, Write
  <2> QED  BY <2>1, <2>2, <2>3, <2>4
<1>5. CASE pr = "wait4"
  <2>1. Code[pr] = Wait4  BY <1>5 DEF Code
  <2>2. DOMAIN Wait4 = {"main", "image"}  BY DEF Wait4, Wait3
  <2>3. CASE f = "main"
    BY <1>5, <2>1, <2>2, <2>3 DEF Wait4, Wait3, Printf, Fork, Exec, Wait, Exit, Goto, Image, Write
  <2>4. CASE f = "image"
    BY <1>5, <2>1, <2>2, <2>4 DEF Wait4, Wait3, Printf, Fork, Exec, Wait, Exit, Goto, Image, Write
  <2> QED  BY <2>1, <2>2, <2>3, <2>4
<1>6. CASE pr = "execl2"
  <2>1. Code[pr] = Execl2  BY <1>6 DEF Code
  <2>2. DOMAIN Execl2 = {"main", "image"}  BY DEF Execl2
  <2>3. CASE f = "main"
    BY <1>6, <2>1, <2>2, <2>3 DEF Execl2, Printf, Write, Fork, Exec, Exit, Image
  <2>4. CASE f = "image"
    BY <1>6, <2>1, <2>2, <2>4 DEF Execl2, Printf, Write, Fork, Exec, Exit, Image
  <2> QED  BY <2>1, <2>2, <2>3, <2>4
<1>7. CASE pr = "execv1"
  <2>1. Code[pr] = Execv1  BY <1>7 DEF Code
  <2>2. DOMAIN Execv1 = {"main", "image"}  BY DEF Execv1
  <2>3. CASE f = "main"
    BY <1>7, <2>1, <2>2, <2>3 DEF Execv1, Printf, Write, Fork, Exec, Wait, Exit, Goto, Image
  <2>4. CASE f = "image"
    BY <1>7, <2>1, <2>2, <2>4 DEF Execv1, Printf, Write, Fork, Exec, Wait, Exit, Goto, Image
  <2> QED  BY <2>1, <2>2, <2>3, <2>4
<1>8. CASE pr = "daemon"
  <2>1. Code[pr] = Daemon  BY <1>8 DEF Code
  <2>2. DOMAIN Daemon = {"main"}  BY DEF Daemon
  <2>3. CASE f = "main"
    BY <1>8, <2>1, <2>2, <2>3 DEF Daemon, Printf, Write, Fork, Exit, CloseAll
  <2> QED  BY <2>1, <2>2, <2>3
<1> QED  BY <1>1, <1>2, <1>3, <1>4, <1>5, <1>6, <1>7, <1>8 DEF Forking

-----------------------------------------------------------------------------
(* Children and their parents *)

(* Without handlers a process runs one function. *)
LEMMA OneFrame ==
  ASSUME NEW pr \in Forking, NEW P \in Procs(pr), Sound(pr, P)
  PROVE  /\ Depth(P) = 1 /\ Fn(P) = P.stack[1].fn /\ Spot(P) = P.stack[1].at
         /\ Fn(P) \in Bottoms /\ Spot(P) \in 1..Len(Code[pr][Fn(P)]) /\ Fn(P) \in DOMAIN Code[pr]
         /\ Fits(pr, Fn(P), Spot(P), Asks(pr, P))
         /\ Sober(pr, Fn(P), Spot(P), Asks(pr, P)) /\ Patient(pr, Fn(P), Spot(P), Asks(pr, P))
<1>1. pr \in DOMAIN Code  BY DEF Forking, Code
<1>2. Depth(P) = 1  BY DEF Sound, Stacked
<1>3. /\ Fn(P) \in DOMAIN Code[pr] /\ Spot(P) \in Spots(pr, Fn(P)) /\ Fn(P) \in Bottoms
      /\ Len(Code[pr][Fn(P)]) \in Nat
      /\ Spot(P) <= Len(Code[pr][Fn(P)]) => Fits(pr, Fn(P), Spot(P), Asks(pr, P))
  BY <1>1, <1>2, CallIs
<1>4. Spot(P) \in 1..(Len(Code[pr][Fn(P)]) + 0)  BY <1>3 DEF Spots
<1>5. Spot(P) \in 1..Len(Code[pr][Fn(P)])  BY <1>3, <1>4
<1>6. Sober(pr, Fn(P), Spot(P), Asks(pr, P)) /\ Patient(pr, Fn(P), Spot(P), Asks(pr, P))
  BY <1>3, <1>5, ForkingFit DEF Asks
<1> QED  BY <1>2, <1>3, <1>5, <1>6 DEF Fn, Spot

(* What a step that starts no process does to a process. *)
Ebbs(P, Q) ==
  /\ Q.parent = P.parent /\ (Q.state = "none" <=> P.state = "none")
  /\ Q.state = "live" => P.state = "live"
  /\ Q.state \in {"live", "zombie"} => P.state \in {"live", "zombie"}

Quits(p) == \/ PrintLine(p) \/ WriteLine(p) \/ Execs(p) \/ Reaps(p) \/ Leaves(p) \/ Closes(p)
            \/ Moves(p) \/ Handling(p) \/ Signalled(p)

LEMMA AllEbb ==
  ASSUME Typed, AllSound, NEW p \in Pids, Quits(p)
  PROVE  /\ \A q \in Pids: Ebbs(proc[q], proc'[q])
         /\ \A q \in Pids \ {p}: Live(q)' <=> Live(q)
         /\ UNCHANGED <<program, tty>> /\ Live(p) /\ (sent' = << >> => sent = << >>)
         /\ (sent' # << >> \/ proc[p].alarm \/ ~Signalled(p))
<1> DEFINE Goal == /\ \A q \in Pids: Ebbs(proc[q], proc'[q])
                   /\ \A q \in Pids \ {p}: Live(q)' <=> Live(q)
                   /\ UNCHANGED <<program, tty>> /\ Live(p) /\ (sent' = << >> => sent = << >>)
<1> SUFFICES Goal  BY DEF Signalled
<1>1. ASSUME NEW Q \in Procs(program), Sound(program, Q), Become(p, Q), Live(p),
             Q.state \in {"live", "gone", "zombie"}, Q.parent = proc[p].parent
      PROVE  Goal
  <2>1. /\ proc'[p] = Q /\ \A q \in Pids \ {p}: proc'[q] = proc[q]
        /\ UNCHANGED <<program, tty, sent>>
    BY <1>1, Becomes
  <2> QED  BY <1>1, <2>1 DEF Ebbs, Live
<1>2. CASE PrintLine(p) \/ WriteLine(p) \/ Closes(p)
  <2>1. PICK Q: Follows(p, Q)  BY <1>2, WritesTo
  <2>2. Live(p)  BY <1>2 DEF PrintLine, WriteLine, Closes, Does
  <2> QED  BY <1>1, <2>1, <2>2 DEF Follows
<1>3. CASE Execs(p)
  <2>1. PICK Q: /\ Q \in Procs(program) /\ Sound(program, Q) /\ Become(p, Q) /\ Q.state = "live"
                /\ Q.parent = proc[p].parent
    BY <1>3, ExecsTo
  <2>2. Live(p)  BY <1>3 DEF Execs, Does
  <2> QED  BY <1>1, <2>1, <2>2
<1>4. CASE Reaps(p)
  <2>1. PICK c \in Pids: \E Q, C \in Procs(program):
           /\ c # p /\ proc[c].state = "zombie" /\ proc[c].parent = p
           /\ proc'[p] = Q /\ proc'[c] = C /\ \A q \in Pids \ {p, c}: proc'[q] = proc[q]
           /\ Q.state = proc[p].state /\ Q.parent = proc[p].parent
           /\ C.state = "gone" /\ C.parent = p /\ UNCHANGED <<program, tty, sent>>
    BY <1>4, ReapsTo DEF Stays
  <2>2. Live(p)  BY <1>4 DEF Reaps, Does
  <2> QED  BY <2>1, <2>2 DEF Ebbs, Live
<1>5. CASE Leaves(p)
  <2>1. Live(p) /\ End(p)  BY <1>5 DEF Leaves, Exits, Dies, Terminated, Does
  <2>2. /\ UNCHANGED <<program, tty, sent>> /\ proc'[p].state \in {"zombie", "gone"}
        /\ \A q \in Pids: proc'[q].parent = proc[q].parent
        /\ \A q \in Pids \ {p}: \/ proc'[q].state = proc[q].state
                                \/ proc[q].state = "zombie" /\ proc'[q].state = "gone"
    BY <2>1, Ends
  <2> QED  BY <2>1, <2>2 DEF Ebbs, Live
<1>6. CASE Moves(p)
  <2>1. PICK n: LET Q == At(proc[p], n) IN
          /\ Become(p, Q) /\ Q \in Procs(program) /\ Sound(program, Q) /\ Stays(proc[p], Q)
    BY <1>6, MovesTo
  <2>2. Live(p)  BY <1>6 DEF Moves
  <2> HIDE DEF Goal
  <2> QED  BY <1>1, <2>1, <2>2 DEF Stays, Live
<1>7. CASE Handling(p)
  <2>1. PICK Q \in Procs(program): /\ Sound(program, Q) /\ Become(p, Q) /\ Q.state \in {"live", "gone"}
                                   /\ Q.parent = proc[p].parent
    BY <1>7 DEF Handling
  <2>2. Live(p)  BY <1>7 DEF Handling
  <2> QED  BY <1>1, <2>1, <2>2
<1>8. CASE Signalled(p)
  <2>1. PICK Q \in Procs(program): /\ proc' = [proc EXCEPT ![p] = Q] /\ Q.state = "live"
                                   /\ Q.parent = proc[p].parent
    BY <1>8 DEF Signalled
  <2>2. Live(p) /\ UNCHANGED <<program, tty>> /\ (sent' # << >> \/ sent' = sent)
    BY <1>8 DEF Signalled
  <2>3. proc'[p] = Q /\ \A q \in Pids \ {p}: proc'[q] = proc[q]  BY <2>1 DEF Typed
  <2> QED  BY <2>1, <2>2, <2>3 DEF Ebbs, Live
<1> QED  BY <1>2, <1>3, <1>4, <1>5, <1>6, <1>7, <1>8 DEF Quits

(* What such a step of wait3 or wait4 does. *)
LEMMA AllWait ==
  ASSUME Typed, AllSound, NEW p \in Pids, Quits(p), program \in Waiters
  PROVE  /\ \A q \in Pids \ {p}: Live(q) => /\ Alone(proc'[q]) = Alone(proc[q])
                                            /\ proc'[q].pending = proc[q].pending
                                            /\ proc'[q].alarm = proc[q].alarm
         /\ Live(p)' => /\ Alone(proc'[p]) => Alone(proc[p]) \/ Children(p) = {}
                        /\ Signalled(p) \/ (proc'[p].pending = proc[p].pending
                                            /\ proc'[p].alarm = proc[p].alarm)
         /\ ~Live(p)' => Alone(proc[p]) \/ proc[p].pending # {}
<1> DEFINE P == proc[p]
           Goal(Q) == /\ Alone(Q) => Alone(P) \/ Children(p) = {}
                      /\ Q.pending = P.pending /\ Q.alarm = P.alarm
           Rest == \A q \in Pids \ {p}: Live(q) => /\ Alone(proc'[q]) = Alone(proc[q])
                                                   /\ proc'[q].pending = proc[q].pending
                                                   /\ proc'[q].alarm = proc[q].alarm
<1>1. program \in Forking /\ program \in DOMAIN Code  BY DEF Waiters, Forking, Typed
<1>2. P \in Procs(program) /\ Sound(program, P) /\ Live(p)
  <2>1. Live(p)  BY AllEbb
  <2> QED  BY <2>1 DEF Typed, AllSound, Live
<1>3. /\ Depth(P) = 1 /\ Fn(P) = P.stack[1].fn /\ Spot(P) = P.stack[1].at
      /\ Patient(program, Fn(P), Spot(P), Asks(program, P)) /\ Fn(P) \in Bottoms
      /\ Spot(P) \in Nat
  BY <1>1, <1>2, OneFrame
<1>4. Alone(P) <=> Fn(P) = "image" \/ Spot(P) >= 6  BY <1>3 DEF Alone
<1>5. ASSUME NEW Q \in Procs(program), Sound(program, Q) PROVE Alone(Q) <=> Fn(Q) = "image" \/ Spot(Q) >= 6
  <2>1. Fn(Q) = Q.stack[1].fn /\ Spot(Q) = Q.stack[1].at  BY <1>1, <1>5, OneFrame
  <2> QED  BY <2>1 DEF Alone
<1>6. ASSUME NEW Q \in Procs(program), Sound(program, Q), Become(p, Q), Goal(Q), Q.state = "live"
      PROVE  Rest /\ Goal(proc'[p]) /\ Live(p)'
  <2>1. proc'[p] = Q /\ \A q \in Pids \ {p}: proc'[q] = proc[q]
    BY <1>6, Becomes
  <2> QED  BY <1>6, <2>1 DEF Live
<1> HIDE DEF Goal, Rest
<1>7. CASE PrintLine(p) \/ WriteLine(p) \/ Closes(p)
  <2>1. PICK Q: Follows(p, Q)  BY <1>7, WritesTo
  <2>2. PICK op \in {"print", "write", "closeAll"}: Does(p, op)
    BY <1>7 DEF PrintLine, WriteLine, Closes
  <2>3. Call(p) = Asks(program, P) /\ Call(p).op = op  BY <2>2, DoesIs
  <2>4. MayGo(Asks(program, P), Spot(P), Spot(P) + 1)  BY <2>3 DEF MayGo
  <2>5. Fn(P) # "image" /\ ~(Spot(P) >= 6) => ~(Spot(P) + 1 >= 6)
    BY <1>3, <2>3, <2>4 DEF Patient
  <2>6. Alone(Q) => Alone(P)  BY <1>4, <1>5, <2>1, <2>5 DEF Follows
  <2> QED  BY <1>6, <2>1, <2>6 DEF Follows, Goal, Rest
<1>8. CASE Execs(p)
  <2>1. PICK Q: /\ Q \in Procs(program) /\ Sound(program, Q) /\ Become(p, Q) /\ Q.state = "live"
                /\ Q.pending = P.pending /\ Q.alarm = P.alarm /\ Does(p, "exec")
    BY <1>8, ExecsTo
  <2>2. Call(p) = Asks(program, P) /\ Call(p).op = "exec"  BY <2>1, DoesIs
  <2>3. Alone(P)  BY <1>3, <1>4, <2>2 DEF Patient
  <2> QED  BY <1>6, <2>1, <2>3 DEF Goal, Rest
<1>9. CASE Reaps(p)
  <2>1. PICK c \in Pids: \E Q, C \in Procs(program):
           /\ c # p /\ proc[c].state = "zombie"
           /\ proc'[p] = Q /\ proc'[c] = C /\ \A q \in Pids \ {p, c}: proc'[q] = proc[q]
           /\ Sound(program, Q) /\ Stays(P, Q) /\ Fn(Q) = Fn(P) /\ Spot(Q) = Spot(P) + 1
    BY <1>9, ReapsTo
  <2>2. Does(p, "wait")  BY <1>9 DEF Reaps
  <2>3. Call(p) = Asks(program, P) /\ Call(p).op = "wait"  BY <2>2, DoesIs
  <2>4. MayGo(Asks(program, P), Spot(P), Spot(P) + 1)  BY <2>3 DEF MayGo
  <2>5. Fn(P) # "image" /\ ~(Spot(P) >= 6) => ~(Spot(P) + 1 >= 6)
    BY <1>3, <2>3, <2>4 DEF Patient
  <2>6. Alone(proc'[p]) => Alone(P)  BY <1>4, <1>5, <2>1, <2>5
  <2>7. Live(p)'  BY <1>2, <2>1 DEF Stays, Live
  <2>8. Goal(proc'[p])  BY <2>1, <2>6 DEF Stays, Goal
  <2>9. Rest  BY <2>1 DEF Rest, Live
  <2> QED  BY <2>7, <2>8, <2>9 DEF Goal, Rest
<1>10. CASE Leaves(p)
  <2>1. End(p)  BY <1>10 DEF Leaves, Exits, Dies, Terminated
  <2>2. /\ proc'[p].state \in {"zombie", "gone"}
        /\ \A q \in Pids: Same(proc[q], proc'[q]) /\ proc'[q].pending = proc[q].pending
                          /\ proc'[q].alarm = proc[q].alarm
    BY <1>2, <2>1, Ends
  <2>3. Rest  BY <2>2 DEF Rest, Same, Alone
  <2>4. ~Live(p)'  BY <2>2 DEF Live
  <2>5. CASE Does(p, "exit") \/ Does(p, "die")
    <3>1. Call(p) = Asks(program, P) /\ Call(p).op \in {"exit", "die"}  BY <2>5, DoesIs
    <3>2. Alone(P)  BY <1>3, <1>4, <3>1 DEF Patient
    <3> QED  BY <2>3, <2>4, <3>2 DEF Rest
  <2>6. CASE Terminated(p)
    <3>1. P.pending # {}  BY <2>6 DEF Terminated, Due
    <3> QED  BY <2>3, <2>4, <3>1 DEF Rest
  <2> QED  BY <1>10, <2>5, <2>6 DEF Leaves, Exits, Dies
<1>11. CASE Moves(p)
  <2>1. PICK n: LET Q == At(P, n) IN
          /\ MayGo(Call(p), Spot(P), n)
          /\ Call(p).op = "fork" => n = Call(p).fails
          /\ Call(p).op = "wait" => Children(p) = {}
          /\ Become(p, Q) /\ Q \in Procs(program) /\ Sound(program, Q)
          /\ Stays(P, Q) /\ Fn(Q) = Fn(P) /\ Spot(Q) = n
    BY <1>11, MovesTo
  <2> DEFINE Q == At(P, n)
  <2> HIDE DEF Q
  <2>2. /\ Become(p, Q) /\ Q \in Procs(program) /\ Sound(program, Q)
        /\ Stays(P, Q) /\ Fn(Q) = Fn(P) /\ Spot(Q) = n
    BY <2>1 DEF Q
  <2>3. Call(p) = Asks(program, P)  BY <1>11 DEF Moves
  <2>4. Alone(Q) => Alone(P) \/ Children(p) = {}
    BY <1>3, <1>4, <1>5, <2>1, <2>2, <2>3 DEF Patient
  <2>5. Goal(Q) /\ Q.state = "live"  BY <1>2, <2>2, <2>4 DEF Goal, Stays, Live
  <2> QED  BY <1>6, <2>2, <2>5 DEF Goal, Rest
<1>12. CASE Handling(p)
  BY <1>1, <1>12 DEF Handling
<1>13. CASE Signalled(p)
  <2>1. PICK Q \in Procs(program): /\ proc' = [proc EXCEPT ![p] = Q] /\ Q.state = "live"
                                   /\ Q.stack = P.stack
    BY <1>13 DEF Signalled
  <2>2. proc'[p] = Q /\ \A q \in Pids \ {p}: proc'[q] = proc[q]  BY <2>1 DEF Typed
  <2>3. Alone(Q) = Alone(P)  BY <2>1 DEF Alone
  <2> QED  BY <1>13, <2>1, <2>2, <2>3 DEF Live
<1> QED  BY <1>7, <1>8, <1>9, <1>10, <1>11, <1>12, <1>13 DEF Quits

LEMMA ForksOrQuits ==
  ASSUME Kernel, [Next]_vars
  PROVE  UNCHANGED vars \/ \E p \in Pids: Forks(p) \/ Quits(p)
BY Kinds DEF Kernel, Quits

LEMMA TreeNext ==
  ASSUME Kernel, Tree, [Next]_vars
  PROVE  Tree'
<1>1. Typed /\ AllSound  BY DEF Kernel
<1>2. CASE UNCHANGED vars
  BY <1>2 DEF Tree, vars
<1>3. ASSUME NEW p \in Pids, Quits(p) PROVE Tree'
  <2>1. \A q \in Pids: Ebbs(proc[q], proc'[q])  BY <1>1, <1>3, AllEbb
  <2>2. \A q \in Pids: proc'[q].parent = proc[q].parent /\ (proc'[q].state = "none" <=> proc[q].state = "none")
    BY <2>1 DEF Ebbs
  <2> QED  BY <2>2, PidsAssumption DEF Tree
<1>4. ASSUME NEW p \in Pids, Forks(p) PROVE Tree'
  <2>1. PICK c \in Pids: \E Q, C \in Procs(program):
           /\ c # p /\ proc[c].state = "none" /\ \A q \in Pids: q < c => proc[q].state # "none"
           /\ proc'[p] = Q /\ proc'[c] = C /\ \A q \in Pids \ {p, c}: proc'[q] = proc[q]
           /\ Q.state = proc[p].state /\ Q.parent = proc[p].parent
           /\ C.state = "live" /\ C.parent = p /\ Does(p, "fork")
    BY <1>1, <1>4, ForksTo DEF Stays
  <2>2. proc[p].state # "none"  BY <2>1 DEF Does, Live
  <2>3. p \in Nat /\ c \in Nat /\ p < c
    <3>1. p \in Nat /\ c \in Nat /\ ~(p > c)  BY <2>1, <2>2, PidsAssumption DEF Tree
    <3> QED  BY <2>1, <3>1
  <2>4. ASSUME NEW r \in Pids, proc'[r].state = "none"
        PROVE  \A q \in Pids: (q > r => proc'[q].state = "none") /\ proc'[q].parent # r
    <3>1. r # p /\ r # c /\ proc[r].state = "none"  BY <2>1, <2>2, <2>4
    <3>2. r \in Nat /\ c < r  BY <2>1, <2>3, <3>1, PidsAssumption
    <3>3. \A q \in Pids: (q > r => proc[q].state = "none" /\ q # p /\ q # c) /\ proc[q].parent # r
      <4>1. \A q \in Pids: (q > r => proc[q].state = "none") /\ proc[q].parent # r
        BY <3>1 DEF Tree
      <4> QED  BY <2>2, <2>3, <3>2, <4>1, PidsAssumption
    <3> QED  BY <2>1, <3>1, <3>3
  <2>5. proc'[1].state # "none"  BY <2>1, <2>2, PidsAssumption DEF Tree
  <2>6. ASSUME NEW q \in Pids \ {1}, proc'[q].state # "none"
        PROVE  proc'[q].parent \in Pids /\ proc'[q].parent < q
    BY <2>1, <2>2, <2>3, <2>6 DEF Tree
  <2> QED  BY <2>4, <2>5, <2>6 DEF Tree
<1> QED  BY <1>2, <1>3, <1>4, ForksOrQuits

LEMMA ChildlessNext ==
  ASSUME Kernel, Tree, Childless, [Next]_vars
  PROVE  Childless'
<1>1. Typed /\ AllSound  BY DEF Kernel
<1>2. CASE UNCHANGED vars
  BY <1>2 DEF Childless, vars, Live, Alone, Children
<1>3. ASSUME NEW p \in Pids, Quits(p) PROVE Childless'
  <2> SUFFICES ASSUME program' \in Waiters, NEW q \in Pids, Live(q)', Alone(proc'[q])
               PROVE  Children(q)' = {}
    BY DEF Childless
  <2>1. /\ \A r \in Pids: Ebbs(proc[r], proc'[r])
        /\ program' = program
    BY <1>1, <1>3, AllEbb
  <2>2. Children(q)' \subseteq Children(q) /\ Live(q)  BY <2>1 DEF Ebbs, Children, Live
  <2>3. Alone(proc[q]) \/ Children(q) = {}
    BY <1>1, <1>3, <2>1, <2>2, AllWait
  <2> QED  BY <2>1, <2>2, <2>3 DEF Childless
<1>4. ASSUME NEW p \in Pids, Forks(p) PROVE Childless'
  <2> SUFFICES ASSUME program' \in Waiters, NEW q \in Pids, Live(q)', Alone(proc'[q])
               PROVE  Children(q)' = {}
    BY DEF Childless
  <2>1. PICK c \in Pids: \E Q, C \in Procs(program):
           /\ c # p /\ proc[c].state = "none"
           /\ proc'[p] = Q /\ proc'[c] = C /\ \A r \in Pids \ {p, c}: proc'[r] = proc[r]
           /\ Sound(program, Q) /\ Q.parent = proc[p].parent /\ Q.state = proc[p].state
           /\ Fn(Q) = Fn(proc[p]) /\ Spot(Q) = Spot(proc[p]) + 1
           /\ C.parent = p /\ Does(p, "fork") /\ program' = program
    BY <1>1, <1>4, ForksTo DEF Stays
  <2>2. \A r \in Pids: proc'[r].parent # c
    <3>1. \A r \in Pids: proc[r].parent # c  BY <2>1 DEF Tree
    <3> QED  BY <2>1, <3>1
  <2>3. CASE q = c
    BY <2>2, <2>3 DEF Children
  <2>4. CASE q = p
    <3>1. /\ proc[p] \in Procs(program) /\ Sound(program, proc[p]) /\ Call(p) = Asks(program, proc[p])
          /\ Call(p).op = "fork"
      BY <1>1, <2>1, DoesIs
    <3>2. program \in Forking  BY <2>1 DEF Waiters, Forking
    <3>3. /\ Patient(program, Fn(proc[p]), Spot(proc[p]), Call(p)) /\ Spot(proc[p]) \in Nat
      BY <3>1, <3>2, OneFrame
    <3>4. Fn(proc'[p]) = proc'[p].stack[1].fn /\ Spot(proc'[p]) = proc'[p].stack[1].at
      BY <2>1, <3>2, OneFrame
    <3>5. Fn(proc[p]) = "main" /\ Spot(proc[p]) < 6  BY <2>1, <3>1, <3>3 DEF Patient
    <3>6. ~(Spot(proc[p]) + 1 >= 6)
      <4>1. MayGo(Call(p), Spot(proc[p]), Spot(proc[p]) + 1)  BY <3>1 DEF MayGo
      <4> QED  BY <2>1, <3>1, <3>3, <3>5, <4>1 DEF Patient
    <3>7. ~Alone(proc'[p])  BY <2>1, <3>4, <3>5, <3>6 DEF Alone
    <3> QED  BY <2>4, <3>7
  <2>5. CASE q \notin {p, c}
    <3>1. proc'[q] = proc[q]  BY <2>1, <2>5
    <3>2. Live(q) /\ Alone(proc[q])  BY <3>1 DEF Live
    <3>3. ASSUME NEW r \in Pids, proc'[r].parent = q, proc'[r].state \in {"live", "zombie"}
          PROVE  proc[r].parent = q /\ proc[r].state \in {"live", "zombie"}
      BY <2>1, <2>5, <3>3
    <3>4. Children(q)' \subseteq Children(q)  BY <3>3 DEF Children
    <3> QED  BY <2>1, <3>2, <3>4 DEF Childless
  <2> QED  BY <2>3, <2>4, <2>5
<1> QED  BY <1>2, <1>3, <1>4, ForksOrQuits

LEMMA AttendedNext ==
  ASSUME Kernel, Tree, Childless, Attended, [Next]_vars
  PROVE  Attended'
<1>1. Typed /\ AllSound  BY DEF Kernel
<1>2. CASE UNCHANGED vars
  BY <1>2 DEF Attended, vars, Live
<1>3. ASSUME NEW p \in Pids, Quits(p) PROVE Attended'
  <2> SUFFICES ASSUME program' \in Waiters, sent' = << >>, NEW q \in Pids, Live(q)'
               PROVE  /\ proc'[q].pending = {} /\ ~proc'[q].alarm
                      /\ q # 1 => proc'[proc'[q].parent].state = "live"
    BY DEF Attended, Live
  <2>1. /\ \A r \in Pids: Ebbs(proc[r], proc'[r])
        /\ \A r \in Pids \ {p}: Live(r)' <=> Live(r)
        /\ program' = program /\ sent = << >> /\ Live(p)
        /\ proc[p].alarm \/ ~Signalled(p)
    BY <1>1, <1>3, AllEbb
  <2>2. Live(q) /\ proc'[q].parent = proc[q].parent  BY <2>1 DEF Ebbs, Live
  <2>3. \A r \in Pids: Live(r) => /\ proc[r].pending = {} /\ ~proc[r].alarm
                                  /\ r # 1 => Live(proc[r].parent)
    BY <2>1 DEF Attended
  <2>4. ~Signalled(p)  BY <2>1, <2>3
  <2>5. /\ \A r \in Pids \ {p}: Live(r) => /\ proc'[r].pending = proc[r].pending
                                           /\ proc'[r].alarm = proc[r].alarm
        /\ Live(p)' => proc'[p].pending = proc[p].pending /\ proc'[p].alarm = proc[p].alarm
        /\ ~Live(p)' => Alone(proc[p]) \/ proc[p].pending # {}
    BY <1>1, <1>3, <2>1, <2>4, AllWait
  <2>6. proc'[q].pending = {} /\ ~proc'[q].alarm  BY <2>2, <2>3, <2>5
  <2>7. ASSUME q # 1 PROVE proc'[proc[q].parent].state = "live"
    <3>1. Live(proc[q].parent) /\ proc[q].parent \in Pids
      <4>1. proc[q].state # "none"  BY <2>2 DEF Live
      <4> QED  BY <2>2, <2>3, <2>7, <4>1 DEF Tree
    <3>2. CASE proc[q].parent # p
      BY <2>1, <3>1, <3>2 DEF Live
    <3>3. CASE proc[q].parent = p
      <4>1. q \in Children(p)  BY <2>2, <3>3 DEF Children, Live
      <4>2. ~Alone(proc[p])  BY <2>1, <4>1 DEF Childless
      <4>3. Live(p)'  BY <2>1, <2>3, <2>5, <4>2
      <4> QED  BY <3>3, <4>3 DEF Live
    <3> QED  BY <3>2, <3>3
  <2> QED  BY <2>2, <2>6, <2>7
<1>4. ASSUME NEW p \in Pids, Forks(p) PROVE Attended'
  <2>1. PICK c \in Pids: \E Q, C \in Procs(program):
           /\ c # p /\ proc[c].state = "none"
           /\ proc'[p] = Q /\ proc'[c] = C /\ \A r \in Pids \ {p, c}: proc'[r] = proc[r]
           /\ Stays(proc[p], Q)
           /\ C.state = "live" /\ C.parent = p /\ C.pending = {} /\ ~C.alarm
           /\ Does(p, "fork") /\ program' = program /\ sent' = sent
    BY <1>1, <1>4, ForksTo
  <2>2. \A r \in Pids \ {c}: /\ Live(r)' <=> Live(r)
                             /\ proc'[r].parent = proc[r].parent
                             /\ proc'[r].pending = proc[r].pending /\ proc'[r].alarm = proc[r].alarm
    BY <2>1 DEF Stays, Live
  <2>3. Live(p)'  BY <2>1, <2>2 DEF Does
  <2>4. ~Live(c)  BY <2>1 DEF Live
  <2> SUFFICES ASSUME program' \in Waiters, sent' = << >>, NEW q \in Pids, Live(q)'
               PROVE  /\ proc'[q].pending = {} /\ ~proc'[q].alarm
                      /\ q # 1 => proc'[proc'[q].parent].state = "live"
    BY DEF Attended, Live
  <2>5. CASE q = c
    BY <2>1, <2>3, <2>5 DEF Live
  <2>6. CASE q # c
    <3>1. /\ proc[q].pending = {} /\ ~proc[q].alarm
          /\ q # 1 => Live(proc[q].parent)
      BY <2>1, <2>2, <2>6 DEF Attended
    <3>2. q # 1 => proc[q].parent \in Pids
      <4>1. proc[q].state # "none"  BY <2>2, <2>6 DEF Live
      <4> QED  BY <4>1 DEF Tree
    <3>3. q # 1 => proc'[proc[q].parent].state = "live"
      BY <2>2, <2>4, <3>1, <3>2 DEF Live
    <3> QED  BY <2>2, <2>6, <3>1, <3>3
  <2> QED  BY <2>5, <2>6
<1> QED  BY <1>2, <1>3, <1>4, ForksOrQuits

LEMMA FamilyInit == Init => Family
<1> SUFFICES ASSUME Init PROVE Family  OBVIOUS
<1> DEFINE P == [Nobody EXCEPT !.state = "live", !.stack = <<Frame("main", 1, {})>>]
<1>1. /\ program \in DOMAIN Code /\ proc = [p \in Pids |-> IF p = 1 THEN P ELSE Nobody]
  BY DEF Init
<1>2. /\ Nobody.state = "none" /\ Nobody.parent = 0 /\ P.state = "live" /\ P.parent = 0
      /\ P.pending = {} /\ ~P.alarm /\ P.stack[1].fn = "main" /\ P.stack[1].at = 1
  BY <1>1, FirstIs
<1> HIDE DEF P
<1>3. \A q \in Pids: q \in Nat /\ q # 0 /\ proc[q].parent = 0  BY <1>1, <1>2, PidsAssumption
<1>4. proc[1] = P /\ 1 \in Pids /\ \A q \in Pids \ {1}: proc[q] = Nobody  BY <1>1, PidsAssumption
<1>5. Tree
  <2>1. \A p \in Pids: proc[p].state = "none" =>
          \A q \in Pids: (q > p => proc[q].state = "none") /\ proc[q].parent # p
    <3> SUFFICES ASSUME NEW p \in Pids, proc[p].state = "none", NEW q \in Pids
                 PROVE  (q > p => proc[q].state = "none") /\ proc[q].parent # p
      OBVIOUS
    <3>1. p \in Nat /\ p # 0 /\ q \in Nat  BY <1>3
    <3>2. p # 1  BY <1>2, <1>4
    <3>3. q > p => q # 1  BY <3>1, <3>2
    <3> QED  BY <1>2, <1>3, <1>4, <3>1, <3>3
  <2> QED  BY <1>2, <1>4, <2>1 DEF Tree
<1>6. Childless
  <2> SUFFICES ASSUME NEW p \in Pids, Live(p), Alone(proc[p]) PROVE FALSE  BY DEF Childless
  <2>1. proc[p] = P  BY <1>2, <1>4 DEF Live
  <2> QED  BY <1>2, <2>1 DEF Alone
<1>7. Attended  BY <1>2, <1>4 DEF Attended, Live
<1> QED  BY <1>5, <1>6, <1>7 DEF Family

(* When wait3 and wait4 say that all children have terminated, they have;  *)
(* and if users sent nothing, no process is left but the first.            *)
THEOREM AllGoneCorrect == Spec => []AllGone
<1>1. Init => Kernel /\ Family  BY KernelInit, FamilyInit
<1>2. Kernel /\ Family /\ [Next]_vars => Kernel' /\ Family'
  BY KernelNext, TreeNext, ChildlessNext, AttendedNext DEF Family
<1>3. Kernel /\ Family => AllGone
  <2> SUFFICES ASSUME Kernel, Family, NEW p \in Pids, Live(p), Says(proc[p])
               PROVE  /\ Children(p) = {}
                      /\ p = 1 /\ sent = << >> => \A q \in Pids \ {1}: ~Live(q)
    BY DEF AllGone
  <2> DEFINE P == proc[p]
             c == Code[program]["main"][Spot(P)]
  <2>1. Tree /\ Childless /\ Attended /\ Typed /\ AllSound  BY DEF Family, Kernel
  <2>2. P \in Procs(program) /\ Sound(program, P) /\ program \in DOMAIN Code
    BY <2>1 DEF Typed, AllSound, Live
  <2>3. P.stack # << >>  BY <2>2, CallIs
  <2>4. Fn(P) = "main" /\ c = Printf("all_children_terminated")
    <3>1. Last(P.stack) = P.stack[Depth(P)]  BY <2>2, <2>3, TopIs
    <3> QED  BY <3>1 DEF Says, Text, Fn, Spot
  <2>5. c.op = "print"  BY <2>4 DEF Printf
  <2>6. program \in Forking
    <3>1. /\ Spot(P) \in Spots(program, "main") /\ Len(Code[program]["main"]) \in Nat
          /\ Spot(P) <= Len(Code[program]["main"]) => Fits(program, "main", Spot(P), Asks(program, P))
      BY <2>2, <2>4, CallIs
    <3>2. Spot(P) \in 1..(Len(Code[program]["main"]) + 0)  BY <3>1 DEF Spots, Bottoms
    <3>3. Fits(program, "main", Spot(P), c)  BY <2>4, <3>1, <3>2 DEF Asks
    <3> QED  BY <2>5, <3>3 DEF Fits
  <2>7. Patient(program, "main", Spot(P), c) /\ Spot(P) = P.stack[1].at
    <3>1. Patient(program, Fn(P), Spot(P), Asks(program, P)) /\ Spot(P) = P.stack[1].at
      BY <2>2, <2>6, OneFrame
    <3> QED  BY <2>4, <3>1 DEF Asks
  <2>8. program \in Waiters /\ Alone(P)  BY <2>4, <2>7 DEF Patient, Alone
  <2>9. Children(p) = {}  BY <2>1, <2>8 DEF Childless
  <2>10. ASSUME p = 1, sent = << >> PROVE \A q \in Pids \ {1}: ~Live(q)
    <3> DEFINE T == {q \in Pids \ {1}: Live(q)}
    <3> SUFFICES ASSUME T # {} PROVE FALSE  OBVIOUS
    <3>1. T \in SUBSET Nat  BY PidsAssumption
    <3>2. PICK q \in T: \A r \in T: q <= r  BY <3>1, LeastNat
    <3>3. Live(proc[q].parent) /\ proc[q].parent \in Pids /\ proc[q].parent < q
      BY <2>1, <2>8, <2>10, <3>2 DEF Attended, Tree, Live
    <3>4. proc[q].parent = 1
      <4>1. proc[q].parent \in Nat /\ q \in Nat  BY <3>2, <3>3, PidsAssumption
      <4> QED  BY <3>2, <3>3, <4>1
    <3>5. q \in Children(1)  BY <3>2, <3>4 DEF Children, Live
    <3> QED  BY <2>9, <2>10, <3>5
  <2> QED  BY <2>9, <2>10
<1> QED  BY <1>1, <1>2, <1>3, PTL DEF Spec

-----------------------------------------------------------------------------
(* What has been written *)

Held(P) == {P.buf[i]: i \in 1..Len(P.buf)}

(* Process p, with W written: what it may still write is neither written   *)
(* nor in its buffer, and what it will flush is its own and not written.   *)
Unwritten(pr, t, p, P, W) ==
  /\ \A x \in Ahead(pr, Fn(P), Spot(P)): <<p, x>> \notin W \cup Held(P)
  /\ t \/ Fresh(pr, Fn(P), Spot(P)) => P.buf = << >>
  /\ ~P.closed /\ ~Doomed(pr, Spot(P)) =>
       /\ \A l \in Held(P): l[1] = p /\ l \notin W
       /\ \A i, j \in 1..Len(P.buf): P.buf[i] = P.buf[j] => i = j

Owned ==
  /\ \A l \in DOMAIN out: out[l] = 1 /\ proc[l[1]].state # "none"
  /\ \A p \in Pids: proc[p].state # "none" => \A l \in Held(proc[p]): proc[l[1]].state # "none"

Quiet ==
  /\ program \notin Forking => DOMAIN out = {} /\ \A p \in Pids: proc[p].buf = << >>
  /\ Owned
  /\ program \in Forking => \A p \in Pids: Live(p) => Unwritten(program, tty, p, proc[p], DOMAIN out)

(* fork1 forks after a printf. *)
QuietBut == ~(program = "fork1" /\ ~tty) => Quiet

LEMMA EmitAdds ==
  ASSUME Typed, NEW P, NEW s \in Seq(Lines), Emit(P, s),
         \A i, j \in 1..Len(s): s[i] = s[j] => i = j,
         \A x \in Range(s): x \notin DOMAIN out
  PROVE  /\ P.closed => out' = out
         /\ ~P.closed => /\ DOMAIN out' = DOMAIN out \cup Range(s)
                         /\ \A l \in DOMAIN out: out'[l] = out[l]
                         /\ \A l \in Range(s): out'[l] = 1
<1>1. P.closed => out' = out  BY DEF Emit
<1>2. ASSUME ~P.closed
      PROVE  /\ DOMAIN out' = DOMAIN out \cup Range(s)
             /\ \A l \in DOMAIN out: out'[l] = out[l]
             /\ \A l \in Range(s): out'[l] = 1
  <2>1. out' = out (+) ToBag(s)  BY <1>2 DEF Emit
  <2>2. DOMAIN out \subseteq Lines /\ out \in [DOMAIN out -> Nat \ {0}]  BY DEF Typed
  <2>3. Adds(Lines, out, s, out')  BY <2>1, <2>2, BagsAdd
  <2> QED  BY <2>3 DEF Adds
<1> QED  BY <1>1, <1>2

LEMMA HeldIs == ASSUME NEW P, NEW S, P.buf \in Seq(S) PROVE Held(P) = Range(P.buf)
BY DEF Held, Range

LEMMA HeldNone ==
  ASSUME NEW P, P.buf = << >>
  PROVE  Held(P) = {} /\ \A i, j \in 1..Len(P.buf): P.buf[i] = P.buf[j] => i = j
<1>1. Len(<< >>) = 0  OBVIOUS
<1> QED  BY <1>1 DEF Held

(* A step of p alone, which writes the lines in N. *)
LEMMA QuietKeeps ==
  ASSUME Typed, Quiet, program \in Forking, UNCHANGED <<program, tty>>, NEW p \in Pids, Live(p),
         NEW N, \A l \in N: l[1] = p /\ l \notin DOMAIN out, DOMAIN out' = DOMAIN out \cup N,
         \A l \in DOMAIN out: out'[l] = out[l], \A l \in N: out'[l] = 1,
         \A q \in Pids: Ebbs(proc[q], proc'[q]),
         \A q \in Pids \ {p}: proc'[q].buf = proc[q].buf,
         \A q \in Pids \ {p}: Live(q) => proc'[q].stack = proc[q].stack /\ proc'[q].closed = proc[q].closed,
         \A l \in Held(proc'[p]): l \in Held(proc[p]) \/ l[1] = p,
         Live(p)' => Unwritten(program, tty, p, proc'[p], DOMAIN out')
  PROVE  Quiet'
<1>1. \A q \in Pids: (proc'[q].state = "none" <=> proc[q].state = "none") /\ (Live(q)' => Live(q))
  BY DEF Ebbs, Live
<1>2. proc[p].state # "none"  BY DEF Live
<1>3. \A l \in DOMAIN out: out[l] = 1 /\ proc[l[1]].state # "none" /\ l[1] \in Pids
  BY DEF Quiet, Owned, Typed, Lines
<1>4. \A q \in Pids: \A l \in Held(proc[q]): l[1] \in Pids
  <2> SUFFICES ASSUME NEW q \in Pids, NEW l \in Held(proc[q]) PROVE l[1] \in Pids  OBVIOUS
  <2>1. proc[q].buf \in Seq(Lines)  BY DEF Typed, Procs
  <2>2. l \in Lines  BY <2>1 DEF Held
  <2> QED  BY <2>2 DEF Lines
<1>5. Owned'
  <2>1. ASSUME NEW l \in DOMAIN out' PROVE out'[l] = 1 /\ proc'[l[1]].state # "none"
    <3>1. CASE l \in DOMAIN out  BY <1>1, <1>3, <3>1
    <3>2. CASE l \in N  BY <1>1, <1>2, <3>2
    <3> QED  BY <3>1, <3>2
  <2>2. ASSUME NEW q \in Pids, proc'[q].state # "none", NEW l \in Held(proc'[q])
        PROVE  proc'[l[1]].state # "none"
    <3>1. CASE l \in Held(proc[q])
      <4>1. proc[l[1]].state # "none"  BY <1>1, <2>2, <3>1 DEF Quiet, Owned
      <4> QED  BY <1>1, <1>4, <3>1, <4>1
    <3>2. CASE l \notin Held(proc[q])
      <4>1. q = p  BY <3>2, <2>2 DEF Held
      <4> QED  BY <1>1, <1>2, <2>2, <3>2, <4>1
    <3> QED  BY <3>1, <3>2
  <2> QED  BY <2>1, <2>2 DEF Owned
<1>6. ASSUME NEW q \in Pids, Live(q)'
      PROVE  Unwritten(program, tty, q, proc'[q], DOMAIN out')
  <2>1. CASE q = p  BY <1>6, <2>1
  <2>2. CASE q # p
    <3>1. /\ proc'[q].stack = proc[q].stack /\ proc'[q].closed = proc[q].closed
          /\ proc'[q].buf = proc[q].buf /\ Live(q)
      BY <1>1, <1>6, <2>2
    <3>2. Fn(proc'[q]) = Fn(proc[q]) /\ Spot(proc'[q]) = Spot(proc[q]) /\ Held(proc'[q]) = Held(proc[q])
      BY <3>1 DEF Fn, Spot, Depth, Held
    <3>3. Unwritten(program, tty, q, proc[q], DOMAIN out)  BY <3>1 DEF Quiet
    <3>4. \A x: <<q, x>> \notin N  BY <2>2
    <3>5. \A l \in Held(proc[q]): l[1] = q => l \notin N  BY <2>2
    <3> QED  BY <3>1, <3>2, <3>3, <3>4, <3>5 DEF Unwritten
  <2> QED  BY <2>1, <2>2
<1> QED  BY <1>5, <1>6 DEF Quiet

(* To another call, with nothing written. *)
LEMMA UnwrittenMoves ==
  ASSUME NEW pr, NEW t, NEW p, NEW P, NEW Q, NEW W, NEW c, Unwritten(pr, t, p, P, W),
         Sober(pr, Fn(P), Spot(P), c), MayGo(c, Spot(P), Spot(Q)), Fn(Q) = Fn(P),
         Q.buf = P.buf, Q.closed \/ (Q.closed = P.closed /\ c.op # "closeAll")
  PROVE  Unwritten(pr, t, p, Q, W)
<1>1. /\ Ahead(pr, Fn(Q), Spot(Q)) \subseteq Ahead(pr, Fn(P), Spot(P))
      /\ (Fresh(pr, Fn(Q), Spot(Q)) => Fresh(pr, Fn(P), Spot(P)))
      /\ (Doomed(pr, Spot(P)) => Doomed(pr, Spot(Q)) \/ c.op = "closeAll")
  BY DEF Sober
<1>2. Held(Q) = Held(P)  BY DEF Held
<1> QED  BY <1>1, <1>2 DEF Unwritten

(* To the next call, with line x written or put in the buffer. *)
LEMMA UnwrittenWrites ==
  ASSUME NEW pr, NEW t, NEW p, NEW P, NEW Q, NEW W, NEW W2, NEW c, Unwritten(pr, t, p, P, W),
         Sober(pr, Fn(P), Spot(P), c), c.op \in {"print", "write"},
         Fn(Q) = Fn(P), Spot(Q) = Spot(P) + 1, Q.closed = P.closed, P.buf \in Seq(Lines),
         \/ Q.buf = P.buf /\ W2 \subseteq W \cup {<<p, c.line>>}
         \/ ~t /\ c.op = "print" /\ Q.buf = Append(P.buf, <<p, c.line>>) /\ W2 = W
  PROVE  Unwritten(pr, t, p, Q, W2)
<1> DEFINE l == <<p, c.line>>
           A(R) == Ahead(pr, Fn(R), Spot(R))
<1>1. MayGo(c, Spot(P), Spot(Q))  BY DEF MayGo
<1>2. /\ A(Q) \subseteq A(P) /\ c.line \in A(P) /\ c.line \notin A(Q)
      /\ (Fresh(pr, Fn(Q), Spot(Q)) => Fresh(pr, Fn(P), Spot(P)))
      /\ (c.op = "print" => ~Fresh(pr, Fn(Q), Spot(Q)))
      /\ (Doomed(pr, Spot(P)) => Doomed(pr, Spot(Q)))
  BY <1>1 DEF Sober
<1>3. \A x \in A(P): <<p, x>> \notin W \cup Held(P)  BY DEF Unwritten
<1>4. l \notin W \cup Held(P)  BY <1>2, <1>3
<1>5. \A x \in A(Q): <<p, x>> # l  BY <1>2
<1> HIDE DEF A
<1>6. CASE Q.buf = P.buf /\ W2 \subseteq W \cup {l}
  <2>1. Held(Q) = Held(P)  BY <1>6 DEF Held
  <2>2. \A x \in A(Q): <<p, x>> \notin W2 \cup Held(Q)  BY <1>2, <1>3, <1>5, <1>6, <2>1
  <2>3. \A h \in Held(Q): h \notin W => h \notin W2  BY <1>4, <1>6, <2>1
  <2> QED  BY <1>2, <1>6, <2>1, <2>2, <2>3 DEF Unwritten, A
<1>7. CASE ~t /\ c.op = "print" /\ Q.buf = Append(P.buf, l) /\ W2 = W
  <2> DEFINE n == Len(P.buf)
  <2>1. /\ n \in Nat /\ Len(Q.buf) = n + 1 /\ Q.buf[n + 1] = l
        /\ \A i \in 1..n: Q.buf[i] = P.buf[i]
    BY <1>7
  <2>2. Held(Q) = Held(P) \cup {l}
    <3>1. 1..(n + 1) = (1..n) \cup {n + 1} /\ 1..Len(Q.buf) = 1..(n + 1)  BY <2>1
    <3>2. \A x: x \in Held(Q) <=> \E i \in (1..n) \cup {n + 1}: x = Q.buf[i]  BY <3>1 DEF Held
    <3>3. \A x: x \in Held(P) <=> \E i \in 1..n: x = P.buf[i]  BY DEF Held
    <3> HIDE DEF n, l
    <3> QED  BY <2>1, <3>2, <3>3
  <2>3. \A x \in A(Q): <<p, x>> \notin W2 \cup Held(Q)  BY <1>2, <1>3, <1>5, <1>7, <2>2
  <2>4. ASSUME ~Q.closed, ~Doomed(pr, Spot(Q))
        PROVE  /\ \A h \in Held(Q): h[1] = p /\ h \notin W2
               /\ \A i, j \in 1..Len(Q.buf): Q.buf[i] = Q.buf[j] => i = j
    <3>1. ~P.closed /\ ~Doomed(pr, Spot(P))  BY <1>2, <2>4
    <3>2. /\ \A h \in Held(P): h[1] = p /\ h \notin W
          /\ \A i, j \in 1..n: P.buf[i] = P.buf[j] => i = j
      BY <3>1 DEF Unwritten
    <3>3. \A h \in Held(Q): h[1] = p /\ h \notin W2  BY <1>4, <1>7, <2>2, <3>2
    <3>4. \A i \in 1..n: P.buf[i] # l  BY <1>4 DEF Held
    <3>5. \A i, j \in 1..Len(Q.buf): Q.buf[i] = Q.buf[j] => i = j
      <4> SUFFICES ASSUME NEW i \in 1..(n + 1), NEW j \in 1..(n + 1), Q.buf[i] = Q.buf[j] PROVE i = j
        BY <2>1
      <4>1. (i \in 1..n \/ i = n + 1) /\ (j \in 1..n \/ j = n + 1)  BY <2>1
      <4> QED  BY <2>1, <3>2, <3>4, <4>1
    <3> QED  BY <3>3, <3>5
  <2> QED  BY <1>2, <1>7, <2>3, <2>4 DEF Unwritten, A
<1> QED  BY <1>6, <1>7

(* What is known of a process about to make a call, in a program with      *)
(* children.                                                               *)
LEMMA QuietCall ==
  ASSUME Kernel, Quiet, program \in Forking, NEW p \in Pids, NEW op, Does(p, op)
  PROVE  /\ Live(p) /\ proc[p] \in Procs(program) /\ proc[p].buf \in Seq(Lines) /\ Call(p).op = op
         /\ Sober(program, Fn(proc[p]), Spot(proc[p]), Call(p))
         /\ Fits(program, Fn(proc[p]), Spot(proc[p]), Call(p))
         /\ Unwritten(program, tty, p, proc[p], DOMAIN out)
<1>1. /\ proc[p] \in Procs(program) /\ Sound(program, proc[p]) /\ Live(p)
      /\ Call(p) = Asks(program, proc[p]) /\ Call(p).op = op
      /\ Fits(program, Fn(proc[p]), Spot(proc[p]), Call(p))
  BY DoesIs DEF Kernel
<1>2. Sober(program, Fn(proc[p]), Spot(proc[p]), Call(p))  BY <1>1, OneFrame
<1>3. Unwritten(program, tty, p, proc[p], DOMAIN out)  BY <1>1 DEF Quiet
<1>4. proc[p].buf \in Seq(Lines)  BY <1>1 DEF Procs
<1> QED  BY <1>1, <1>2, <1>3, <1>4

(* Steps that write nothing, in programs with children. *)
LEMMA QuietSilent ==
  ASSUME Kernel, Quiet, program \in Forking, NEW p \in Pids,
         Closes(p) \/ Execs(p) \/ Reaps(p) \/ Moves(p) \/ Signalled(p) \/ (Leaves(p) /\ Silent)
  PROVE  Quiet'
<1> DEFINE P == proc[p]
           W == DOMAIN out
<1>1. Typed /\ AllSound /\ Quits(p)  BY DEF Kernel, Quits
<1>2. /\ \A q \in Pids: Ebbs(proc[q], proc'[q])
      /\ UNCHANGED <<program, tty>> /\ Live(p)
  BY <1>1, AllEbb
<1>3. out' = out  BY DEF Closes, Execs, Reaps, Moves, Signalled, Silent
<1>4. Unwritten(program, tty, p, P, W)  BY <1>2 DEF Quiet
<1> DEFINE Others == /\ \A q \in Pids \ {p}: proc'[q].buf = proc[q].buf
                     /\ \A q \in Pids \ {p}: Live(q) => /\ proc'[q].stack = proc[q].stack
                                                        /\ proc'[q].closed = proc[q].closed
           This == /\ \A l \in Held(proc'[p]): l \in Held(P) \/ l[1] = p
                   /\ Live(p)' => Unwritten(program, tty, p, proc'[p], W)
<1>5. ASSUME Others, This PROVE Quiet'
  <2> DEFINE N == {}
  <2>1. /\ \A l \in N: l[1] = p /\ l \notin DOMAIN out
        /\ DOMAIN out' = DOMAIN out \cup N
        /\ \A l \in DOMAIN out: out'[l] = out[l]
        /\ \A l \in N: out'[l] = 1
    BY <1>3
  <2>2. Live(p)' => Unwritten(program, tty, p, proc'[p], DOMAIN out')  BY <1>3, <1>5
  <2> HIDE DEF N
  <2> QED  BY <1>1, <1>2, <1>5, <2>1, <2>2, QuietKeeps
<1>6. ASSUME NEW Q \in Procs(program), Sound(program, Q), Become(p, Q) PROVE Others /\ proc'[p] = Q
  <2>1. /\ proc'[p] = Q /\ \A q \in Pids \ {p}: proc'[q] = proc[q]
    BY <1>1, <1>6, Becomes
  <2> QED  BY <2>1
<1> HIDE DEF Others
<1>7. CASE Closes(p)
  <2>1. PICK Q: Follows(p, Q) /\ Q.closed /\ Q.buf = P.buf  BY <1>1, <1>7, WritesTo
  <2>2. Does(p, "closeAll")  BY <1>7 DEF Closes
  <2>3. /\ Sober(program, Fn(P), Spot(P), Call(p)) /\ Call(p).op = "closeAll"
    BY <2>2, QuietCall
  <2>4. MayGo(Call(p), Spot(P), Spot(Q))  BY <2>1, <2>3 DEF MayGo, Follows
  <2>5. Unwritten(program, tty, p, Q, W)
    BY <1>4, <2>1, <2>3, <2>4, UnwrittenMoves DEF Follows
  <2>6. Others /\ proc'[p] = Q  BY <1>6, <2>1 DEF Follows
  <2>7. Held(Q) = Held(P)  BY <2>1 DEF Held
  <2> QED  BY <1>5, <2>5, <2>6, <2>7
<1>8. CASE Execs(p)
  <2>1. PICK Q: /\ Q \in Procs(program) /\ Sound(program, Q) /\ Become(p, Q) /\ Q.buf = << >>
                /\ Q.stack[1].fn = "image" /\ Q.stack[1].at = 1 /\ Depth(Q) = 1 /\ Does(p, "exec")
    BY <1>1, <1>8, ExecsTo
  <2>2. /\ Sober(program, Fn(P), Spot(P), Call(p)) /\ Call(p).op = "exec"
    BY <2>1, QuietCall
  <2>3. Fn(Q) = "image" /\ Spot(Q) = 1  BY <2>1 DEF Fn, Spot
  <2>4. Ahead(program, Fn(Q), Spot(Q)) \subseteq Ahead(program, Fn(P), Spot(P))
    BY <2>2, <2>3 DEF Sober
  <2>5. Held(Q) = {} /\ \A i, j \in 1..Len(Q.buf): Q.buf[i] = Q.buf[j] => i = j
    BY <2>1, HeldNone
  <2>6. Unwritten(program, tty, p, Q, W)  BY <1>4, <2>1, <2>4, <2>5 DEF Unwritten
  <2>7. Others /\ proc'[p] = Q  BY <1>6, <2>1
  <2> QED  BY <1>5, <2>5, <2>6, <2>7
<1>9. CASE Reaps(p)
  <2>1. PICK c \in Pids: \E Q, C \in Procs(program):
           /\ c # p /\ proc[c].state = "zombie"
           /\ proc'[p] = Q /\ proc'[c] = C /\ \A q \in Pids \ {p, c}: proc'[q] = proc[q]
           /\ Stays(P, Q) /\ Fn(Q) = Fn(P) /\ Spot(Q) = Spot(P) + 1
           /\ C.buf = proc[c].buf /\ Does(p, "wait")
    BY <1>1, <1>9, ReapsTo
  <2>2. /\ Sober(program, Fn(P), Spot(P), Call(p)) /\ Call(p).op = "wait"
    BY <2>1, QuietCall
  <2>3. MayGo(Call(p), Spot(P), Spot(proc'[p]))  BY <2>1, <2>2 DEF MayGo
  <2>4. Unwritten(program, tty, p, proc'[p], W)
    BY <1>4, <2>1, <2>2, <2>3, UnwrittenMoves DEF Stays
  <2>5. Held(proc'[p]) = Held(P)  BY <2>1 DEF Stays, Held
  <2>6. Others  BY <2>1 DEF Others, Live
  <2> QED  BY <1>5, <2>4, <2>5, <2>6
<1>10. CASE Moves(p)
  <2>1. PICK n: LET Q == At(P, n) IN
          /\ MayGo(Call(p), Spot(P), n) /\ Become(p, Q) /\ Q \in Procs(program) /\ Sound(program, Q)
          /\ Stays(P, Q) /\ Fn(Q) = Fn(P) /\ Spot(Q) = n
    BY <1>1, <1>10, MovesTo
  <2> DEFINE Q == At(P, n)
  <2> HIDE DEF Q
  <2>2. /\ MayGo(Call(p), Spot(P), Spot(Q)) /\ Become(p, Q) /\ Q \in Procs(program)
        /\ Sound(program, Q) /\ Stays(P, Q) /\ Fn(Q) = Fn(P)
    BY <2>1 DEF Q
  <2>3. Sober(program, Fn(P), Spot(P), Call(p)) /\ Call(p).op # "closeAll"
    <3>1. P \in Procs(program) /\ Sound(program, P)  BY <1>1, <1>2 DEF Typed, AllSound, Live
    <3> QED  BY <1>10, <3>1, OneFrame DEF Moves
  <2>4. Unwritten(program, tty, p, Q, W)
    BY <1>4, <2>2, <2>3, UnwrittenMoves DEF Stays
  <2>5. Others /\ proc'[p] = Q  BY <1>6, <2>2
  <2>6. Held(Q) = Held(P)  BY <2>2 DEF Stays, Held
  <2> QED  BY <1>5, <2>4, <2>5, <2>6
<1>11. CASE Signalled(p)
  <2>1. PICK Q \in Procs(program): /\ proc' = [proc EXCEPT ![p] = Q] /\ Q.stack = P.stack
                                   /\ Q.buf = P.buf /\ Q.closed = P.closed
    BY <1>11 DEF Signalled
  <2>2. proc'[p] = Q /\ \A q \in Pids \ {p}: proc'[q] = proc[q]  BY <1>1, <2>1 DEF Typed
  <2>3. Held(Q) = Held(P) /\ Fn(Q) = Fn(P) /\ Spot(Q) = Spot(P)
    BY <2>1 DEF Held, Fn, Spot, Depth
  <2>4. Unwritten(program, tty, p, Q, W)  BY <1>4, <2>1, <2>3 DEF Unwritten
  <2>5. Others  BY <2>2 DEF Others
  <2> QED  BY <1>5, <2>2, <2>3, <2>4, <2>5
<1>12. CASE Leaves(p)
  <2>1. End(p)  BY <1>12 DEF Leaves, Exits, Dies, Terminated
  <2>2. /\ proc'[p].state \in {"zombie", "gone"}
        /\ \A q \in Pids: Same(proc[q], proc'[q]) /\ proc'[q].buf = proc[q].buf
                          /\ proc'[q].closed = proc[q].closed
    BY <1>1, <1>2, <2>1, Ends
  <2>3. Others  BY <2>2 DEF Others, Same
  <2>4. Held(proc'[p]) = Held(P) /\ ~Live(p)'  BY <2>2 DEF Held, Live
  <2> QED  BY <1>5, <2>3, <2>4
<1> QED  BY <1>7, <1>8, <1>9, <1>10, <1>11, <1>12

LEMMA QuietWrites ==
  ASSUME Kernel, Quiet, program \in Forking, NEW p \in Pids, PrintLine(p) \/ WriteLine(p)
  PROVE  Quiet'
<1> DEFINE P == proc[p]
           W == DOMAIN out
           l == <<p, Call(p).line>>
<1>1. Typed /\ AllSound /\ Quits(p)  BY DEF Kernel, Quits
<1>2. /\ \A q \in Pids: Ebbs(proc[q], proc'[q])
      /\ UNCHANGED <<program, tty>> /\ Live(p)
  BY <1>1, AllEbb
<1>3. PICK op \in {"print", "write"}: Does(p, op)  BY DEF PrintLine, WriteLine
<1>4. /\ P.buf \in Seq(Lines) /\ Call(p).op = op /\ Sober(program, Fn(P), Spot(P), Call(p))
      /\ Fits(program, Fn(P), Spot(P), Call(p)) /\ Unwritten(program, tty, p, P, W)
  BY <1>3, QuietCall
<1>5. l \in Lines /\ l \notin W
  <2>1. Call(p).line \in Texts  BY <1>4 DEF Fits
  <2>2. Call(p).line \in Ahead(program, Fn(P), Spot(P))  BY <1>4 DEF Sober
  <2> QED  BY <1>4, <2>1, <2>2 DEF Lines, Unwritten
<1>6. PICK Q: /\ Follows(p, Q) /\ Q.closed = P.closed
              /\ \/ Q.buf = P.buf /\ Emit(P, <<l>>)
                 \/ ~tty /\ Q.buf = Append(P.buf, l) /\ Silent /\ Call(p).op = "print"
  <2>1. CASE PrintLine(p)
    <3>1. Does(p, "print")  BY <2>1 DEF PrintLine
    <3>2. Call(p).op = "print"  BY <3>1, QuietCall
    <3> QED  BY <1>1, <2>1, <3>2, WritesTo
  <2>2. CASE WriteLine(p)
    BY <1>1, <2>2, WritesTo
  <2> QED  BY <2>1, <2>2
<1> HIDE DEF l
<1>7. /\ proc'[p] = Q /\ \A q \in Pids \ {p}: proc'[q] = proc[q]
  BY <1>1, <1>6, Becomes DEF Follows
<1>8. l[1] = p  BY DEF l
<1>9. Fn(Q) = Fn(P) /\ Spot(Q) = Spot(P) + 1  BY <1>6 DEF Follows
<1>10. CASE Q.buf = P.buf /\ Emit(P, <<l>>)
  <2> DEFINE s == <<l>>
             N == IF P.closed THEN {} ELSE {l}
  <2>1. /\ s \in Seq(Lines) /\ Range(s) = {l} /\ \A i, j \in 1..Len(s): s[i] = s[j] => i = j
    BY <1>5 DEF Range
  <2>2. Emit(P, s)  BY <1>10
  <2> HIDE DEF s
  <2>3. /\ P.closed => out' = out
        /\ ~P.closed => /\ DOMAIN out' = W \cup {l}
                        /\ \A x \in W: out'[x] = out[x]
                        /\ out'[l] = 1
    BY <1>1, <1>5, <2>1, <2>2, EmitAdds
  <2>4. /\ \A x \in N: x[1] = p /\ x \notin DOMAIN out
        /\ DOMAIN out' = DOMAIN out \cup N
        /\ \A x \in DOMAIN out: out'[x] = out[x]
        /\ \A x \in N: out'[x] = 1
    BY <1>5, <1>8, <2>3
  <2>5. DOMAIN out' \subseteq W \cup {l}  BY <2>3
  <2>6. Unwritten(program, tty, p, Q, DOMAIN out')
    BY <1>3, <1>4, <1>6, <1>9, <1>10, <2>5, UnwrittenWrites DEF l
  <2>7. Held(proc'[p]) = Held(P)  BY <1>7, <1>10 DEF Held
  <2> HIDE DEF N
  <2> QED  BY <1>1, <1>2, <1>7, <2>4, <2>6, <2>7, QuietKeeps
<1>11. CASE ~tty /\ Q.buf = Append(P.buf, l) /\ Silent /\ Call(p).op = "print"
  <2> DEFINE N == {}
  <2>1. /\ \A x \in N: x[1] = p /\ x \notin DOMAIN out
        /\ DOMAIN out' = DOMAIN out \cup N
        /\ \A x \in DOMAIN out: out'[x] = out[x]
        /\ \A x \in N: out'[x] = 1
        /\ DOMAIN out' = W
    BY <1>11 DEF Silent
  <2>2. Unwritten(program, tty, p, Q, DOMAIN out')
    BY <1>4, <1>6, <1>9, <1>11, <2>1, UnwrittenWrites DEF l
  <2>3. \A x \in Held(Q): x \in Held(P) \/ x = l
    <3>1. /\ Len(P.buf) \in Nat /\ Len(Q.buf) = Len(P.buf) + 1 /\ Q.buf[Len(P.buf) + 1] = l
          /\ \A i \in 1..Len(P.buf): Q.buf[i] = P.buf[i]
      BY <1>4, <1>11
    <3>2. \A i \in 1..Len(Q.buf): i \in 1..Len(P.buf) \/ i = Len(P.buf) + 1  BY <3>1
    <3> QED  BY <3>1, <3>2 DEF Held
  <2> HIDE DEF N
  <2> QED  BY <1>1, <1>2, <1>7, <1>8, <2>1, <2>2, <2>3, QuietKeeps
<1> QED  BY <1>6, <1>10, <1>11

LEMMA QuietExits ==
  ASSUME Kernel, Quiet, program \in Forking, NEW p \in Pids, Exits(p)
  PROVE  Quiet'
<1> DEFINE P == proc[p]
           W == DOMAIN out
<1>1. Typed /\ AllSound /\ Quits(p)  BY DEF Kernel, Quits, Leaves
<1>2. /\ \A q \in Pids: Ebbs(proc[q], proc'[q])
      /\ UNCHANGED <<program, tty>> /\ Live(p)
  BY <1>1, AllEbb
<1>3. Does(p, "exit") /\ Emit(P, P.buf) /\ End(p)  BY DEF Exits
<1>4. /\ P.buf \in Seq(Lines) /\ Sober(program, Fn(P), Spot(P), Call(p)) /\ Call(p).op = "exit"
      /\ Unwritten(program, tty, p, P, W)
  BY <1>3, QuietCall
<1>5. ~Doomed(program, Spot(P))  BY <1>4 DEF Sober
<1>6. Held(P) = Range(P.buf)  BY <1>4, HeldIs
<1> DEFINE N == IF P.closed THEN {} ELSE Held(P)
<1>7. ~P.closed => /\ \A l \in Held(P): l[1] = p /\ l \notin W
                   /\ \A i, j \in 1..Len(P.buf): P.buf[i] = P.buf[j] => i = j
  BY <1>4, <1>5 DEF Unwritten
<1>8. /\ DOMAIN out' = DOMAIN out \cup N
      /\ \A l \in DOMAIN out: out'[l] = out[l]
      /\ \A l \in N: out'[l] = 1
  <2>1. CASE P.closed
    <3>1. out' = out  BY <1>3, <2>1 DEF Emit
    <3> QED  BY <2>1, <3>1
  <2>2. CASE ~P.closed
    <3>1. /\ DOMAIN out' = DOMAIN out \cup Range(P.buf)
          /\ \A l \in DOMAIN out: out'[l] = out[l]
          /\ \A l \in Range(P.buf): out'[l] = 1
      BY <1>1, <1>3, <1>4, <1>6, <1>7, <2>2, EmitAdds
    <3> QED  BY <1>6, <2>2, <3>1
  <2> QED  BY <2>1, <2>2
<1>9. \A l \in N: l[1] = p /\ l \notin DOMAIN out  BY <1>7
<1>10. /\ proc'[p].state \in {"zombie", "gone"}
       /\ \A q \in Pids: Same(proc[q], proc'[q]) /\ proc'[q].buf = proc[q].buf
                         /\ proc'[q].closed = proc[q].closed
  BY <1>1, <1>2, <1>3, Ends
<1>11. Held(proc'[p]) = Held(P) /\ ~Live(p)'  BY <1>10 DEF Held, Live
<1>12. \A q \in Pids: proc'[q].stack = proc[q].stack  BY <1>10 DEF Same
<1> HIDE DEF N
<1> QED  BY <1>1, <1>2, <1>8, <1>9, <1>10, <1>11, <1>12, QuietKeeps

LEMMA QuietForks ==
  ASSUME Kernel, Quiet, program \in Forking, ~(program = "fork1" /\ ~tty), NEW p \in Pids, Forks(p)
  PROVE  Quiet'
<1> DEFINE P == proc[p]
           W == DOMAIN out
<1>1. Typed /\ AllSound  BY DEF Kernel
<1>2. PICK c \in Pids, Q \in Procs(program), C \in Procs(program):
           /\ c # p /\ proc[c].state = "none"
           /\ proc'[p] = Q /\ proc'[c] = C /\ \A q \in Pids \ {p, c}: proc'[q] = proc[q]
           /\ Stays(P, Q) /\ Fn(Q) = Fn(P) /\ Spot(Q) = Spot(P) + 1
           /\ C.state = "live" /\ C.buf = P.buf /\ C.closed = P.closed
           /\ Fn(C) = Fn(P) /\ Spot(C) = Call(p).child
           /\ Does(p, "fork") /\ Silent /\ UNCHANGED <<program, tty, sent>>
  BY <1>1, ForksTo
<1>3. /\ P.buf \in Seq(Lines) /\ Sober(program, Fn(P), Spot(P), Call(p)) /\ Call(p).op = "fork"
      /\ Unwritten(program, tty, p, P, W) /\ Live(p)
  BY <1>2, QuietCall
<1>4. out' = out  BY <1>2 DEF Silent
<1>5. Held(Q) = Held(P) /\ Held(C) = Held(P)  BY <1>2 DEF Stays, Held
<1>6. \A q \in Pids: proc[q].state # "none" => proc'[q].state # "none"
  BY <1>2 DEF Stays
<1>7. /\ \A l \in W: out[l] = 1 /\ proc[l[1]].state # "none" /\ l[1] \in Pids
      /\ \A q \in Pids: proc[q].state # "none" => \A l \in Held(proc[q]): proc[l[1]].state # "none"
  BY <1>1 DEF Quiet, Owned, Typed, Lines
<1>8. \A l \in Held(P): proc[l[1]].state # "none"  BY <1>3, <1>7 DEF Live
<1>9. \A q \in Pids: \A l \in Held(proc[q]): l[1] \in Pids
  <2> SUFFICES ASSUME NEW q \in Pids, NEW l \in Held(proc[q]) PROVE l[1] \in Pids  OBVIOUS
  <2>1. proc[q].buf \in Seq(Lines)  BY <1>1 DEF Typed, Procs
  <2>2. l \in Lines  BY <2>1 DEF Held
  <2> QED  BY <2>2 DEF Lines
<1>10. Owned'
  <2>1. ASSUME NEW q \in Pids, proc'[q].state # "none", NEW l \in Held(proc'[q])
        PROVE  proc'[l[1]].state # "none"
    <3>1. CASE q \in {p, c}
      BY <1>2, <1>5, <1>6, <1>8, <1>9, <2>1, <3>1
    <3>2. CASE q \notin {p, c}
      BY <1>2, <1>6, <1>7, <1>9, <2>1, <3>2
    <3> QED  BY <3>1, <3>2
  <2> QED  BY <1>4, <1>6, <1>7, <2>1 DEF Owned
<1>11. Unwritten(program, tty, p, Q, W)
  <2>1. MayGo(Call(p), Spot(P), Spot(Q))  BY <1>2, <1>3 DEF MayGo
  <2> QED  BY <1>2, <1>3, <2>1, UnwrittenMoves DEF Stays
<1>12. Unwritten(program, tty, c, C, W)
  <2>1. MayGo(Call(p), Spot(P), Spot(C))  BY <1>2, <1>3 DEF MayGo
  <2>2. /\ Fresh(program, Fn(C), Spot(C)) => Fresh(program, Fn(P), Spot(P))
        /\ Doomed(program, Spot(C)) \/ Fresh(program, Fn(P), Spot(P)) \/ tty
    BY <1>2, <1>3, <2>1 DEF Sober
  <2>3. \A x: <<c, x>> \notin W \cup Held(C)  BY <1>2, <1>5, <1>7, <1>8
  <2>4. tty \/ Fresh(program, Fn(P), Spot(P)) => C.buf = << >>  BY <1>2, <1>3 DEF Unwritten
  <2>5. C.buf = << >> => Held(C) = {} /\ \A i, j \in 1..Len(C.buf): C.buf[i] = C.buf[j] => i = j
    BY HeldNone
  <2> QED  BY <2>2, <2>3, <2>4, <2>5 DEF Unwritten
<1>13. ASSUME NEW q \in Pids, Live(q)'
       PROVE  Unwritten(program, tty, q, proc'[q], W)
  <2>1. CASE q \notin {p, c}
    <3>1. proc'[q] = proc[q]  BY <1>2, <2>1
    <3> QED  BY <1>13, <3>1 DEF Quiet, Live
  <2> QED  BY <1>2, <1>11, <1>12, <2>1
<1> QED  BY <1>2, <1>4, <1>10, <1>13 DEF Quiet

(* The other programs print nothing.                                       *)
LEMMA QuietElse ==
  ASSUME Kernel, Quiet, program \notin Forking, [Next]_vars
  PROVE  Quiet'
<1>1. Typed /\ AllSound  BY DEF Kernel
<1>2. DOMAIN out = {} /\ \A q \in Pids: proc[q].buf = << >>  BY DEF Quiet
<1>3. CASE UNCHANGED vars
  BY <1>2, <1>3, HeldNone DEF vars, Quiet, Owned
<1>4. ASSUME NEW p \in Pids, NEW op \in {"print", "write", "fork", "exec", "wait", "closeAll"}, Does(p, op)
      PROVE  FALSE
  BY <1>1, <1>4, DoesIs DEF Fits
<1>5. ASSUME NEW p \in Pids, Forks(p) \/ Quits(p)
      PROVE  DOMAIN out' = {} /\ (\A q \in Pids: proc'[q].buf = << >>) /\ program' = program
  <2>1. Leaves(p) \/ Moves(p) \/ Handling(p) \/ Signalled(p)
    BY <1>4, <1>5 DEF Quits, Forks, PrintLine, WriteLine, Execs, Reaps, Closes
  <2>2. CASE Leaves(p)
    <3>1. Live(p) /\ End(p) /\ (Silent \/ Emit(proc[p], proc[p].buf))
      BY <2>2 DEF Leaves, Exits, Dies, Terminated, Does
    <3>2. /\ \A q \in Pids: proc'[q].buf = proc[q].buf
          /\ program' = program
      BY <1>1, <3>1, Ends
    <3>3. DOMAIN out' = {}
      <4>1. CASE Silent  BY <1>2, <4>1 DEF Silent
      <4>2. CASE Emit(proc[p], proc[p].buf)
        <5> DEFINE s == << >>
        <5>1. s \in Seq(Lines) /\ Range(s) = {} /\ \A i, j \in 1..Len(s): s[i] = s[j] => i = j
          BY DEF Range
        <5>2. Emit(proc[p], s)  BY <1>2, <4>2
        <5> HIDE DEF s
        <5>3. /\ proc[p].closed => out' = out
              /\ ~proc[p].closed => DOMAIN out' = DOMAIN out \cup Range(s)
          BY <1>1, <5>1, <5>2, EmitAdds
        <5> QED  BY <1>2, <5>1, <5>3
      <4> QED  BY <3>1, <4>1, <4>2
    <3> QED  BY <1>2, <3>2, <3>3
  <2>3. CASE Moves(p)
    <3>1. PICK n: LET Q == At(proc[p], n) IN
            /\ Become(p, Q) /\ Q \in Procs(program) /\ Sound(program, Q) /\ Q.buf = proc[p].buf
      BY <1>1, <2>3, MovesTo DEF Stays
    <3>2. Silent  BY <2>3 DEF Moves
    <3> DEFINE Q == At(proc[p], n)
    <3> HIDE DEF Q
    <3>3. Become(p, Q) /\ Q \in Procs(program) /\ Sound(program, Q) /\ Q.buf = proc[p].buf
      BY <3>1 DEF Q
    <3>4. proc'[p] = Q /\ (\A q \in Pids \ {p}: proc'[q] = proc[q]) /\ program' = program
      BY <1>1, <3>3, Becomes
    <3> QED  BY <1>2, <3>2, <3>3, <3>4 DEF Silent
  <2>4. CASE Handling(p)
    <3>1. PICK Q \in Procs(program): Sound(program, Q) /\ Become(p, Q) /\ Q.buf = proc[p].buf
      BY <2>4 DEF Handling
    <3>2. proc'[p] = Q /\ (\A q \in Pids \ {p}: proc'[q] = proc[q]) /\ program' = program
      BY <1>1, <3>1, Becomes
    <3> QED  BY <1>2, <2>4, <3>1, <3>2 DEF Handling, Silent
  <2>5. CASE Signalled(p)
    <3>1. PICK Q \in Procs(program): proc' = [proc EXCEPT ![p] = Q] /\ Q.buf = proc[p].buf
      BY <2>5 DEF Signalled
    <3>2. proc'[p] = Q /\ \A q \in Pids \ {p}: proc'[q] = proc[q]  BY <1>1, <3>1 DEF Typed
    <3> QED  BY <1>2, <2>5, <3>1, <3>2 DEF Signalled, Silent
  <2> QED  BY <2>1, <2>2, <2>3, <2>4, <2>5
<1>6. CASE \E p \in Pids: Forks(p) \/ Quits(p)
  <2>1. DOMAIN out' = {} /\ (\A q \in Pids: proc'[q].buf = << >>) /\ program' = program
    BY <1>5, <1>6
  <2>2. \A q \in Pids: Held(proc'[q]) = {}  BY <2>1, HeldNone
  <2> QED  BY <2>1, <2>2 DEF Quiet, Owned
<1> QED  BY <1>3, <1>6, ForksOrQuits

LEMMA QuietNext ==
  ASSUME Kernel, QuietBut, [Next]_vars
  PROVE  QuietBut'
<1>1. UNCHANGED <<program, tty>>
  <2>1. CASE UNCHANGED vars  BY <2>1 DEF vars
  <2>2. ASSUME NEW p \in Pids, Forks(p) PROVE UNCHANGED <<program, tty>>  BY <2>2 DEF Forks
  <2>3. ASSUME NEW p \in Pids, Quits(p) PROVE UNCHANGED <<program, tty>>
    BY <2>3, AllEbb DEF Kernel
  <2> QED  BY <2>1, <2>2, <2>3, ForksOrQuits
<1> SUFFICES ASSUME ~(program = "fork1" /\ ~tty), Quiet PROVE Quiet'
  BY <1>1 DEF QuietBut
<1>2. CASE program \notin Forking
  BY <1>2, QuietElse
<1>3. CASE program \in Forking
  <2>1. CASE UNCHANGED vars
    BY <2>1 DEF vars, Quiet, Owned, Live
  <2>2. ASSUME NEW p \in Pids, Forks(p) PROVE Quiet'
    BY <1>3, <2>2, QuietForks
  <2>3. ASSUME NEW p \in Pids, Quits(p) PROVE Quiet'
    <3>1. ~Handling(p)  BY <1>3 DEF Handling
    <3>2. Leaves(p) => Exits(p) \/ Silent  BY DEF Leaves, Dies, Terminated
    <3> QED  BY <1>3, <2>3, <3>1, <3>2, QuietSilent, QuietWrites, QuietExits DEF Quits
  <2> QED  BY <2>1, <2>2, <2>3, ForksOrQuits
<1> QED  BY <1>2, <1>3

LEMMA QuietInit == Init => QuietBut
<1> SUFFICES ASSUME Init PROVE Quiet  BY DEF QuietBut
<1> DEFINE P == [Nobody EXCEPT !.state = "live", !.stack = <<Frame("main", 1, {})>>]
<1>1. /\ program \in DOMAIN Code /\ proc = [p \in Pids |-> IF p = 1 THEN P ELSE Nobody]
      /\ out = EmptyBag
  BY DEF Init
<1>2. Nobody.state = "none" /\ Nobody.buf = << >> /\ P.buf = << >>  BY <1>1, FirstIs
<1> HIDE DEF P
<1>3. DOMAIN out = {}  BY <1>1 DEF EmptyBag, SetToBag
<1>4. \A p \in Pids: proc[p].buf = << >>  BY <1>1, <1>2
<1>5. \A p \in Pids: Held(proc[p]) = {}
                     /\ \A i, j \in 1..Len(proc[p].buf): proc[p].buf[i] = proc[p].buf[j] => i = j
  BY <1>4, HeldNone
<1>6. Owned  BY <1>3, <1>5 DEF Owned
<1>7. \A p \in Pids: Unwritten(program, tty, p, proc[p], DOMAIN out)
  BY <1>3, <1>4, <1>5 DEF Unwritten
<1> QED  BY <1>3, <1>4, <1>6, <1>7 DEF Quiet

(* No line is written twice for the process that printed it, whatever the  *)
(* children have inherited: except by fork1, when it does not write to a   *)
(* terminal.                                                               *)
THEOREM WrittenOnceCorrect == Spec => []WrittenOnce
<1>1. Init => Kernel /\ QuietBut  BY KernelInit, QuietInit
<1>2. Kernel /\ QuietBut /\ [Next]_vars => Kernel' /\ QuietBut'
  BY KernelNext, QuietNext
<1>3. QuietBut => WrittenOnce
  BY DEF QuietBut, Quiet, Owned, WrittenOnce, BagToSet
<1> QED  BY <1>1, <1>2, <1>3, PTL DEF Spec

=============================================================================
