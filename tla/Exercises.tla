------------------------------ MODULE Exercises ------------------------------
(***************************************************************************)
(* The exercises on processes and signals, as what they ask of the kernel: *)
(* per program, its functions, and per function the sequence of its calls. *)
(* Processes says what each of them does.  Lines that are only output are    *)
(* kept where it matters how often or when they are written.               *)
(***************************************************************************)
EXTENDS Integers, SequencesExt

Sigs == {"INT", "QUIT", "USR1", "TERM", "HUP", "ALRM", "ABRT", "FPE"}
Flags == {"RESETHAND", "NODEFER"}

-----------------------------------------------------------------------------
(* The calls.  A label is the position of a call in its function. *)

Printf(line)       == [op |-> "print", line |-> line]      \* printf: through the buffer
Write(line)       == [op |-> "write", line |-> line]      \* write, or to stderr: at once
Fork(child, fails) == [op |-> "fork", child |-> child, fails |-> fails]
Exec(fails)       == [op |-> "exec", fails |-> fails]
Wait(none)        == [op |-> "wait", none |-> none]       \* none: where wait returns -1
Exit              == [op |-> "exit"]
Die(sig)          == [op |-> "die", sig |-> sig]          \* abort, a division by 0
CloseAll          == [op |-> "closeAll"]
Sleep             == [op |-> "sleep"]
Spin              == [op |-> "spin"]                      \* while(1);
Read              == [op |-> "read"]                      \* until the user types something
Goto(to)          == [op |-> "goto", to |-> to]
Loop(to)          == [op |-> "loop", to |-> to]           \* again, or not
Set(value)        == [op |-> "set", value |-> value]
IfZero(to)        == [op |-> "ifZero", to |-> to]
IfPending(sig, to) == [op |-> "ifPending", sig |-> sig, to |-> to]
Kill(sig)         == [op |-> "kill", sig |-> sig]         \* kill(getpid(), sig)
Block(sigs)       == [op |-> "mask", how |-> "block", sigs |-> sigs]
Unblock(sigs)     == [op |-> "mask", how |-> "unblock", sigs |-> sigs]
SetMask(sigs)     == [op |-> "mask", how |-> "set", sigs |-> sigs]
Pause             == [op |-> "pause"]
Suspend(sigs)     == [op |-> "suspend", sigs |-> sigs]
Alarm             == [op |-> "alarm", on |-> TRUE]
AlarmOff          == [op |-> "alarm", on |-> FALSE]
SetJmp(env, saves, lands) == [op |-> "setjmp", env |-> env, saves |-> saves, lands |-> lands]
LongJmp(env)      == [op |-> "longjmp", env |-> env]

(* sigaction; where the program leaves sa_mask or sa_flags uninitialized,  *)
(* they may be anything.                                                   *)
SigactionAny(sig, h, masks, flags) ==
  [op |-> "handle", sig |-> sig, h |-> h, masks |-> masks, flags |-> flags]
Sigaction(sig, h, mask) == SigactionAny(sig, h, {mask}, {{}})
Signal(sig, h)          == Sigaction(sig, h, {})

Image == <<Write("image"), Exit>>    \* what exec runs in the place of the program

-----------------------------------------------------------------------------
(* Processes *)

Fork1 == [main |-> <<Write("glob_str"), Printf("before_fork"), Fork(5, 7),
                     Sleep, Printf("pid"), Exit,
                     Write("fork_error"), Exit>>]

(* A slip: the second child ends with exit. *)
Wait1Exit == [main |-> <<Fork(11, 14), Wait(14), Printf("exited"),
                         Fork(12, 14), Wait(14), Printf("aborted"),
                         Fork(13, 14), Wait(14), Printf("faulted"), Exit,
                         Exit, Exit, Die("FPE"),
                         Write("error"), Exit>>]

Wait1 == [main |-> <<Fork(11, 14), Wait(14), Printf("exited"),
                     Fork(12, 14), Wait(14), Printf("aborted"),
                     Fork(13, 14), Wait(14), Printf("faulted"), Exit,
                     Exit, Die("ABRT"), Die("FPE"),
                     Write("error"), Exit>>]

(* A failed fork goes unnoticed here and in Wait3. *)
Wait2 == [main |-> <<Fork(6, 2), Printf("parent_waiting"), Wait(4), Printf("parent_return_value"), Exit,
                     Printf("child"), Exit>>]

(* A slip: one wait, for two children. *)
Wait3Once == [main |-> <<Fork(7, 2), Fork(8, 3), Printf("parent_waiting"),
                         Wait(5), Printf("all_children_terminated"), Exit,
                         Exec(2), Exec(3)>>,
              image |-> Image]

(* A child whose exec fails goes on as if it were the parent. *)
Wait3 == [main |-> <<Fork(8, 2), Fork(9, 3), Printf("parent_waiting"),
                     Wait(6), Goto(4), Printf("all_children_terminated"), Exit,
                     Exec(2), Exec(3)>>,
          image |-> Image]

Wait4 == Wait3    \* with execlp for execl

Execl2 == [main |-> <<Fork(6, 2), Fork(6, 3), Fork(6, 4), Printf("Parent_program_ending"), Exit,
                      Exec(7), Write("exec_error"), Exit>>,
           image |-> Image]

Execv1 == [main |-> <<Fork(4, 2), Wait(3), Goto(7),
                      Exec(5), Write("execv_error"), Exit,
                      Printf("child_info"), Exit>>,
           image |-> Image]

Daemon == [main |-> <<Printf("parent_process"), Fork(4, 7), Exit,
                      Printf("running_as_daemon"), CloseAll, Exit,
                      Write("fork_error"), Exit>>]

-----------------------------------------------------------------------------
(* Signals *)

Signal1 == [main |-> <<Signal("INT", "handler"), Sleep, Goto(2)>>,
            handler |-> <<Signal("INT", "DFL")>>]

Signal2 == [main |-> <<Signal("INT", "handler"), Signal("TERM", "handler"), Signal("HUP", "IGN"),
                       Pause, Goto(4)>>,
            handler |-> <<Exit>>]

Alarm1 == [main |-> <<Signal("ALRM", "handler"), Alarm, Spin>>,
           handler |-> <<Alarm>>]

Alarm2 == [main |-> <<Signal("ALRM", "ssu_alarm"), Alarm, Read, AlarmOff, Exit>>,
           ssu_alarm |-> << >>]

PauseLoop == [main |-> <<Signal("ALRM", "ssu_alarm"), Alarm, Pause, Alarm, Goto(3)>>,
              ssu_alarm |-> << >>]

Sigprocmask == [main |-> <<Block({"INT"}), Sleep, Sleep, Sleep, Unblock({"INT"}), Spin>>]

Sigaction1 == [main |-> <<Sigaction("USR1", "handler", {}), Kill("USR1"), SetMask({"USR1"}),
                          Kill("USR1"), Exit>>,
               handler |-> << >>]

(* What ssu_check_pending finds is only printed. *)
Sigaction2 == [main |-> <<Sigaction("USR1", "handler", {}), SetMask({"USR1"}), Kill("USR1"),
                          SetMask({}), Exit>>,
               handler |-> << >>]

(* A slip: each handler blocks only its own signal. *)
Sigaction3Bare == [main |-> <<SigactionAny("INT", "handler1", {{}}, SUBSET Flags),
                              Sigaction("QUIT", "handler2", {}), Pause, Exit>>,
                   handler1 |-> <<Sleep>>, handler2 |-> <<Sleep>>]

(* act_int.sa_flags is set only after it has been used. *)
Sigaction3 == [main |-> <<SigactionAny("INT", "handler1", {{"QUIT"}}, SUBSET Flags),
                          Sigaction("QUIT", "handler2", {"INT"}), Pause, Exit>>,
               handler1 |-> <<Sleep>>, handler2 |-> <<Sleep>>]

Sigpending == [main |-> <<SetMask(Sigs), Sleep, IfPending("INT", 5), Goto(2), Exit>>]

Sigsetjmp1 ==
  [main |-> <<Signal("INT", "handler"), SetJmp("jump_buffer", FALSE, 2), Pause, Goto(2)>>,
   handler |-> <<Signal("INT", "IGN"), Read, Loop(5), Exit,
                 Signal("INT", "handler"), LongJmp("jump_buffer")>>]

(* A slip: can_jump is not looked at. *)
Sigsetjmp2Unguarded ==
  [main |-> <<Signal("USR1", "ssu_func"), Signal("ALRM", "ssu_alarm"), SetJmp("jump_buf", TRUE, 7),
              Set(1), Pause, Goto(5), Exit>>,
   ssu_func |-> <<Alarm, Sleep, Set(0), LongJmp("jump_buf")>>,
   ssu_alarm |-> << >>]

Sigsetjmp2 ==
  [main |-> <<Signal("USR1", "ssu_func"), Signal("ALRM", "ssu_alarm"), SetJmp("jump_buf", TRUE, 7),
              Set(1), Pause, Goto(5), Exit>>,
   ssu_func |-> <<IfZero(6), Alarm, Sleep, Set(0), LongJmp("jump_buf")>>,
   ssu_alarm |-> << >>]

(* A slip: the first mask is not kept. *)
Sigsetjmp3Unsaved ==
  [main |-> <<SetJmp("jmp_buf1", FALSE, 3), SigactionAny("INT", "handler1", SUBSET {"USR1"}, SUBSET Flags),
              SetJmp("jmp_buf2", TRUE, 4), SigactionAny("USR1", "handler2", SUBSET {"INT"}, SUBSET Flags),
              Sleep, Loop(5), Exit>>,
   handler1 |-> <<LongJmp("jmp_buf1")>>, handler2 |-> <<LongJmp("jmp_buf2")>>]

(* act_sig1 and act_sig2 have only their handler set.  A handler's own     *)
(* signal in its mask would only undo NODEFER.                             *)
Sigsetjmp3 ==
  [main |-> <<SetJmp("jmp_buf1", TRUE, 3), SigactionAny("INT", "handler1", SUBSET {"USR1"}, SUBSET Flags),
              SetJmp("jmp_buf2", TRUE, 4), SigactionAny("USR1", "handler2", SUBSET {"INT"}, SUBSET Flags),
              Sleep, Loop(5), Exit>>,
   handler1 |-> <<LongJmp("jmp_buf1")>>, handler2 |-> <<LongJmp("jmp_buf2")>>]

Sigsuspend1 == [main |-> <<Block({"INT"}), Suspend({}), Exit>>]

(* A slip: unblock and wait in two steps. *)
Sigsuspend2Paused == [main |-> <<Signal("INT", "ssu_func"), Block({"INT"}),
                                 SetMask({"USR1"}), Pause, SetMask({}), Exit>>,
                      ssu_func |-> << >>]

Sigsuspend2 == [main |-> <<Signal("INT", "ssu_func"), Block({"INT"}),
                           Suspend({"USR1"}), SetMask({}), Exit>>,
                ssu_func |-> << >>]

Sigsuspend3 == [main |-> <<Sigaction("ALRM", "handler", {}), Alarm, Suspend(Sigs \ {"ALRM"}), Exit>>,
                handler |-> << >>]

-----------------------------------------------------------------------------
Code == [fork1 |-> Fork1, wait1 |-> Wait1, wait2 |-> Wait2, wait3 |-> Wait3, wait4 |-> Wait4,
         execl2 |-> Execl2, execv1 |-> Execv1, daemon |-> Daemon,
         signal1 |-> Signal1, signal2 |-> Signal2, alarm1 |-> Alarm1, alarm2 |-> Alarm2,
         pause |-> PauseLoop, sigprocmask |-> Sigprocmask,
         sigaction1 |-> Sigaction1, sigaction2 |-> Sigaction2, sigaction3 |-> Sigaction3,
         sigpending |-> Sigpending, sigsetjmp1 |-> Sigsetjmp1, sigsetjmp2 |-> Sigsetjmp2,
         sigsetjmp3 |-> Sigsetjmp3, sigsuspend1 |-> Sigsuspend1, sigsuspend2 |-> Sigsuspend2,
         sigsuspend3 |-> Sigsuspend3]
=============================================================================
