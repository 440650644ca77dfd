# Formal models of the Linux System Programming projects

The repository is a year of course work in C: three programs of some size and about 150
exercises. These modules model the three programs, the exercises that share a file through record
locks and those on processes and signals, check them with TLC on small instances and prove the most
important properties with TLAPS. Everything is read from the sources; line numbers are of this commit.

Abbreviations: **P1** `설계과제/#P1_20192403_V2/` (`ssu_backup`), **P2** `설계과제/#P2_20192403/source/`
(`ssu_score`), **P3** `설계과제/#P3_20192403_V4/소스코드/` (`ssu_monitor`), **L** `기본과제/18_20192403/`
(`fcntl_lock1.c` to `fcntl_lock4.c`), **E** `기본과제/` (numbered directories, one per lesson).

## 1. The system

### ssu_monitor: prompts, daemons and their list (P3)

A prompt reads `add DIR`, `delete PID`, `tree DIR`, `exit`. `add` refuses directories that are
watched, contain or are contained in a watched one (`except_add`, 98-133), then forks a daemon
(`make_daemon`, 283-296) that appends the line `<dir> <pid>` to `monitor_list.txt` (`init_daemon`,
297-303), opens `log.txt` in the directory and begins to watch. `delete` copies the list without
the line to `temp.txt`, removes the list, renames the copy and signals the daemon (157-206).

- *State*: two files by name (an inode each, and what streams still have open), the private
  buffers of stdio, the daemons.
- *Interaction*: several prompts in one directory and all daemons share the two files; nothing is
  locked. A daemon's line appears two forks after the `add` was accepted.
- *Hard*: check-then-act between `except_add` and the daemon's line; a rewrite of the list while
  somebody appends to it; two rewrites at once through one `temp.txt`; kills between the steps;
  `fork` or `fopen` failing half way.
- *Correct if*: watched directories never overlap; every daemon can be found in the list; a delete
  ends its daemon and leaves no line; nothing is lost at the moment the old list is removed.

### ssu_monitor: the daemon at work (P3)

`make_tree` (382-441) lists directories and stats entries one after the other; the loop of
`init_daemon` (310-324) sleeps, builds a second tree, merges it with the first
(`compare_tree`, 443-528) into records *create*, *modify*, *remove* in `log.txt`, and starts over.

- *Hard*: the tree is read while other programs change it; entries vanish between `scandir` and
  `stat`; names change their kind; the merge must not lose what follows an added or missing name.
- *Correct if*: each pass logs exactly the differences of its two trees, and the log replayed from
  the first tree gives the present files, eventually.

### ssu_backup (P1)

A prompt forks a child per command: `add` copies changed files under `$HOME/backup` as
`<name>_<YYMMDDhhmmss>` (`add.c`), `remove` takes versions away and then empty directories
(`remove.c`, `linkedList.c`), `recover` puts versions back, asking for one where there are several
(`recover.c`, `linkedList.c`, `common.c`). Equality of files is by md5 or sha1 (`hash.c`).

- *Interaction*: two prompts and the user work on the same two trees; each command reads one of
  them into a linked tree first and then acts on what it read.
- *Hard*: stale trees, one-second suffixes, names that are prefixes of other names, streams that
  are flushed at exit, commands that are interrupted half way.
- *Correct if*: the backup directory is a store of whole versions (`VersionStore`): each is what its
  file was when the add read it, is replaced only by an add that was named within its own second (and may
  begin later) and goes only when it is removed, and an interruption costs at most the version it was named for; after
  `add` the content just read is recoverable; `remove -a` leaves nothing and takes nothing else;
  `recover` restores the version that was chosen.

### ssu_score (P2)

One run grades all students. `score_table.csv` holds the questions' points (read, made, changed
by `-m`); `score.csv` gets a row per student and may be sorted (`-s`, a bubble sort over a linked
list while the file is read back). A text question (`score_blank`, `blank.c`) is graded by
comparing the expression tree of the answer with those of the teacher's answers; a program
question (`score_program`) by compiling and running it in the background with a time limit and
comparing outputs.

- *Hard*: the table that is graded with must be the one the next run reads; three loops must stop
  at the same question; the sort relinks the list it walks on; the running program is looked up
  with `ps` by a name that all students' programs share; `make_tokens` decides by the tokens it has
  made before which token a sign or a bracket belongs to, and goes back over its array; trees are
  relinked while they are built, and altered while they are compared.
- *Correct if*: see the properties of `SsuScore`, `ScoreRun` and `ScoreBlank` below.

### Record locking programs (L)

Four programs share an employee file: one totals all salaries under a read lock with retries, one
edits the file in vim under a write lock, one changes a record under a write lock, one shows a
record under a read lock and upgrades to a write lock when the user wants a change.

- *Hard*: read-modify-write through what a user was shown, lock upgrades (`EDEADLK`), retries.
- *Correct if*: no change is lost, totals are consistent, `EDEADLK` hits nobody but a second
  upgrader.

### Exercises on processes and signals (E 11 to 16)

24 programs of one file each: `fork`, `wait`, `exec`, a daemon, `signal`, `sigaction`, `alarm`,
`pause`, `sigprocmask`, `sigpending`, `sigsuspend`, `sigsetjmp`. They share nothing with each other;
each is a process (with children) among the signals users send it.

- *Hard*: a signal may come between any two calls, also before the program is ready for it or while
  a handler runs that then jumps out; `fork` copies what stdio has not written yet; `exec` fails and
  the child goes on as its parent would; flags and masks that were never set.
- *Correct if*: no line is written twice; "all children terminated" is true; handlers, `sigsuspend`
  and jumps leave `main` with the mask it asked for; a jump has somewhere to go; a signal that is
  waited for is not lost between unblocking and waiting.

### The rest

`ssu_backup`'s help, the four exercises on threads and about 70 other exercises (a few system calls
in sequence each, without state of their own) are not modelled; section 5 says why.

## 2. Modules

| module | models | composed of / about |
|---|---|---|
| `WatchRegistry` | what ssu_monitor promises: a set of watches without overlap | abstract specification |
| `SsuMonitor` | prompts, daemons, `monitor_list.txt`, `temp.txt` | `INSTANCE WatchRegistry` (refinement) |
| `DirWatch` | one daemon at work over a changing tree | |
| `SsuMonitorProofs` | theorems about `SsuMonitor` and `DirWatch` | `EXTENDS SsuMonitor, DirWatch, DataLemmas` |
| `VersionStore` | what ssu_backup promises: versions are whole and stay | abstract specification |
| `SsuBackup` | prompts, commands, the user's changes | `INSTANCE VersionStore` (refinement) |
| `DataLemmas` | what the proofs need about sequences, prefixes, functions | `EXTENDS TLAPS` |
| `SsuBackupProofs` | theorems about `SsuBackup`: the refinement, how versions last, and each command | `EXTENDS SsuBackup, DataLemmas` |
| `RecordLock`, `RecordLockProofs` | the four locking programs; theorems | |
| `SsuScore`, `SsuScoreProofs` | a run of the grader: tables, rows, sort; answers' results are free; theorems (with `DataLemmas`) | |
| `ScoreTokens` | `make_tokens`: a text becomes tokens | |
| `ScoreTree` | `make_tree`: tokens become a tree | `EXTENDS ScoreTokens` |
| `ScoreBlank` | how one text question gets its result | `EXTENDS ScoreTree`; one answer of `SsuScore` |
| `ScoreRun` | how program questions get their results | the answers of `SsuScore` |
| `TreeProofs` | each step of `make_tree` keeps what has been read | `EXTENDS ScoreTree, DataLemmas` |
| `AnswerProofs` | theorems about `ScoreRun`, `ScoreTokens` and `ScoreTree` | `EXTENDS ScoreRun, TreeProofs` |
| `Exercises` | 24 exercises as sequences of calls, one per function | data of `Processes` |
| `Processes` | what kernel and stdio do with such calls, and with signals | `EXTENDS Exercises` |
| `ProcessesProofs` | theorems about `Processes`, for each of the 24 programs | `EXTENDS Processes, DataLemmas` |
| `MC*` | the instances TLC checks | |

`SsuScore` lets every answer earn any result; `ScoreBlank` and `ScoreRun` are where those results
come from. `SsuMonitor` and `DirWatch` meet at the daemon: the first ends with the daemon's phase
`watching`, the second begins there and may be restarted at any time.

An operator under a comment "A slip" is a wrong variant of the definition after it, the way the code
might have been written with one mistake; no specification uses it. The checks put it in the place
of the right one to see that a property notices.

### SsuMonitor: state and actions

Files are inodes under names. `list`, `temp` say what the two names mean, `data` what an inode
contains; `fp`, `tfp`, `dfp` are streams, `lines` and `kept` the buffers of stdio. So a delete that
renames its copy over a list on which a daemon has a stream open does what the kernel does. One step
is one system call on a shared file. `AddCommand`/`AddOpen*`/`AddScan`/`AddFork*` are `execute_add`;
`DeleteCommand`/`Del*` are `execute_delete` in the order of the code (`fclose` of the copy before
`remove`, `remove` before `rename`, `kill` last); `Daemon*` are the steps of `init_daemon` up to its
loop. `Faults` lets `fork`, `fopen` of `log.txt` and daemons fail, `Interrupts` kills prompts,
`Patient` restricts the user to one command at a time, entered when all daemons have written
their lines. `path` names are compared as the code does, by `strncmp` prefix (`CharPrefix`), which
also takes `/ab` for a part of `/a`.

### DirWatch

`fs` is the real tree, changed at any step by other programs (`Make`, `Write`, `Unlink`).
`todo` is the recursion of `make_tree` (one `scandir` or `stat` per step), `pairs` that of
`compare_tree` (one comparison of two heads per step). Siblings, a linked list that `scandir` has
sorted, are a set that is taken in the order of `Place` (`First`). `st_mtime` is in seconds, and a write is
given a new second (writes that leave `st_mtime` equal cannot be noticed by any program of this
kind). `told` is the history of what a reader of `log.txt` knows.

### SsuBackup

Files and versions are functions from nodes (path, second of the backup or 0) to contents. A child
of `add` walks the home directory node by node (`AddDir`, `AddFile`, `AddGone`), compares each file
with the versions (`AddSkip`, `AddNew`), names the new version for the second the clock shows (`AddName`),
and copies the file in two steps (`AddCreate`, `AddCopy`: a
version is empty until its stream is closed); the clock may tick between any two of them, so that the
version that is opened, and emptied, may be of a second that is over. A child of `remove` or `recover` reads the backup
directory in one step (`Snapshot`: `makeFileTree` runs through it once, before anything else, and
changes in the middle of that pass are left out), then handles one node per step
(`RemoveFile`, `RemoveDir`, `Rmdir`, `RecoverDir`, `RecoverGroup`, `Restore`); `Pick` is the
user's choice, and `Flush` and `Exit` the end of the process, which flushes what is still open. Abstractions: arguments are absolute paths (relative ones go through
`makeHypoPath`, common.c:115-162, whose buffers are undefined); a file fits one stdio buffer;
directories created by a wrong new path are not tracked; contents are short sequences and their
digests are injective. `Ops` gives each prompt the commands its user enters, `Interrupts` the prompts
whose children may be killed.

`VersionStore` says what this is for. `SsuBackup!Store` reads it off the detailed state: a version of
the store is one that is there and not empty (an empty version cannot be told from the beginning of
an add that was interrupted, and recovering either gives an empty file); a child of `add` that
has named a version is a client that is beginning one, and between
`fopen` and the end of its process a client that is saving, with the content it has read; a child
that removes or recovers is a client that waits. `ImplementsStore` is `Store!Spec` as a property.

### SsuScore, ScoreRun, ScoreTokens, ScoreTree, ScoreBlank

`SsuScore` keeps points in thousandths; what is written passes through `Rounded` (`%.2f`). `cp`,
`prev`, `ep`, `next` and `scoreRoot` are the pointers of the bubble sort; one step is one
comparison. `-c`, `-p`, `-t` and `-e` only print or write other files and are left out.

`ScoreRun` has the grader, the clock and each student's process: it is forked, exec'ed (only then
has it its name), prints what it likes and ends or not. `prompt`, chosen at the start, says whether
`ps` always comes after exec; both cases are explored. What `compare_resultfile` finds in its two
characters before anything is read is a free choice (`junk`).

`ScoreTokens` is `make_tokens`. A text is a sequence of lexical units (names, operators, quoted
strings, each space); `start` and `row` are the variables of the code, `tokens` its array, `lexed`
says in which of its loops it is or what it has returned. One action per branch of the first loop
(`StepBefore` for `++a`, `Ampersand`, `PointerType`, `PrefixedBracket`, ...), each with the whole end
of the pass (`PassEnds`: trimming, the checks for two names side by side, `row++`); then the loop over
the last words, the declarations that become one token, and the two loops over casts with
`reset_tokens`. What is abstracted is the spelling of names: `Typed` are those that begin with an
entry of `datatype`, `Typish` those that contain one. A star as the last
character is not passed (`LastStar`): it comes up again for the next token and the next, until `row` leaves the
array (`BeyondArray`, where the outcome is a choice), or for the same token for ever. Of the array the model has two
tokens more than the text has units; the code has 50, all empty from there on. The model was compared with the compiled `make_tokens` on 20,000
random texts and 9,000 expressions, declarations and casts: result and tokens agree on all of them.

`ScoreTree` is `make_tree`. The heap of nodes has the four pointers of `node`; `cur` and `idx` are the
variables of the code, `stack` the inner calls for brackets (`group`) and arguments (`call`) that have
not returned. One step is one pass of its loop, or the beginning or end of an inner call. A list of arguments that is
not closed (`Unclosed`) makes `idx` run on beyond the tokens: `ScoreBlank!RunsOn` lets the program crash there or
make a tree that is like no other.

`ScoreBlank` is the rest of `score_blank`: it feeds the student's answer, then one after the other the
teacher's, to `make_tokens` and `make_tree`, and compares; a comparison of two trees is one step, which
alters the key's tree as `change_sibling` does. Trees and
comparison were compared with the compiled C functions on all 14910 pairs of an answer and a key of an
instance: the verdicts, crashes included, agree.

### Exercises, Processes

`Exercises` holds the programs: per function, the sequence of its calls in the order of the source,
with jumps for its `if`s and loops; a line is kept where it matters how often or when it is written,
and what is only computed for output is left out. `Processes` runs one of them: `proc` is what the kernel knows of a process
(parent, mask, pending signals, actions, alarm) with its stack of functions, its stdio buffer and its
jump buffers. One step is one call. Before it, all due signals are delivered: `Delivers` pushes the
handler and adds its mask, `Returns` pops it and restores the mask; `Suspends` changes the mask and
waits in one step, `Pauses` waits. `Forks` copies the buffer, `Execs` drops it, `Exits` flushes it,
`Dies` does not. Fields a program leaves uninitialised (`sa_flags`, `sa_mask`) are sets of values, one
of which is taken. Users send `SIGINT` and whatever the program handles, at any step (`Sends`).
`fork` and `exec` may fail; sleeping ends at some step, reading when the user types.

### RecordLock

`held` is the kernel's table of record locks; `F_SETLKW` blocks, or fails with `EDEADLK` where
waiting would close a circle, as POSIX says. A new salary is the one shown plus one.

## 3. Runs

| run | instance | shows |
|---|---|---|
| `patient` | 2 prompts, 2 pids, paths /a, /a/b, /c, faults | `NoOverlap`, `AllListed`, `NothingLostAtRemove`, `ImplementsRegistry`, `DeleteEnds` |
| `solo` | 1 prompt, impatient user, killed prompts | `NoStaleLine` |
| `crowd` | 2 prompts at once, every interleaving | `CommandsEnd`, `AddTakesEffect` |
| `watch` | 3 names, one of them file or directory; 5 changes, 2 seconds | `DiffExact`, `LogReplays`, `CatchesUp` |
| `locks` | all four programs, two upgraders, one record | `NoLostUpdate`, `TotalConsistent`, `UpgradeKeepsRecord`, `OnlyMutualUpgradesFail` |
| `backup` | 1 prompt, files d/a and d/e/b, all commands | `RemovedAll`, `RecoverExact`, `AddedRecoverable`, `RemovesOnlyUnder` |
| `backup_crowd` | 2 prompts, one adds and recovers, the other removes; 2 seconds; commands interrupted, a user who writes and erases meanwhile | `ImplementsStore`, `CommandsEnd` |
| `prefix_names` | files a and ab | **violated**: `AddedRecoverable` (section 6) |
| `score` | 3 students (an id that begins with another's), 2 questions, points 0, 0.004, 0.5 | `GradedAsFiled`, `RowsAlign`, `SortedRows`, `RunsEnd` |
| `score_run` | 2 students, 5 texts, 1 second | `FinalOutput`, `NoneLeft`, `VerdictExact`, `GradingEnds` |
| `score_blank` | about 220 answers, for each some hundred files of one to four keys | `ReadInOrder`, `NothingLost`, `RightHasAll`, `RightIsFound` |
| `exercises` | 24 programs, 4 processes, 2 signals, output to a terminal or not | `WrittenOnce`, `AllGone`, `MainMask`, `HandlersApart`, `JumpsHome`, `IntEnds` |

`patient` also checks `TypeOK`, which is proved.

*Bounds.* They are named in the modules' `CONSTANTS`. Two prompts and two pids give every pair of
racing commands and a delete beside a starting daemon; the inodes are enough that a step that
creates a file always finds one. Three path names have the three relations two directories can
have. In `watch`, three names let a directory with a file in it become a file and back with a
sibling after it; five changes cover one in each phase of a scan. In `backup`, two seconds and two
writes give two versions of one file and one version of another. In `backup_crowd` two seconds are
enough: a version of the first is replaced within it, begun again after it by an add that was named in it, and an
interruption may leave it empty; only one prompt adds, for two adds of one file in one second mix their contents (section 6). In `score`, three students make every case of
the bubble sort (no exchange, one, and a second pass), 0.004 is a value that `%.2f` turns into 0.
In `score_blank`, three names give every way an operator can stand to the one before it; every
expression is written with a space between any two units and with none, the keys in the other way than
the answer; prefixes, members, casts and declarations reach every branch of `make_tokens`. Expressions
in which a `+`, `-`, `*` or `&` follows a bracket are not in the instance: `make_tokens` takes it for
the sign of what follows (section 6), so such an answer is found only beside keys that are written
alike. In `exercises`, four processes are `execl2`'s three children and their parent; two signals let
one come while the handler of another runs. A program without handlers is sent one, which ends it.

`CHECK_DEADLOCK FALSE` is in the runs whose system really stops: all programs have ended
(`locks`, `exercises`), all students are graded (`score_run`), the answer is judged (`score_blank`).

`VIEW`s merge states that differ only in what nobody can read any more (unlinked inodes, finished
comparisons, `score.csv` between runs).

*Fairness.* `SsuMonitor!FairSpec`: a running command goes on, a forked daemon starts (the kernel
schedules runnable processes); the user owes nothing. `DirWatch!WatchFairSpec`: the daemon is
scheduled and `sleep` ends. `SsuBackup!FairSpec`: a child that does not wait for its user runs.
`SsuScore!FairSpec`: the run goes on unless it is asking. `ScoreRun!FairSpec`: grader, clock and exec;
the students' programs owe nothing, which is the point of `GradingEnds`. `Processes!FairSpec`: a
process that can run does (`Runs(p)`); users, timers and whoever types input owe nothing. All are weak: no step
competes for a lock.

## 4. What is proved

For every value of the constants that satisfies the modules' assumptions:

| theorem | says |
|---|---|
| `SsuMonitorProofs!TypeCorrect` | `Spec => [](TypeOK /\ Shape)` |
| `SsuMonitorProofs!NoOverlapCorrect` | with `Patient` and no killed prompt, no two daemons watch overlapping directories |
| `SsuMonitorProofs!AllListedCorrect` | under the same condition, every daemon is in the list between commands |
| `SsuMonitorProofs!RegistryImplemented` | under the same condition, `Spec` implements `WatchRegistry!Spec` |
| `SsuMonitorProofs!NothingLostAtRemoveCorrect` | under the same condition, when a delete removes the list, `temp.txt` has every other line of it |
| `SsuMonitorProofs!NoStaleLineCorrect` | without failures, and with one prompt or `Patient`, every line of the list is a running daemon's, whenever a prompt is killed |
| `SsuMonitorProofs!DiffExactCorrect` | each pass of `compare_tree` logs every difference of its two trees once and nothing else |
| `SsuMonitorProofs!LogReplaysCorrect` | between rounds, the log replayed over the first tree gives the files and times of the latest |
| `RecordLockProofs!NoLostUpdateCorrect` | no salary change is lost |
| `RecordLockProofs!TotalConsistentCorrect` | what a total has read is what the records hold |
| `RecordLockProofs!UpgradeKeepsRecordCorrect` | from the read lock to the write, the record is what the user was shown |
| `RecordLockProofs!OnlyMutualUpgradesFailCorrect` | EDEADLK ends a loop program only in a mutual upgrade of one record |
| `AnswerProofs!FinalOutputCorrect` | if ps comes after exec, what is compared is the whole output of a program that has ended |
| `AnswerProofs!NoneLeftCorrect` | if ps comes after exec, no program is left when the next student is graded |
| `AnswerProofs!VerdictExactCorrect` | if ps comes after exec, points are given exactly when the output passes for the teacher's |
| `AnswerProofs!RoomEnoughCorrect` | `make_tokens` never needs more tokens than its text has units, but at a star that ends the text; the list made of its array has an end |
| `AnswerProofs!PassesEndCorrect` | each pass of each loop of `make_tokens` reads on, ends the loop, leaves fewer tokens or, at a last star, nears the end of the array; endless are only the cast of a `sizeof` and a last star after stars |
| `AnswerProofs!TextKeptCorrect` | what `make_tokens` has read of a text in its order (`Orderly`) stands in its tokens, in the order it was written |
| `AnswerProofs!NothingLostCorrect` | of a text that is read in its order (`Orderly`) and whose operands are put where they are read (`InPlace`), nothing is lost from the text to the tree |
| `SsuScoreProofs!GradedAsFiledCorrect` | what students are graded with is what `score_table.csv` says |
| `SsuScoreProofs!RowsAlignCorrect` | `score.csv` has a row for every student and a cell for every question of its first row |
| `SsuScoreProofs!SortedRowsCorrect` | `-s` writes every student's own row once and in the order asked for |
| `SsuBackupProofs!StoreImplemented` | while at most one prompt adds (`OneAdds`), `Spec` implements `VersionStore!Spec` |
| `SsuBackupProofs!VersionsLastCorrect` | under the same condition, a version keeps what it holds until it is removed or begun again by an add that was named within its second |
| `SsuBackupProofs!AddedRecoverableCorrect` | with `AddsUndisturbed`, no name that begins another and no collision of digests, an add leaves a version of what it has read |
| `SsuBackupProofs!RemovesOnlyUnderCorrect` | with `RemovesUndisturbed`, a remove takes out nothing but what its argument names |
| `SsuBackupProofs!RemovedAllCorrect` | with `RemovesUndisturbed`, a remove of a whole directory leaves nothing of it |
| `SsuBackupProofs!RecoverExactCorrect` | with `RecoversUndisturbed` and no collision of digests, a recovered file is the version that was chosen |
| `ProcessesProofs!KernelCorrect` | types; handlers are stacked above `main`; in all programs but `sigsetjmp1`, `main`'s mask is below them all and jump buffers are set before their use |
| `ProcessesProofs!MainMaskCorrect` | wherever signals, handlers and jumps have led it, `main` blocks what it asked for |
| `ProcessesProofs!HandlersApartCorrect` | `sigaction3`'s two handlers are never both on the stack |
| `ProcessesProofs!JumpsHomeCorrect` | only `sigsetjmp1` can jump through a buffer that is not set |
| `ProcessesProofs!AllGoneCorrect` | when `wait3` and `wait4` say so, all children have terminated |
| `ProcessesProofs!WrittenOnceCorrect` | no line is written twice for one process, but by `fork1` |

*ssu_monitor.* `NoOverlap` is not inductive: a daemon starts to watch long after its `add` was
accepted. `PatientInv` (in `SsuMonitor`) adds to the types: at most one command runs, or
daemons start, but not both (`OneAtATime`); the running command's streams are on the files the
names mean (`FilesOwned`); during a delete each live daemon's line is in the buffer not yet read,
in the copy, or in the list, depending on the step (`LinesSafe`); and while an add scans, the
directory clashes with no daemon whose line it has already passed (`ScanHolds`). Each action
has a lemma. The refinement maps `watched` to the directories of daemons that are forked and not
dead; a fork is `Start`, a death is `Stop`, everything else stutters. The condition
`Patient` is necessary: without it the code does not keep `NoOverlap` (section 6).

*The daemon at work.* Both theorems hold for any names, trees and changes and need no condition. The
recursion of `compare_tree` is a stack of pairs of sibling lists; what it has yet to look at is every name
at or below a sibling on that stack (`Waiting`). `PairsInv` says that siblings that wait are not below
one another and that a name of both trees waits in both lists, so that a name which only one list is past
is in one tree only. Each of the three branches takes exactly one name from `Waiting` and leaves what
is below it waiting (`DescendsTakesOne`; a name from which another is reached passes through one of its
children, `ThroughChild`, and every path begins at the root, `ThroughRoot`). The log is the difference of the two
trees without the names that wait (`EventsInv`), and a reader of it knows of a name what the old tree
says while it waits and then what the new one says (`ToldInv`). When nothing waits, both are the
properties. `make_tree` contributes that a tree has, with a name, the directories it is in (`Closed`),
although other programs change everything between its calls. What is below or above a name is defined
by closed sets of names, so no recursion over the depth of the tree is needed. `TreeAssumption` says that
a directory comes before what is in it in the order of `strcmp`, being the beginning of its path.

*Record locks.* `LockInv` adds to the types that granted locks exclude one another (`Exclusive`),
which locks a process holds at each of its steps (`LocksHeld`), and that what vim shows is the
file (`VimCurrent`). A salary that was read under a lock cannot change before the lock is gone, so
what is written is the salary shown plus one. `UpgradeInv` adds for `OnlyMutualUpgradesFail` that a
loop program has at most the record it works on, and nothing while it waits for a first lock
(`AtMostOne`), and that no two wait to upgrade the same record (`UpgradesApart`): the second of
them is refused, since the two close a circle. So in a circle everyone who blocks another upgrades
the record the other wants, and it can have two members only.

*Copying the list.* `NothingLostAtRemove` needs besides `PatientInv` where each line of the list is
while it is copied (`CopyComplete`): in the buffer not yet read or in the copy, then in the copy, then in
the file.

*The list is true.* `NoStaleLine` needs the other half of such an invariant (`TrueInv`): whatever is copied
is the line of a daemon that runs, and none of the copies is the line of the daemon that is to be
ended (`CopyTrue`); the list, `temp.txt` and the files daemons have open are different inodes where they
must be, and the copy starts from an empty file even when a killed prompt has left one
(`FilesApart`). It needs only that one command runs at a time (`OneCommand`): with a single prompt the user
may be as impatient as she likes, daemons may append while a delete rewrites the list, and a
prompt may be killed at any step. What is lost then are lines, never daemons' ends. With `Faults` the
property is false, for a daemon that dies by itself leaves its line.

*Running answers.* `RunInv` in `ScoreRun`: a program that has ended has printed everything; the grader
is at its next step only when the student's program is gone, because the process ps showed is always
that student's. All but the first depend on `prompt`, that ps runs after the child's exec; without it
the code may compare an unfinished output (section 6). `StudentsAssumption` says that there is at least
one student and that ids differ; texts and the time limit are any. `TextsAssumption` says besides that
what `to_lower_case` returns it leaves alone, which `VerdictExact` needs because a character that is
read is converted again at the end of a file.

*The comparison.* `VerdictExact` needs what two files that have been read up to some place have in common
(`Agreed`, in `VerdictInv`). Characters that count are numbered without the spaces (`Rank`). Two
characters of one rank that have been read are alike; a file whose rank is behind the other's is at its
end, and there `compare_resultfile` goes on with the last character it had (`Pad`), or with
what its variables held before anything was read if the file is empty (`junk`). `Agreed` is symmetric in
the files (`AgreedSym`), so a step is proved for one of them (`AgreedHalf`). When both are at their ends
`Agreed` is `PassFor` (`EndedPass`); when two characters differ their ranks refute it
(`DifferPass`). No assumption is made on the lengths of the outputs.

*Tokens.* The three theorems on `make_tokens` are about `LexSpec`, one call of it, for texts of any length and
any units. They are two invariants and a measure.

- `RoomInv`. In the loops that read, `row` is behind `start`: a pass makes at most one token more and reads at
  least one unit, and a pass that goes back over the array (`Star`, `FirstStar`, `LastWords`) makes none. The
  array is empty from `start` on, so its last place always is. That is `RoomEnough`. The exception is a star that ends the
  text: from there `row` may grow beyond `start`, over an array that is empty (`Again`), until it leaves it.
- `PassesEnd` is an action property over the whole call. In the first two loops `start` grows and stays within the text;
  in the loops over declarations and casts the set of tokens that are not empty gets smaller
  (`ResetTokens` puts at least two of them together). At a last star it is `row` that grows. There are two
  exceptions, which are in the code too and which the model calls `loops` (section 6): the cast of a `sizeof` is left as it
  is and found again, and a last star after stars is appended to the token before while `row` goes back
  and forth between the two.
- `KeptInv` is for `TextKept`, which is about all tokens strung together (`Joined`) and what is to be
  read. `ReadStands` says that they are the same but for spaces and brackets. Each pass appends what it reads to the
  token at hand, to the one before, or behind stars it has gone back to; that this is also at the end of
  all tokens strung together needs that there is nothing behind (`NoneBehind`) and nothing empty before (`NoHoles`).
  `ResetKeeps` is the step of `reset_tokens`: it counts as many brackets to the left of the type as to the right of it (`Run`),
  drops them, puts together what is between them and moves the rest down.
  `DataLemmas` has what this needs about strings of sequences (`Joined`): parts, shifts, and
  putting neighbours together. Inductions over lengths are on the set of lengths for which a claim holds
  (`SetInduction`), since the library's theorem has an operator as its parameter.

`TextKept` has a condition, `Orderly`, because the code does not keep every text: `Overwrites` are the branches that begin a
token where one has been left open, `Joins` those that put a sign or a star onto the token before while
a later one is open, and `PlainCast` excludes a cast before a bracket (`(int)(a)+b` loses `+b`, section 6). `Orderly` says of a pass only what
is before it and not that it does right; `score_blank` checks, with `ReadInOrder`, that all texts of its instance
are read in their order. Proving the invariant corrected the model in one place: where a word ends was taken
by a `CHOOSE` that meant the first such place only for some texts. `StringsAssumption` says
that quoted strings are not punctuation.

*Trees.* `NothingLostCorrect` is about `BuildSpec`: one text becomes tokens and these a tree, of any size and with
brackets and arguments in one another to any depth. `TreeKept` reads the names of a tree by its pointers, and `make_tree` changes these all over the
heap; so the invariant `Stands` (in `TreeProofs`) speaks of a heap that is a forest (`Forest`), with four pieces of
ghost data per node: its tree's root (`home`), a number that grows on the way to the root (`rank`), the
names from the node on (`text`), and whether it is last in all it stands in (`edge`). They are a record `G` of which the
invariant only says that there is one, so no variable is added to the model. `ReadThrough` says of each node that its text is its own name, its
child's and its next sibling's; the recursion of `Names` agrees with that (`NamesIs`), as do `RootOf`, `LastChild` and
`MostHighPrecedence` with `home` and `edge`. There are only four ways the code changes a heap, and each has a lemma that
gives the new `G`: a tree is hung below or behind the last node of another (`Attach`: what is appended
is appended to the texts on the way to the root, `PathIs`), an operator is put above a node and all its
next siblings (`InsertedForest`), the children of a bracket's operator are taken out (`TakenOut`), a node is
made (`Made`). `Elsewhere` says that other trees stay as they are, `Waiting` that the
waiting calls have different trees, each with its last node at hand, so that what stands in them
and in the tree of `cur` is what has been read (`Held`). There is a lemma per action of `MakeTree`.

Its condition besides `Orderly` is `InPlace`, since the code does not put every operand where it is read
(section 6): what an operand, an argument or a bracket is put behind is the last of its siblings; an
operator that is put below another goes above its last operand, and there are two; and inner calls for brackets end at a bracket or comma, not at
the end of the text (those for arguments end there in nothing defined, `Unclosed`). These speak of the next node's place only, not of the
names in the tree. The run `score_blank` checks both conditions on every answer and key of its
instance (`ReadInOrder`). In `ScoreBlank` the keys' trees grow in one heap with the answer's; `BuildSpec`
has a heap of its own for each text, so that nothing lost beside another tree is a result of TLC only.

*A run of the grader.* Three invariants in `SsuScore`, each used by the next. `FiledInv`: while the table is
being written the file has as many lines as the loop has passed, none of them of a question without
points; the three loops that stop at `score == 0` therefore stop at the same question (`EndIs`), though the
file may say 0 where the table does not yet (4 thousandths). What is read back is the table itself,
because rounding a filed number changes nothing (`RoundedIs`). `RowsInv`: rows before the one at work are
complete, and that one has as many cells as questions have been passed. `ListInv`: `scoreRoot` and `next`
are some arrangement of the students (`Linked`, `Listed`); from `ep` on it is sorted and nothing before belongs
behind (`InOrder`), and `cp` is the last of what the pass has been over (`Highest`). `Relinked` is the
central lemma: the two or three assignments of an exchange make it the arrangement with the two nodes
exchanged, at the head, in the middle and at the end of the list. That the first row that starts with a
student's id is the student's own (`OwnRow`) needs the order of `ids`: an id comes in `strcmp`'s order
before those that it begins (`IdsAssumption`). The other assumptions say that students and questions are
finitely many and points natural numbers.

*The store of versions.* `StoreImplemented` holds for any number of prompts, files and contents,
however users write and erase meanwhile and wherever commands are killed. `WorkInv` says what kind of
variable everything is and what an add that is between two calls has at hand; `OpenIsEmpty` that the
version it has open is empty while its stream has not been flushed, unless somebody has removed it. The
refinement mapping (`Store` in `SsuBackup`) then sends `AddName` to the naming of a version, `AddCreate` to the start of a save, `AddCopy` to
its end, a death between them to an interrupted save, `RemoveFile` to a removal, every other step to a
stutter or to a tick of the clock. The condition is that at most one prompt adds at a time: two adds of
one file in one second write into one version (section 6), and the abstract store has no such mixture.

`VersionsLast` says the same of single steps, without the abstract store: a version that is not empty is
in the next state what it was, unless a child removes that very version or an add creates (or dies
creating) the version it has named, which is of the second in which it read the clock. It follows from `OpenIsEmpty`, since a flush at the end of
an add writes only where nothing was.

*Commands of ssu_backup.* A command reads a tree once and then acts on what it has read, so each theorem
is about a command that others leave alone, and says how far; the conditions on the users stand in the
theorems as temporal hypotheses (`Spec /\ []RemovesUndisturbed => ...`). `CommandInv` adds to `WorkInv`
where things are (`Apart`: versions are of files; `Housed`: every directory on the way to a version is
there), what a child has before it (`Kinds`) and which command goes through which steps (`Fits`).

- `AddedRecoverable` needs in addition that the version that is being saved is still there and empty
  (`AllSaved`). Users may write the files and others may recover; others may neither add nor remove.
  `NamesApart` excludes names that begin other names, for which the run `prefix_names` refutes the
  property; `DigestsDiffer` says that unequal contents have unequal digests, which the code relies on.
- `RemovesOnlyUnder` needs that a child that removes knows the whole backup directory (`Knows`) and has
  only nodes under its argument before it (`UnderArg`). Without `RemovesUndisturbed` it is false (TLC
  finds the trace with two prompts and no other user): an add makes directory `d/e` after `remove d/e -a` has read the tree,
  `findNode` stops at `d`, and `d/a` is removed.
- `RemovedAll` needs that everything under the argument is on the stack of pending calls
  (`AllOnStack`) and that a directory's contents are before the directory (`InsideFirst`). Users may
  write and erase the files; other prompts may remove.
- `RecoverExact` follows a single file from the choice to the flush at exit (`Restores`): between them
  its stream is the only one, and the file is empty. Here nobody else may do anything, for the property
  compares the file with the version at a moment when the command has long made its last call.
  `DigestsDiffer` is needed because recover leaves a file alone whose digest is the version's.

`PathsAssumption` says that no file or new path is on the way to another: a path names a file or a
directory, not both.

*Exercises.* The theorems hold for any number of processes and of signals. A step may be any call of any of
the 24 programs, after any number of signals delivered one on top of the other; the proofs therefore first
establish what all the calls of all the programs have in common (`CallsFit`, and `ForkingFit` for those that
have children), by going through them once, and then argue about calls by their kind. Three invariants:

- `Kernel`. A process's stack has `main` (or, after an exec, the image) at the bottom and handlers above it
  (`Stacked`). `MainMask` speaks of `main` alone on its stack; while handlers are above it the mask is to be
  restored by the lowest of them, or by the end of `sigsuspend`, and that mask (`Bottom`) is what
  main asked for (`Masked`). A `siglongjmp` takes it from the buffer, a `longjmp` keeps the handler's; that only
  `sigsetjmp1` jumps in the second way out of a handler is read off the programs. `Separate` is for
  `sigaction3`: whoever is above a handler is another instance of it, and to
  return to one restores a mask that still blocks the other signal. `Prepared` says which buffers have been set when a
  function is at a call (`Needs`, which asks nothing of `sigsetjmp1`: that program can jump through a buffer never set, and
  neither its buffers nor its `Bottom` are claimed to be right).
- `Family`. New processes have higher numbers than their parents (`Tree`), so children are acyclic. A process
  of `wait3` or `wait4` that is past its `wait` has no children, for these programs fork and wait
  only before (`Childless`). If users send nothing, no parent ends before its children (`Attended`); then
  the highest number alive is nobody's parent, and a process with none alive can only be the first.
- `Quiet`. The lines a process may still write are those ahead of it in the program (`Ahead`). They are
  neither written nor in its buffer, its buffer has no line twice, and what it will flush is its own and not
  written (`Unwritten`). A fork keeps this because a program forks where its buffer is empty (`Fresh`) or the
  child ends without a flush (`Doomed`: `abort`, a division by zero, or closed descriptors). `fork1` does neither when it writes
  to a file, hence the exception.

`PidsAssumption` says that there is a process 1 and that numbers are positive.

*Only model-checked*: `RightHasAll` and `RightIsFound`, which are about `compare_tree`: it is `RECURSIVE` and
changes the key's tree while it compares, and the prover does not work in a module with such an operator.
`ReadInOrder`, the condition of `NothingLostCorrect`, is a fact about the texts of the instance. Liveness (`DeleteEnds`, `AddTakesEffect`, `CatchesUp`, both `CommandsEnd`, `RunsEnd`,
`GradingEnds`, `IntEnds`) and `ENABLED` are out of reach of the installed provers; of the loops of
`make_tokens` the theorem `PassesEnd` states what makes them end, not that they do. Every other property that a run
checks is a theorem. `RoomEnough`, `PassesEnd` and `VersionsLast` are theorems that no run checks.

## 5. Not modelled

Texts on the terminal; the bytes of `log.txt` and `score.csv`; limits of processes, descriptors and
memory; zombies (P3 289: the intermediate child is not waited for); undefined memory accesses whose
effect depends on the layout: `splitByCh` with six words (P3 554), `files[n] = NULL` (P1
common.c:92), uninitialised buffers (P1 add.c:176); `free_tree`'s use of freed nodes (P3 530)
appears as an end of the daemon at that point. In
`make_tokens`: tokens of more than 63 characters or more than 50 of them (the array is left), a text
that begins with `->` (it is written before the array), `(struct x*)a` (`strcat` of a string onto
itself).

The exercises on threads (E 17) start threads that print one line each; the argument of
`pthread_exit1.c`'s threads is a variable that `main` goes on changing, so that any of its values may be
printed, and nothing in the repository says which should be. The other exercises show one library or
system call each, without concurrency, failure handling or state that outlives a call; what could be
stated about them is what the call does. `ssu_backup`'s help, and `-c`, `-p`, `-t` and `-e` of
`ssu_score`, only print.

Not caught by any property, because the code cannot do better or nothing says what it should do: two
writes within one second, one before and one after a scan, have one `st_mtime` (P3 468); which of two
trees stands for `a + b * c` after an assignment (blank.c:729).

## 6. Divergences

Checked by a run:

- `prefix_names`: add.c:65 compares as many characters of two names as the version's name has
  without its suffix, so a version of `a` passes for one of `ab`: `ab` with the same content is
  "already backuped" and has no version. The comment there says the names are the same.

Seen while modelling; the models contain the behaviour, and the properties are stated around it:

- P3 115/301: two adds in quick succession both pass `except_add`, for the first daemon has not
  written its line; hence `Patient` in `NoOverlap`. P3 195: a line that a daemon appends while
  `delete` rewrites the list is lost; hence `Patient` in `AllListed`. P3 196: killed between `remove`
  and `rename`, a prompt leaves the list only in `temp.txt`.
- P3 197-205: the message of `kill_daemon` names the directory of the last line read, not of the
  pid. P3 443-493: directories are not logged, nor is the removal of a file that became a directory.
- P1 linkedList.c:125: with `recover -d` a file of several versions comes up again for each
  version and a later choice overwrites an earlier one. linkedList.c:164: with several versions
  `-n` is ignored, unlike help.c:14. linkedList.c:179: `findNode` returns the last node it reached,
  so `remove -a` of a directory made meanwhile works on its parent. hash.c:68: the test of the
  mode is inverted. common.c:193: restored files are written only at exit.
- P2 ssu_score.c 590, 771, 862: a question worth 0 (or rounded to 0.00 by `-m`) ends the table for
  all that follow. 254: an unknown question number for `-m` crashes and loses earlier changes. 1070:
  warnings in the teacher's program give everybody 0. 1168: `ps` may look before the program is
  exec'ed, and its output is then compared while it is still empty. 1238: `compare_resultfile`
  goes on with the last character when one file has ended.
- P2 blank.c 42-57: a comparison in the answer is turned round before the key's node is known to
  have children. `a && b < c` crashes the grader even if the key is the same text. 93-107: an
  operand of the key can serve twice: `a + a` is right where the key is `a + b`; hence the condition
  of distinct names in `RightHasAll`. 716-757: the place of an operator depends on how deep the last
  operand is: `x = a + b * c` and `x = (a + b) * c` give one tree, and `(b || c) && a` gives that of
  `b || c && a`; `x + a * b < e` gives that of `x + (a * b < e)`.
- P2 blank.c, `make_tree` (texts that are not in the instance):
  - 647-656, 681-697: when the contents of a bracket are taken over, `cur` stays at the operand before the
    bracket, and what follows goes there: in the tree of `a * c | (f | h) * k`, where `*k` becomes one token
    (see below), that token stands before `f` and `h`, and `&e` of `a & b | (c | d) & e` before `c` and `d`;
    hence `InPlace`.
  - 603-632: `f(-(a), b)` loses `b`; hence `InPlace` too.
  - 711-715: an operator joins `cur` of the same name also after a bracket has been closed:
    `a && (b || c) || d` gives the tree of `a && (b || c || d)`.
- P2 blank.c, `make_tokens` (a `RightIsFound` that holds has `SignedAnd` and `SizedOperand` as its only
  exceptions; the rest of these texts are not in the instance):
  - 563, 1218: `sizeof(int) * n`, also within `malloc(...)`, makes the grader loop for ever: the cast
    is found again and `reset_tokens` returns true without a change.
  - 253: the test for a bit-and is whether the token before has an operator in it, so in `-a & b`,
    `*a & b` and `a->b & c` the `&` is an address and the answer is refused.
  - 407-416, 253: a `+`, `-` or `&` after a bracket is the sign of the next name; 343-369: `a*((b+c)+d)` is
    refused, and `a*((b))` makes tokens whose brackets do not match.
  - 296-316: `a++*-b` becomes `a++`, `*b`, `-`, and `a++ * -b` becomes `a++`, `*-`, `b`.
  - 283, 1107: a name that only contains the name of a type (`point`) is taken for one: `point * b` is a
    pointer, `(point) + b` a cast. `pid` is in `datatype`, so an expression that begins with a variable
    `pid` is a declaration and compared as a text.
  - 1249-1262: `(int)(a)+b` loses `+b`, `(int)(a+b)` is refused; `malloc(sizeof(int))` loses its brackets.
  - 420-441: `%`, `.`, `[` and `]` are characters of names: `a%b` is one token and `a % b` is three.
  - 452-471: names side by side are noticed only where a pass ends there: `a + b c` is accepted.
  - 293-315: a star as the last character is never passed: `row` runs out of the array, and for `a***` the loop is
    endless. 603-629 (`make_tree`): the arguments of `a(b` are looked for beyond the tokens. 1280-1292:
    `rtrim` returns a local array.
- P1 add.c:76: two prompts that add one file in one second write into one version; what is in it is
  mixed. add.c:79: an add that was named in one second and goes on in the next empties the version another
  add has completed in the first. common.c:193 and add.c:93: an interrupted add or recover leaves an empty file.
- E: `sigsetjmp1.c` handles `SIGINT` before its first `setjmp` and jumps through a buffer never set
  if the signal is that early; hence its exception in `JumpsHome`. `sigsuspend2.c:36` says that it
  waits for `SIGUSR1`, which is what `wait_mask` blocks: it is `SIGINT` that wakes it; a `SIGINT`
  between `signal` and `sigprocmask` is handled and waited for in vain. `execl2.c:22` says that the
  last line is not printed; the parent prints it. `wait2.c` and `execv1.c` print an uninitialised status
  when `fork` fails. `fork1.c` prints "before fork" twice where its output is not a terminal; hence its
  exception in `WrittenOnce`. `pause.c` and `alarm` in general: an alarm that rings before `pause` is
  not waited for. `sigaction3.c:16` sets the flags of the wrong structure. `wait1.c:50` says that a core
  file is there, which depends on a limit.

## 7. Plan

Done: every module of section 2. The order was by importance: the shared list of `ssu_monitor` with
its registry and proofs, the daemon, the record locks, the backup, the grader, the store of versions,
the exercises, the tokens; then the proofs about the store and the commands of `ssu_backup`, the
daemon at work, the list of daemons with a single impatient user, the grader, the exercises, the
tokens and the trees. Left is:

1. Whatever part of `RightHasAll` follows from `compare_tree` visiting both trees in step, with
   `compare_tree` as a machine with a stack; `RightIsFound` is about particular texts and stays with TLC.
2. `NothingLost` for the keys' trees, in a heap that other trees are in and that `change_sibling` has altered.
