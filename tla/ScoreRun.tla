------------------------------- MODULE ScoreRun ------------------------------
(***************************************************************************)
(* ssu_score (P2): how a program question is graded.  The teacher's and    *)
(* the student's program are compiled; the student's one runs in the       *)
(* background and the grader looks for it with ps, by its name; then it    *)
(* compares the outputs.  The students' programs of one question have one  *)
(* name, <question>.stdexe, and are graded one after the other.            *)
(***************************************************************************)
EXTENDS Integers, SequencesExt

CONSTANTS
  Students,    \* the students, as a sequence in the order of grading
  Texts,       \* what the programs may print
  Lower,       \* to_lower_case, as a function on characters
  Space,       \* the character ' '
  OVER,        \* seconds a program may run
  MaxWarnings  \* bound: warnings of one compilation

Ids   == ToSet(Students)
Chars == DOMAIN Lower

ASSUME StudentsAssumption ==
  Students \in Seq(ToSet(Students)) /\ Students # << >> /\ IsInjective(Students)
ASSUME TextsAssumption ==
  /\ Texts \subseteq Seq(Chars)
  /\ Lower \in [Chars -> Chars] /\ \A c \in Chars: Lower[Lower[c]] = Lower[c]
  /\ Space \in Chars /\ Lower[Space] = Space
ASSUME BoundsAssumption == OVER \in Nat /\ MaxWarnings \in Nat

VARIABLES
  prompt,   \* whether a program always has been exec'ed when ps looks for it
  pc,       \* the grader's next step
  num,      \* the index of the student it grades
  compile,  \* compile_program's result
  pid,      \* whose process inBackground has found, or NoPid
  waited,   \* seconds since start, up to OVER + 1
  ansOut,   \* <question>.stdout of the teacher's program
  out,      \* per student, the student's .stdout
  proc,     \* per student, the process of the student's program
  rest,     \* per student, what it will print yet and whether it ends then
  at1, at2, \* compare_resultfile: how much of each file is read
  c1, c2,   \* and its two characters
  junk,     \* what these are before anything is read
  result    \* the last result of score_program

runVars == <<prompt, ansOut>>
procVars == <<out, proc, rest>>
cmpVars == <<at1, at2, c1, c2, junk>>
vars == <<pc, num, compile, pid, waited, runVars, procVars, cmpVars, result>>

NoPid == "none"
Warning == -100

(* compile_program: false and ERROR are 0, true is 1, or the warnings.     *)
Compiled == {0, 1} \cup {w * Warning: w \in 1..MaxWarnings}

Init ==
  /\ prompt \in BOOLEAN
  /\ pc = "compile" /\ num = 1 /\ compile = 0 /\ result = 0
  /\ pid = NoPid /\ waited = 0
  /\ ansOut \in Texts
  /\ out = [s \in Ids |-> << >>]
  /\ proc = [s \in Ids |-> "none"]
  /\ rest = [s \in Ids |-> [text |-> << >>, ends |-> TRUE]]
  /\ at1 = 0 /\ at2 = 0
  /\ c1 = Space /\ c2 = Space /\ junk = <<Space, Space>>

Goto(at) == pc' = at
Student  == Students[num]
Alive(s) == proc[s] \in {"shell", "running"}

-----------------------------------------------------------------------------
(* score_program: the next student. *)

Graded(value) ==
  /\ result' = value
  /\ num' = num + 1
  /\ Goto(IF num = Len(Students) THEN "done" ELSE "compile")
  /\ compile' = 0 /\ pid' = NoPid /\ waited' = 0

(* gcc of both programs; anything it says of the teacher's one, and an     *)
(* error of the student's one, is the end.                                 *)
Compile ==
  /\ pc = "compile"
  /\ \E c \in Compiled:
       IF c = 0 THEN Graded(0)
                ELSE /\ compile' = c
                     /\ Goto("launch")
                     /\ UNCHANGED <<num, pid, waited, result>>
  /\ UNCHANGED <<runVars, procVars, cmpVars>>

(* The teacher's program has been run; system("<question>.stdexe &") comes *)
(* back when the shell has forked.                                         *)
Launch ==
  /\ pc = "launch"
  /\ out' = [out EXCEPT ![Student] = << >>]
  /\ proc' = [proc EXCEPT ![Student] = "shell"]
  /\ \E t \in Texts, e \in BOOLEAN:
       rest' = [rest EXCEPT ![Student] = [text |-> t, ends |-> e]]
  /\ Goto("ps")
  /\ UNCHANGED <<num, compile, pid, waited, runVars, cmpVars, result>>

(* inBackground: the first of the lines of ps that have the name.  What is *)
(* forked and not exec'ed yet still has the shell's name.                  *)
Named == {s \in Ids: proc[s] = "running"}

Ps ==
  /\ pc = "ps"
  /\ prompt => proc[Student] # "shell"
  /\ IF Named # {}
       THEN /\ pid' \in Named
            /\ Goto("time")
            /\ UNCHANGED cmpVars
       ELSE /\ at1' = 0 /\ at2' = 0
            /\ junk' \in Chars \X Chars
            /\ c1' = junk'[1] /\ c2' = junk'[2]
            /\ Goto("compare")
            /\ UNCHANGED pid
  /\ UNCHANGED <<num, compile, waited, runVars, procVars, result>>

(* Slips: the loop goes on for as long as ps shows something; the outputs  *)
(* are compared although it does.                                          *)
TimeForgotten ==
  /\ pc = "time"
  /\ Goto("ps")
  /\ UNCHANGED <<num, compile, pid, waited, runVars, procVars, cmpVars, result>>

InTimeCompare ==
  /\ pc = "time" /\ waited <= OVER
  /\ at1' = 0 /\ at2' = 0
  /\ Goto("compare")
  /\ UNCHANGED <<num, compile, pid, waited, runVars, procVars, c1, c2, junk, result>>

InTime ==
  /\ pc = "time" /\ waited <= OVER
  /\ Goto("ps")
  /\ UNCHANGED <<num, compile, pid, waited, runVars, procVars, cmpVars, result>>

(* A slip: the student gets nothing, the program goes on. *)
TimeOverNoKill ==
  /\ pc = "time" /\ waited > OVER
  /\ Graded(0)
  /\ UNCHANGED <<runVars, procVars, cmpVars>>

(* kill(pid, SIGKILL); the process may have ended since ps. *)
TimeOver ==
  /\ pc = "time" /\ waited > OVER
  /\ proc' = IF Alive(pid) THEN [proc EXCEPT ![pid] = "killed"] ELSE proc
  /\ Graded(0)
  /\ UNCHANGED <<runVars, out, rest, cmpVars>>

-----------------------------------------------------------------------------
(* compare_resultfile: one character of each file that is not a space.  At *)
(* the end of a file the character stays what was read last.               *)

NextAt(t, at) ==
  LET found == {k \in DOMAIN t: k > at /\ t[k] # Space}
  IN IF found = {} THEN Len(t) + 1 ELSE Min(found)

Got(t, at, c) ==
  IF NextAt(t, at) <= Len(t) THEN Lower[t[NextAt(t, at)]]
  ELSE IF at < Len(t) THEN Space
  ELSE Lower[c]

Ends1 == NextAt(out[Student], at1) > Len(out[Student])
Ends2 == NextAt(ansOut, at2) > Len(ansOut)

(* A slip: the end of either file is the end. *)
BothEndEither ==
  /\ pc = "compare" /\ (Ends1 \/ Ends2)
  /\ Graded(compile)
  /\ UNCHANGED <<runVars, procVars, cmpVars>>

BothEnd ==
  /\ pc = "compare" /\ Ends1 /\ Ends2
  /\ Graded(compile)
  /\ UNCHANGED <<runVars, procVars, cmpVars>>

Differ ==
  /\ pc = "compare" /\ ~(Ends1 /\ Ends2)
  /\ Got(out[Student], at1, c1) # Got(ansOut, at2, c2)
  /\ Graded(0)
  /\ UNCHANGED <<runVars, procVars, cmpVars>>

Agree ==
  /\ pc = "compare" /\ ~(Ends1 /\ Ends2)
  /\ Got(out[Student], at1, c1) = Got(ansOut, at2, c2)
  /\ c1' = Got(out[Student], at1, c1) /\ c2' = c1'
  /\ at1' = IF Ends1 THEN Len(out[Student]) ELSE NextAt(out[Student], at1)
  /\ at2' = IF Ends2 THEN Len(ansOut) ELSE NextAt(ansOut, at2)
  /\ UNCHANGED <<pc, num, compile, pid, waited, runVars, procVars, junk, result>>

-----------------------------------------------------------------------------
(* The programs, and the clock while the grader waits. *)

Exec(s) == /\ proc[s] = "shell"
           /\ proc' = [proc EXCEPT ![s] = "running"]
           /\ UNCHANGED <<pc, num, compile, pid, waited, runVars, out, rest, cmpVars, result>>

PrintChar(s) ==
  /\ proc[s] = "running" /\ rest[s].text # << >>
  /\ out' = [out EXCEPT ![s] = Append(@, Head(rest[s].text))]
  /\ rest' = [rest EXCEPT ![s].text = Tail(@)]
  /\ UNCHANGED <<pc, num, compile, pid, waited, runVars, proc, cmpVars, result>>

Finish(s) ==
  /\ proc[s] = "running" /\ rest[s].text = << >> /\ rest[s].ends
  /\ proc' = [proc EXCEPT ![s] = "ended"]
  /\ UNCHANGED <<pc, num, compile, pid, waited, runVars, out, rest, cmpVars, result>>

Tick == /\ pc \in {"ps", "time"} /\ waited <= OVER
        /\ waited' = waited + 1
        /\ UNCHANGED <<pc, num, compile, pid, runVars, procVars, cmpVars, result>>

Grader == \/ Compile \/ Launch \/ Ps \/ InTime \/ TimeOver
          \/ BothEnd \/ Differ \/ Agree

Next == Grader \/ Tick \/ \E s \in Ids: Exec(s) \/ PrintChar(s) \/ Finish(s)

Spec == Init /\ [][Next]_vars

(* The grader runs, time passes and what is forked is exec'ed.  Nothing is *)
(* asked of the students' programs.                                        *)
FairSpec == /\ Spec /\ WF_vars(Grader) /\ WF_vars(Tick)
            /\ \A s \in Ids: WF_vars(Exec(s))

-----------------------------------------------------------------------------
(* Properties *)

(* If ps always comes after exec: the output that is compared is that of a *)
(* program that has ended, all of it.                                      *)
FinalOutput ==
  prompt /\ pc = "compare" => proc[Student] = "ended" /\ rest[Student].text = << >>

(* If ps always comes after exec: no program is left running when the next *)
(* student is graded, so that a name that ps shows is never that of an     *)
(* earlier student's program, which would take the later one's points.     *)
NoneLeft ==
  prompt => \A s \in Ids: Alive(s) => num <= Len(Students) /\ s = Student /\ pc # "compile"

(* Why the two hold.  A program that has ended has printed all; the        *)
(* grader comes to its next step only when the last student's program is   *)
(* gone, because what ps has shown is always that student's.               *)
Types ==
  /\ pc \in {"compile", "launch", "ps", "time", "compare", "done"}
  /\ proc \in [Ids -> {"none", "shell", "running", "ended", "killed"}]
  /\ rest \in [Ids -> [text: Seq(Chars), ends: BOOLEAN]]
EndedPrinted == \A s \in Ids: proc[s] = "ended" => rest[s].text = << >>
NowGraded    == pc # "done" => num \in DOMAIN Students
OnlyStudent  == \A s \in Ids: Alive(s) => pc \in {"ps", "time"} /\ s = Student
WhileRunning ==
  /\ pc \in {"ps", "time"} => proc[Student] \in {"shell", "running", "ended"}
  /\ pc = "time" => pid = Student
  /\ pc = "compare" => proc[Student] = "ended"
RunInv == Types /\ EndedPrinted /\ NowGraded /\ (prompt => OnlyStudent /\ WhileRunning)

(* The characters of a text that count, and the how-many-eth each is. *)
Kept(t)    == {k \in DOMAIN t: t[k] # Space}
Rank(t, k) == Cardinality({i \in Kept(t): i <= k})

(* What compare_resultfile goes on with when a text is at its end. *)
Pad(t, c) == IF t = << >> THEN Lower[c] ELSE Lower[Last(t)]

(* Two texts pass for the same if they are, but for spaces and capitals,   *)
(* or if what one of them has more repeats the last character of the other *)
(* one: "no" passes for "nooo".                                            *)
PassFor(t1, t2, j) ==
  /\ \A a \in Kept(t1), b \in Kept(t2): Rank(t1, a) = Rank(t2, b) => Lower[t1[a]] = Lower[t2[b]]
  /\ \A a \in Kept(t1): Rank(t1, a) > Cardinality(Kept(t2)) => Lower[t1[a]] = Pad(t2, j[2])
  /\ \A b \in Kept(t2): Rank(t2, b) > Cardinality(Kept(t1)) => Lower[t2[b]] = Pad(t1, j[1])

(* If ps always comes after exec: a program that compiles gets its points  *)
(* exactly if its output passes for the teacher's, and only one that has   *)
(* run for more than OVER seconds gets nothing without a comparison.       *)
VerdictExact ==
  [][prompt /\ num' # num /\ compile # 0 =>
       IF pc = "compare" /\ PassFor(out[Student], ansOut, junk)
         THEN result' = compile
         ELSE result' = 0 /\ (pc = "compare" \/ waited > OVER)]_vars

(* Why it holds.  As far as two texts have been compared they pass for one *)
(* another; where one is behind it is at its end, and repeats its last     *)
(* character from there on.                                                *)
AllRead(t, at) == \A k \in Kept(t): k <= at

Agreed(t1, a1, r1, t2, a2, r2, j) ==
  /\ a1 \in 0..Len(t1) /\ a2 \in 0..Len(t2) /\ r1 \in Chars /\ r2 \in Chars
  /\ Rank(t1, a1) < Rank(t2, a2) => AllRead(t1, a1)
  /\ Rank(t2, a2) < Rank(t1, a1) => AllRead(t2, a2)
  /\ AllRead(t1, a1) => Got(t1, a1, r1) = Pad(t1, j[1])
  /\ AllRead(t2, a2) => Got(t2, a2, r2) = Pad(t2, j[2])
  /\ \A a \in Kept(t1), b \in Kept(t2):
       a <= a1 /\ b <= a2 /\ Rank(t1, a) = Rank(t2, b) => Lower[t1[a]] = Lower[t2[b]]
  /\ \A a \in Kept(t1): a <= a1 /\ Rank(t1, a) > Cardinality(Kept(t2)) =>
                          Lower[t1[a]] = Pad(t2, j[2])
  /\ \A b \in Kept(t2): b <= a2 /\ Rank(t2, b) > Cardinality(Kept(t1)) =>
                          Lower[t2[b]] = Pad(t1, j[1])

VerdictInv ==
  /\ out \in [Ids -> Seq(Chars)] /\ ansOut \in Seq(Chars) /\ junk \in Chars \X Chars
  /\ pc = "compile" => compile = 0
  /\ prompt /\ pc = "compare" => Agreed(out[Student], at1, c1, ansOut, at2, c2, junk)

(* All students are graded, whatever their programs do and however late    *)
(* ps and kill come.                                                       *)
GradingEnds == <>(pc = "done")
=============================================================================
