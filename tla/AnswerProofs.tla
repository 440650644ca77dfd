---------------------------- MODULE AnswerProofs ----------------------------
(***************************************************************************)
(* How ssu_score deals with an answer, for answers of any length.          *)
(*                                                                         *)
(* A program: where ps comes after exec, the grader compares only what a   *)
(* program that has ended has written, leaves no program behind, and gives *)
(* points exactly for an output that passes for the teacher's: for any     *)
(* number of students, outputs and time limits.                            *)
(*                                                                         *)
(* A blank: no loop of make_tokens goes on for ever but over a cast in a   *)
(* sizeof, its array is large enough, and of a text that is read in its    *)
(* order it loses nothing; nor does make_tree, whose steps are in          *)
(* TreeProofs, of tokens that are put where they are read.                 *)
(***************************************************************************)
EXTENDS ScoreRun, TreeProofs

LEMMA StudentsFact == /\ Len(Students) \in Nat \ {0}
                      /\ DOMAIN Students = 1..Len(Students)
                      /\ \A i \in DOMAIN Students: Students[i] \in Ids
  BY StudentsAssumption DEF Ids, ToSet

LEMMA TextsFact == Texts \subseteq Seq(Chars)
  BY TextsAssumption

LEMMA InitRuns == Init => RunInv
  BY StudentsFact DEF Init, RunInv, Types, EndedPrinted, NowGraded, OnlyStudent, WhileRunning, Alive

(* The next student's turn comes when nobody's program is alive. *)
LEMMA GradedKeeps ==
  ASSUME RunInv, NEW value, Graded(value), pc # "done",
         proc' \in [Ids -> {"none", "shell", "running", "ended", "killed"}],
         UNCHANGED <<prompt, rest>>,
         \A s \in Ids: proc'[s] = "ended" => proc[s] = "ended",
         prompt => \A s \in Ids: proc'[s] \notin {"shell", "running"}
  PROVE  RunInv'
<1> USE DEF RunInv
<1>1. pc' \in {"compile", "done"} /\ Types'
  BY DEF Graded, Goto, Types
<1>2. EndedPrinted'  BY DEF EndedPrinted
<1>3. NowGraded'  BY StudentsFact DEF NowGraded, Graded, Goto
<1>4. prompt' => OnlyStudent' /\ WhileRunning'
  BY <1>1 DEF OnlyStudent, WhileRunning, Alive
<1> QED  BY <1>1, <1>2, <1>3, <1>4

LEMMA CompileKeeps == ASSUME RunInv, Compile PROVE RunInv'
<1> USE DEF RunInv
<1>1. PICK c \in Compiled: IF c = 0 THEN Graded(0)
                           ELSE /\ compile' = c /\ Goto("launch")
                                /\ UNCHANGED <<num, pid, waited, result>>
  BY DEF Compile
<1>2. pc = "compile" /\ UNCHANGED <<prompt, proc, rest>>
  BY DEF Compile, runVars, procVars
<1>3. CASE c = 0
  <2>1. prompt => \A s \in Ids: proc'[s] \notin {"shell", "running"}
    BY <1>2 DEF OnlyStudent, Alive
  <2> QED  BY <1>1, <1>2, <1>3, <2>1, GradedKeeps DEF Types
<1>4. CASE c # 0
  BY <1>1, <1>2, <1>4 DEF Goto, Types, EndedPrinted, NowGraded, OnlyStudent, WhileRunning, Alive, Student
<1> QED  BY <1>3, <1>4

LEMMA LaunchKeeps == ASSUME RunInv, Launch PROVE RunInv'
<1> USE DEF RunInv
<1>1. Student \in Ids /\ Student' = Student
  BY StudentsFact DEF Launch, NowGraded, Student
<1>2. PICK t \in Texts, e \in BOOLEAN: rest' = [rest EXCEPT ![Student] = [text |-> t, ends |-> e]]
  BY DEF Launch
<1>3. Types'  BY <1>1, <1>2, TextsFact DEF Launch, Goto, Types
<1>4. proc'[Student] = "shell" /\ \A s \in Ids \ {Student}: proc'[s] = proc[s] /\ rest'[s] = rest[s]
  BY <1>1, <1>2 DEF Launch, Types
<1>5. EndedPrinted'  BY <1>4 DEF EndedPrinted
<1>6. NowGraded'  BY DEF Launch, Goto, NowGraded
<1>7. prompt' => OnlyStudent' /\ WhileRunning'
  BY <1>1, <1>4 DEF Launch, Goto, runVars, OnlyStudent, WhileRunning, Alive
<1> QED  BY <1>3, <1>5, <1>6, <1>7

LEMMA PsKeeps == ASSUME RunInv, Ps PROVE RunInv'
<1> USE DEF RunInv
<1>1. Student \in Ids /\ Student' = Student
  BY StudentsFact DEF Ps, NowGraded, Student
<1>2. UNCHANGED <<prompt, proc, rest, num>> /\ pc' \in {"time", "compare"}
  BY DEF Ps, runVars, procVars, Goto
<1>3. Types' /\ EndedPrinted' /\ NowGraded'
  BY <1>2 DEF Types, EndedPrinted, NowGraded, Ps
<1>4. ASSUME prompt PROVE OnlyStudent' /\ WhileRunning'
  <2>1. Named \subseteq {Student}
    BY <1>4 DEF Named, OnlyStudent, Alive
  <2>2. CASE Named # {}
    <3>1. pid' = Student /\ pc' = "time"
      BY <2>1, <2>2 DEF Ps, Goto
    <3> QED  BY <1>1, <1>2, <1>4, <3>1 DEF Ps, OnlyStudent, WhileRunning, Alive
  <2>3. CASE Named = {}
    <3>1. proc[Student] = "ended" /\ pc' = "compare"
      BY <1>1, <1>4, <2>3 DEF Ps, Goto, Named, WhileRunning
    <3>2. \A s \in Ids: ~Alive(s)
      BY <1>4, <3>1 DEF OnlyStudent, Alive
    <3> QED  BY <1>1, <1>2, <3>1, <3>2 DEF OnlyStudent, WhileRunning, Alive
  <2> QED  BY <2>2, <2>3
<1> QED  BY <1>2, <1>3, <1>4

LEMMA InTimeKeeps == ASSUME RunInv, InTime PROVE RunInv'
  BY DEF RunInv, InTime, Goto, runVars, procVars, Types, EndedPrinted, NowGraded, OnlyStudent,
         WhileRunning, Alive, Student

LEMMA TimeOverKeeps == ASSUME RunInv, TimeOver PROVE RunInv'
<1> USE DEF RunInv
<1>1. proc' = IF Alive(pid) THEN [proc EXCEPT ![pid] = "killed"] ELSE proc
  BY DEF TimeOver
<1>2. proc' \in [Ids -> {"none", "shell", "running", "ended", "killed"}]
  BY <1>1 DEF Types
<1>3. \A s \in Ids: proc'[s] \in {proc[s], "killed"}
  BY <1>1 DEF Types
<1>4. ASSUME prompt PROVE \A s \in Ids: proc'[s] \notin {"shell", "running"}
  <2>1. pid = Student
    BY <1>4 DEF TimeOver, WhileRunning
  <2>2. TAKE s \in Ids
  <2>3. CASE s = pid
    BY <1>1, <2>3 DEF Types, Alive
  <2>4. CASE s # pid
    <3>1. ~Alive(s)  BY <1>4, <2>1, <2>4 DEF OnlyStudent
    <3> QED  BY <1>3, <3>1 DEF Alive
  <2> QED  BY <2>3, <2>4
<1>5. UNCHANGED <<prompt, rest>> /\ Graded(0) /\ pc # "done"
  BY DEF TimeOver, runVars
<1> QED  BY <1>2, <1>3, <1>4, <1>5, GradedKeeps

LEMMA CompareKeeps == ASSUME RunInv, BothEnd \/ Differ \/ Agree PROVE RunInv'
<1> USE DEF RunInv
<1>1. pc = "compare" /\ UNCHANGED <<prompt, proc, rest>>
  BY DEF BothEnd, Differ, Agree, runVars, procVars
<1>2. CASE BothEnd \/ Differ
  <2>1. PICK value \in {compile, 0}: Graded(value)
    BY <1>2 DEF BothEnd, Differ
  <2>2. prompt => \A s \in Ids: proc'[s] \notin {"shell", "running"}
    BY <1>1 DEF OnlyStudent, Alive
  <2> QED  BY <1>1, <2>1, <2>2, GradedKeeps DEF Types
<1>3. CASE Agree
  BY <1>1, <1>3 DEF Agree, Types, EndedPrinted, NowGraded, OnlyStudent, WhileRunning, Alive, Student
<1> QED  BY <1>2, <1>3

LEMMA TickKeeps == ASSUME RunInv, Tick PROVE RunInv'
  BY DEF RunInv, Tick, runVars, procVars, Types, EndedPrinted, NowGraded, OnlyStudent,
         WhileRunning, Alive, Student

LEMMA ProgramKeeps ==
  ASSUME RunInv, NEW s \in Ids, Exec(s) \/ PrintChar(s) \/ Finish(s)
  PROVE  RunInv'
<1> USE DEF RunInv
<1>1. UNCHANGED <<prompt, pc, num, pid>> /\ Alive(s) /\ Student' = Student
  BY DEF Exec, PrintChar, Finish, runVars, Alive, Student
<1>2. \A q \in Ids \ {s}: proc'[q] = proc[q] /\ rest'[q] = rest[q]
  BY DEF Exec, PrintChar, Finish, Types
<1>3. proc'[s] \in {"running", "ended"} /\ (proc'[s] = "ended" => rest'[s].text = << >>)
  BY DEF Exec, PrintChar, Finish, Types
<1>4. Types'
  <2>1. CASE Exec(s)  BY <2>1 DEF Exec, Types
  <2>2. CASE PrintChar(s)
    <3>1. rest[s].text \in Seq(Chars) /\ rest[s].text # << >>
      BY <2>2 DEF PrintChar, Types
    <3>2. Tail(rest[s].text) \in Seq(Chars)  BY <3>1
    <3> QED  BY <2>2, <3>2 DEF PrintChar, Types
  <2>3. CASE Finish(s)  BY <2>3 DEF Finish, Types
  <2> QED  BY <2>1, <2>2, <2>3
<1>5. EndedPrinted'  BY <1>2, <1>3 DEF EndedPrinted
<1>6. NowGraded'  BY <1>1 DEF NowGraded
<1>7. prompt' => OnlyStudent' /\ WhileRunning'
  <2> SUFFICES ASSUME prompt PROVE OnlyStudent' /\ WhileRunning'
    BY <1>1
  <2>1. pc \in {"ps", "time"} /\ s = Student
    BY <1>1 DEF OnlyStudent
  <2> QED  BY <1>1, <1>2, <1>3, <2>1 DEF OnlyStudent, WhileRunning, Alive
<1> QED  BY <1>4, <1>5, <1>6, <1>7

LEMMA NextKeeps == RunInv /\ [Next]_vars => RunInv'
<1> SUFFICES ASSUME RunInv, [Next]_vars PROVE RunInv'
  OBVIOUS
<1>1. CASE Grader
  BY <1>1, CompileKeeps, LaunchKeeps, PsKeeps, InTimeKeeps, TimeOverKeeps, CompareKeeps DEF Grader
<1>2. CASE Tick  BY <1>2, TickKeeps
<1>3. CASE \E s \in Ids: Exec(s) \/ PrintChar(s) \/ Finish(s)
  BY <1>3, ProgramKeeps
<1>4. CASE UNCHANGED vars
  BY <1>4 DEF vars, runVars, procVars, RunInv, Types, EndedPrinted, NowGraded, OnlyStudent,
              WhileRunning, Alive, Student
<1> QED  BY <1>1, <1>2, <1>3, <1>4 DEF Next

LEMMA RunInvHolds == Spec => []RunInv
  BY InitRuns, NextKeeps, PTL DEF Spec

(* The invariant says that a program is over when its output is compared,  *)
(* and one that is over has printed everything (execute_program,           *)
(* compare_resultfile).                                                    *)
THEOREM FinalOutputCorrect == Spec => []FinalOutput
<1>1. RunInv => FinalOutput
  BY StudentsFact DEF RunInv, EndedPrinted, NowGraded, WhileRunning, FinalOutput, Student
<1> QED  BY <1>1, RunInvHolds, PTL

(* No student's program outlives its grading, so that ps never shows one   *)
(* student's program under another's (execute_program, inBackground).      *)
THEOREM NoneLeftCorrect == Spec => []NoneLeft
<1>1. RunInv => NoneLeft
  BY StudentsFact DEF RunInv, NowGraded, OnlyStudent, NoneLeft
<1> QED  BY <1>1, RunInvHolds, PTL

-----------------------------------------------------------------------------
(* Places in a text *)

LEMMA KeptFinite ==
  ASSUME NEW t \in Seq(Chars)
  PROVE  /\ IsFiniteSet(Kept(t)) /\ Cardinality(Kept(t)) \in Nat
         /\ Kept(t) \subseteq 1..Len(t) /\ Len(t) \in Nat
         /\ \A k \in Kept(t): t[k] \in Chars
<1>1. Len(t) \in Nat /\ DOMAIN t = 1..Len(t) /\ \A k \in 1..Len(t): t[k] \in Chars
  BY LenProperties
<1>2. Kept(t) \subseteq 1..Len(t)  BY <1>1 DEF Kept
<1>3. IsFiniteSet(1..Len(t))  BY <1>1, FS_Interval
<1>4. IsFiniteSet(Kept(t))  BY <1>2, <1>3, FS_Subset
<1> QED  BY <1>1, <1>2, <1>4, FS_CardinalityType

(* Ranks are numbers, and at most as many as there are characters. *)
LEMMA RankTypes ==
  ASSUME NEW t \in Seq(Chars), NEW at
  PROVE  /\ Rank(t, at) \in Nat /\ Rank(t, at) <= Cardinality(Kept(t))
         /\ IsFiniteSet({k \in Kept(t): k <= at})
         /\ AllRead(t, at) => Rank(t, at) = Cardinality(Kept(t))
<1> DEFINE Upto == {k \in Kept(t): k <= at}
<1>1. IsFiniteSet(Kept(t)) /\ Upto \subseteq Kept(t)  BY KeptFinite
<1>2. IsFiniteSet(Upto) /\ Cardinality(Upto) <= Cardinality(Kept(t))  BY <1>1, FS_Subset
<1>3. Cardinality(Upto) \in Nat  BY <1>2, FS_CardinalityType
<1>4. AllRead(t, at) => Upto = Kept(t)  BY DEF AllRead
<1> QED  BY <1>2, <1>3, <1>4 DEF Rank

(* ... and grow from place to place. *)
LEMMA RankGrows ==
  ASSUME NEW t \in Seq(Chars), NEW a \in Nat, NEW b \in Nat
  PROVE  /\ a <= b => Rank(t, a) <= Rank(t, b)
         /\ b \in Kept(t) /\ a < b => Rank(t, a) < Rank(t, b)
<1> DEFINE A == {k \in Kept(t): k <= a}
           B == {k \in Kept(t): k <= b}
<1>1. IsFiniteSet(A) /\ IsFiniteSet(B)  BY RankTypes
<1>2. Kept(t) \subseteq Nat  BY KeptFinite
<1>3. a <= b => A \subseteq B  BY <1>2
<1>4. a <= b => Cardinality(A) <= Cardinality(B)  BY <1>1, <1>3, FS_Subset
<1>5. b \in Kept(t) /\ a < b => A \subseteq B /\ A # B  BY <1>2, <1>3
<1>6. b \in Kept(t) /\ a < b => Cardinality(A) < Cardinality(B)
  <2>1. Cardinality(A) \in Nat /\ Cardinality(B) \in Nat  BY <1>1, FS_CardinalityType
  <2>2. b \in Kept(t) /\ a < b => Cardinality(A) <= Cardinality(B) /\ Cardinality(A) # Cardinality(B)
    BY <1>1, <1>5, FS_Subset
  <2> QED  BY <2>1, <2>2
<1> QED  BY <1>4, <1>6 DEF Rank

(* The next character that counts. *)
LEMMA NextIs ==
  ASSUME NEW t \in Seq(Chars), NEW at \in 0..Len(t)
  PROVE  /\ AllRead(t, at) <=> NextAt(t, at) > Len(t)
         /\ NextAt(t, at) \in 1..(Len(t) + 1)
         /\ ~AllRead(t, at) => /\ NextAt(t, at) \in Kept(t) /\ NextAt(t, at) > at
                               /\ NextAt(t, at) \in 1..Len(t)
                               /\ \A k \in Kept(t): k <= NextAt(t, at) => k <= at \/ k = NextAt(t, at)
                               /\ Rank(t, NextAt(t, at)) = Rank(t, at) + 1
<1> DEFINE later == {k \in DOMAIN t: k > at /\ t[k] # Space}
           n == NextAt(t, at)
<1>1. Len(t) \in Nat /\ DOMAIN t = 1..Len(t)  BY LenProperties
<1>2. later = {k \in Kept(t): k > at} /\ Kept(t) \subseteq 1..Len(t)  BY KeptFinite DEF Kept
<1>3. n = IF later = {} THEN Len(t) + 1 ELSE Min(later)  BY DEF NextAt
<1> HIDE DEF later, n
<1>4. CASE later = {}
  <2>1. AllRead(t, at)  BY <1>1, <1>2, <1>4 DEF AllRead
  <2> QED  BY <1>1, <1>3, <1>4, <2>1 DEF n
<1>5. CASE later # {}
  <2>1. later \in SUBSET Nat  BY <1>1, <1>2
  <2>2. \E x \in later: \A y \in later: x <= y  BY <1>5, <2>1, LeastNat
  <2>3. n \in later /\ \A y \in later: n <= y  BY <1>3, <1>5, <2>2 DEF Min
  <2>4. n \in Kept(t) /\ n > at /\ n \in 1..Len(t)  BY <1>2, <2>3
  <2>5. \A k \in Kept(t): k <= n => k <= at \/ k = n  BY <1>1, <1>2, <2>3, <2>4
  <2>6. ~AllRead(t, at) /\ ~(n > Len(t))  BY <1>1, <2>4 DEF AllRead
  <2>7. {k \in Kept(t): k <= n} = {k \in Kept(t): k <= at} \cup {n}
    BY <1>1, <1>2, <2>4, <2>5
  <2>8. n \notin {k \in Kept(t): k <= at} /\ IsFiniteSet({k \in Kept(t): k <= at})
    BY <1>1, <2>4, RankTypes, SMTT(60)
  <2>9. Rank(t, n) = Rank(t, at) + 1  BY <2>7, <2>8, FS_AddElement DEF Rank
  <2> QED  BY <2>4, <2>5, <2>6, <2>9 DEF n
<1> QED  BY <1>4, <1>5

(* Where the comparison is in a text after one more character. *)
After(t, at) == IF AllRead(t, at) THEN Len(t) ELSE NextAt(t, at)

LEMMA AfterIs ==
  ASSUME NEW t \in Seq(Chars), NEW at \in 0..Len(t)
  PROVE  /\ After(t, at) \in 0..Len(t)
         /\ AllRead(t, at) => AllRead(t, After(t, at)) /\ Rank(t, After(t, at)) = Rank(t, at)
         /\ ~AllRead(t, at) => After(t, at) \in Kept(t) /\ Rank(t, After(t, at)) = Rank(t, at) + 1
         /\ \A k \in Kept(t): k <= After(t, at) => k <= at \/ (~AllRead(t, at) /\ k = After(t, at))
<1>1. Kept(t) \subseteq 1..Len(t) /\ Len(t) \in Nat  BY KeptFinite
<1>2. CASE AllRead(t, at)
  <2>1. After(t, at) = Len(t)  BY <1>2 DEF After
  <2>2. AllRead(t, Len(t))  BY <1>1 DEF AllRead
  <2>3. Rank(t, at) = Cardinality(Kept(t)) /\ Rank(t, Len(t)) = Cardinality(Kept(t))
    BY <1>2, <2>2, RankTypes
  <2>4. \A k \in Kept(t): k <= at  BY <1>2 DEF AllRead
  <2> QED  BY <1>1, <1>2, <2>1, <2>2, <2>3, <2>4
<1>3. CASE ~AllRead(t, at)
  <2>1. After(t, at) = NextAt(t, at)  BY <1>3 DEF After
  <2>2. NextAt(t, at) \in Kept(t) /\ NextAt(t, at) \in 1..Len(t)  BY <1>3, NextIs
  <2>3. Rank(t, NextAt(t, at)) = Rank(t, at) + 1  BY <1>3, NextIs
  <2>4. \A k \in Kept(t): k <= NextAt(t, at) => k <= at \/ k = NextAt(t, at)  BY <1>3, NextIs
  <2> QED  BY <1>1, <1>3, <2>1, <2>2, <2>3, <2>4
<1> QED  BY <1>2, <1>3

LEMMA GotIs ==
  ASSUME NEW t \in Seq(Chars), NEW at \in 0..Len(t), NEW r \in Chars
  PROVE  /\ Got(t, at, r) \in Chars
         /\ ~AllRead(t, at) => Got(t, at, r) = Lower[t[NextAt(t, at)]]
         /\ AllRead(t, at) => Got(t, at, r) = IF at < Len(t) THEN Space ELSE Lower[r]
<1>1. Len(t) \in Nat /\ \A k \in Kept(t): t[k] \in Chars  BY KeptFinite
<1>2. AllRead(t, at) <=> NextAt(t, at) > Len(t)  BY NextIs
<1>3. ~AllRead(t, at) => NextAt(t, at) \in Kept(t) /\ NextAt(t, at) \in 1..Len(t)  BY NextIs
<1>4. Lower \in [Chars -> Chars] /\ Space \in Chars  BY TextsAssumption
<1>5. CASE AllRead(t, at)
  <2>1. NextAt(t, at) \in 1..(Len(t) + 1)  BY NextIs
  <2>2. ~(NextAt(t, at) <= Len(t))  BY <1>1, <1>2, <1>5, <2>1
  <2> QED  BY <1>4, <1>5, <2>2 DEF Got
<1>6. CASE ~AllRead(t, at)
  <2>1. NextAt(t, at) <= Len(t) /\ t[NextAt(t, at)] \in Chars  BY <1>1, <1>3, <1>6
  <2> QED  BY <1>4, <1>6, <2>1 DEF Got
<1> QED  BY <1>5, <1>6

(* A text that is at its end repeats its last character, from then on.     *)
LEMMA AfterRepeats ==
  ASSUME NEW t \in Seq(Chars), NEW at \in 0..Len(t), NEW r \in Chars, NEW x \in Chars,
         AllRead(t, at) => Got(t, at, r) = Pad(t, x),
         AllRead(t, After(t, at))
  PROVE  Got(t, After(t, at), Got(t, at, r)) = Pad(t, x)
<1> DEFINE g == Got(t, at, r)
           b == After(t, at)
<1>1. Len(t) \in Nat /\ DOMAIN t = 1..Len(t) /\ \A k \in 1..Len(t): t[k] \in Chars
  BY LenProperties
<1>2. g \in Chars /\ b \in 0..Len(t)  BY GotIs, AfterIs
<1>3. /\ \A c \in Chars: Lower[c] \in Chars /\ Lower[Lower[c]] = Lower[c]
      /\ Space \in Chars /\ Lower[Space] = Space
  BY TextsAssumption
<1>4. Got(t, b, g) = IF b < Len(t) THEN Space ELSE Lower[g]  BY <1>2, GotIs
<1>5. CASE AllRead(t, at)
  <2>1. b = Len(t)  BY <1>5 DEF After
  <2>2. g = Pad(t, x)  BY <1>5
  <2>3. Pad(t, x) = Lower[x] \/ \E k \in 1..Len(t): Pad(t, x) = Lower[t[k]]
    <3>1. CASE t = << >>  BY <3>1 DEF Pad
    <3>2. CASE t # << >>
      <4>1. Len(t) \in 1..Len(t)  BY <1>1, <3>2, EmptySeq
      <4> QED  BY <3>2, <4>1 DEF Pad, Last
    <3> QED  BY <3>1, <3>2
  <2>4. Lower[Pad(t, x)] = Pad(t, x)  BY <1>1, <1>3, <2>3
  <2> QED  BY <1>1, <1>4, <2>1, <2>2, <2>4
<1>6. CASE ~AllRead(t, at)
  <2>1. b = NextAt(t, at) /\ b \in 1..Len(t) /\ b \in Kept(t)  BY <1>6, NextIs DEF After
  <2>2. g = Lower[t[b]]  BY <1>6, <2>1, GotIs
  <2>3. t # << >> /\ Len(t) \in 1..Len(t)  BY <1>1, <2>1, EmptySeq
  <2>4. Pad(t, x) = Lower[t[Len(t)]]  BY <2>3 DEF Pad, Last
  <2>5. CASE b = Len(t)
    BY <1>1, <1>3, <1>4, <2>1, <2>2, <2>4, <2>5
  <2>6. CASE b < Len(t)
    <3>1. Len(t) \notin Kept(t)  BY <1>1, <2>1, <2>6 DEF AllRead
    <3>2. t[Len(t)] = Space  BY <1>1, <2>3, <3>1 DEF Kept
    <3> QED  BY <1>3, <1>4, <2>4, <2>6, <3>2
  <2> QED  BY <1>1, <2>1, <2>5, <2>6
<1> QED  BY <1>5, <1>6

-----------------------------------------------------------------------------
(* The comparison *)

LEMMA AgreedSym ==
  ASSUME NEW t1, NEW a1, NEW r1, NEW t2, NEW a2, NEW r2, NEW j,
         Agreed(t1, a1, r1, t2, a2, r2, j)
  PROVE  Agreed(t2, a2, r2, t1, a1, r1, <<j[2], j[1]>>)
<1> DEFINE i == <<j[2], j[1]>>
<1>1. i[1] = j[2] /\ i[2] = j[1]  OBVIOUS
<1> HIDE DEF i
<1>2. \A a \in Kept(t2), b \in Kept(t1):
        a <= a2 /\ b <= a1 /\ Rank(t2, a) = Rank(t1, b) => Lower[t2[a]] = Lower[t1[b]]
  BY DEF Agreed
<1>3. Agreed(t2, a2, r2, t1, a1, r1, i)  BY <1>1, <1>2 DEF Agreed
<1> QED  BY <1>3 DEF i

(* One more character of each, and the same one: what it means for the     *)
(* first text.                                                             *)
LEMMA AgreedHalf ==
  ASSUME NEW t1 \in Seq(Chars), NEW t2 \in Seq(Chars), NEW a1, NEW a2, NEW r1, NEW r2,
         NEW j \in Chars \X Chars,
         Agreed(t1, a1, r1, t2, a2, r2, j),
         Got(t1, a1, r1) = Got(t2, a2, r2)
  PROVE  /\ After(t1, a1) \in 0..Len(t1) /\ Got(t1, a1, r1) \in Chars
         /\ Rank(t1, After(t1, a1)) < Rank(t2, After(t2, a2)) => AllRead(t1, After(t1, a1))
         /\ AllRead(t1, After(t1, a1)) =>
              Got(t1, After(t1, a1), Got(t1, a1, r1)) = Pad(t1, j[1])
         /\ \A a \in Kept(t1): a <= After(t1, a1) /\ Rank(t1, a) > Cardinality(Kept(t2)) =>
                                 Lower[t1[a]] = Pad(t2, j[2])
<1> DEFINE b1 == After(t1, a1)
           b2 == After(t2, a2)
<1>1. /\ a1 \in 0..Len(t1) /\ a2 \in 0..Len(t2) /\ r1 \in Chars /\ r2 \in Chars
      /\ Rank(t1, a1) < Rank(t2, a2) => AllRead(t1, a1)
      /\ Rank(t2, a2) < Rank(t1, a1) => AllRead(t2, a2)
      /\ AllRead(t1, a1) => Got(t1, a1, r1) = Pad(t1, j[1])
      /\ AllRead(t2, a2) => Got(t2, a2, r2) = Pad(t2, j[2])
  BY DEF Agreed
<1>2. /\ Rank(t1, a1) \in Nat /\ Rank(t1, b1) \in Nat /\ Rank(t2, a2) \in Nat /\ Rank(t2, b2) \in Nat
      /\ Rank(t2, b2) <= Cardinality(Kept(t2)) /\ Cardinality(Kept(t2)) \in Nat
  BY RankTypes, KeptFinite
<1>3. /\ b1 \in 0..Len(t1)
      /\ AllRead(t1, a1) => AllRead(t1, b1) /\ Rank(t1, b1) = Rank(t1, a1)
      /\ ~AllRead(t1, a1) => b1 \in Kept(t1) /\ Rank(t1, b1) = Rank(t1, a1) + 1
      /\ \A k \in Kept(t1): k <= b1 => k <= a1 \/ (~AllRead(t1, a1) /\ k = b1)
  BY <1>1, AfterIs
<1>4. /\ AllRead(t2, a2) => Rank(t2, b2) = Rank(t2, a2)
      /\ ~AllRead(t2, a2) => Rank(t2, b2) = Rank(t2, a2) + 1
  BY <1>1, AfterIs
<1>5. Got(t1, a1, r1) \in Chars  BY <1>1, GotIs
<1>6. Rank(t1, b1) < Rank(t2, b2) => AllRead(t1, b1)
  <2> HIDE DEF b1, b2
  <2> QED  BY <1>1, <1>2, <1>3, <1>4
<1>7. AllRead(t1, b1) => Got(t1, b1, Got(t1, a1, r1)) = Pad(t1, j[1])
  <2>1. j[1] \in Chars  OBVIOUS
  <2> QED  BY <1>1, <2>1, AfterRepeats
<1>8. ASSUME NEW a \in Kept(t1), a <= b1, Rank(t1, a) > Cardinality(Kept(t2))
      PROVE  Lower[t1[a]] = Pad(t2, j[2])
  <2> HIDE DEF b1, b2
  <2>1. CASE a <= a1  BY <1>8, <2>1 DEF Agreed
  <2>2. CASE ~AllRead(t1, a1) /\ a = b1
    <3>1. AllRead(t2, a2)  BY <1>1, <1>2, <1>3, <1>4, <1>8, <2>2
    <3>2. Got(t1, a1, r1) = Lower[t1[NextAt(t1, a1)]]  BY <1>1, <2>2, GotIs
    <3>3. a = NextAt(t1, a1)  BY <2>2 DEF After, b1
    <3> QED  BY <1>1, <3>1, <3>2, <3>3
  <2> QED  BY <1>3, <1>8, <2>1, <2>2
<1> QED  BY <1>3, <1>5, <1>6, <1>7, <1>8

LEMMA AgreedStep ==
  ASSUME NEW t1 \in Seq(Chars), NEW t2 \in Seq(Chars), NEW a1, NEW a2, NEW r1, NEW r2,
         NEW j \in Chars \X Chars,
         Agreed(t1, a1, r1, t2, a2, r2, j),
         Got(t1, a1, r1) = Got(t2, a2, r2)
  PROVE  Agreed(t1, After(t1, a1), Got(t1, a1, r1), t2, After(t2, a2), Got(t1, a1, r1), j)
<1> DEFINE b1 == After(t1, a1)
           b2 == After(t2, a2)
           g == Got(t1, a1, r1)
           i == <<j[2], j[1]>>
<1>1. Agreed(t2, a2, r2, t1, a1, r1, i)  BY AgreedSym
<1>2. i \in Chars \X Chars /\ i[1] = j[2] /\ i[2] = j[1]  OBVIOUS
<1>3. /\ b1 \in 0..Len(t1) /\ g \in Chars
      /\ Rank(t1, b1) < Rank(t2, b2) => AllRead(t1, b1)
      /\ AllRead(t1, b1) => Got(t1, b1, g) = Pad(t1, j[1])
      /\ \A a \in Kept(t1): a <= b1 /\ Rank(t1, a) > Cardinality(Kept(t2)) =>
                              Lower[t1[a]] = Pad(t2, j[2])
  BY AgreedHalf
<1>4. g = Got(t2, a2, r2)  OBVIOUS
<1>5. /\ b2 \in 0..Len(t2)
      /\ Rank(t2, b2) < Rank(t1, b1) => AllRead(t2, b2)
      /\ AllRead(t2, b2) => Got(t2, b2, Got(t2, a2, r2)) = Pad(t2, i[1])
      /\ \A b \in Kept(t2): b <= b2 /\ Rank(t2, b) > Cardinality(Kept(t1)) =>
                              Lower[t2[b]] = Pad(t1, i[2])
  <2> HIDE DEF i
  <2> QED  BY <1>1, <1>2, AgreedHalf
<1>6. ASSUME NEW a \in Kept(t1), NEW b \in Kept(t2), a <= b1, b <= b2, Rank(t1, a) = Rank(t2, b)
      PROVE  Lower[t1[a]] = Lower[t2[b]]
  <2>1. /\ a1 \in 0..Len(t1) /\ a2 \in 0..Len(t2) /\ r1 \in Chars /\ r2 \in Chars
        /\ Rank(t1, a1) < Rank(t2, a2) => AllRead(t1, a1)
        /\ Rank(t2, a2) < Rank(t1, a1) => AllRead(t2, a2)
    BY DEF Agreed
  <2>2. a \in Nat /\ b \in Nat /\ a1 \in Nat /\ a2 \in Nat
    <3>1. Kept(t1) \subseteq 1..Len(t1) /\ Kept(t2) \subseteq 1..Len(t2)  BY KeptFinite
    <3> QED  BY <2>1, <3>1
  <2>3. /\ Rank(t1, a1) \in Nat /\ Rank(t2, a2) \in Nat /\ Rank(t1, a) \in Nat /\ Rank(t2, b) \in Nat
    BY RankTypes
  <2>4. /\ a <= a1 \/ (~AllRead(t1, a1) /\ a = b1 /\ Rank(t1, a) = Rank(t1, a1) + 1)
        /\ b <= a2 \/ (~AllRead(t2, a2) /\ b = b2 /\ Rank(t2, b) = Rank(t2, a2) + 1)
    BY <1>6, <2>1, AfterIs
  <2>5. (a <= a1 => Rank(t1, a) <= Rank(t1, a1)) /\ (b <= a2 => Rank(t2, b) <= Rank(t2, a2))
    BY <2>2, RankGrows
  <2>6. CASE a <= a1 /\ b <= a2  BY <1>6, <2>6 DEF Agreed
  <2>7. CASE a = b1 /\ b = b2 /\ ~AllRead(t1, a1) /\ ~AllRead(t2, a2)
    <3>1. g = Lower[t1[NextAt(t1, a1)]] /\ Got(t2, a2, r2) = Lower[t2[NextAt(t2, a2)]]
      BY <2>1, <2>7, GotIs
    <3>2. a = NextAt(t1, a1) /\ b = NextAt(t2, a2)  BY <2>7 DEF After
    <3> QED  BY <1>4, <3>1, <3>2
  <2> HIDE DEF b1, b2
  <2> QED  BY <1>6, <2>1, <2>3, <2>4, <2>5, <2>6, <2>7
<1> HIDE DEF b1, b2, g, i
<1>7. Agreed(t1, b1, g, t2, b2, g, j)  BY <1>2, <1>3, <1>4, <1>5, <1>6 DEF Agreed
<1> QED  BY <1>7 DEF b1, b2, g

(* Two texts that are both at their ends pass for one another ... *)
LEMMA EndedPass ==
  ASSUME NEW t1 \in Seq(Chars), NEW t2 \in Seq(Chars), NEW a1, NEW a2, NEW r1, NEW r2, NEW j,
         Agreed(t1, a1, r1, t2, a2, r2, j), AllRead(t1, a1), AllRead(t2, a2)
  PROVE  PassFor(t1, t2, j)
  BY DEF Agreed, AllRead, PassFor

(* ... and two that differ in their next characters do not. *)
LEMMA DifferPass ==
  ASSUME NEW t1 \in Seq(Chars), NEW t2 \in Seq(Chars), NEW a1, NEW a2, NEW r1, NEW r2,
         NEW j \in Chars \X Chars,
         Agreed(t1, a1, r1, t2, a2, r2, j),
         ~(AllRead(t1, a1) /\ AllRead(t2, a2)), Got(t1, a1, r1) # Got(t2, a2, r2)
  PROVE  ~PassFor(t1, t2, j)
<1> SUFFICES ASSUME PassFor(t1, t2, j) PROVE FALSE
  OBVIOUS
<1>1. /\ a1 \in 0..Len(t1) /\ a2 \in 0..Len(t2) /\ r1 \in Chars /\ r2 \in Chars
      /\ Rank(t1, a1) < Rank(t2, a2) => AllRead(t1, a1)
      /\ Rank(t2, a2) < Rank(t1, a1) => AllRead(t2, a2)
      /\ AllRead(t1, a1) => Got(t1, a1, r1) = Pad(t1, j[1])
      /\ AllRead(t2, a2) => Got(t2, a2, r2) = Pad(t2, j[2])
  BY DEF Agreed
<1>2. /\ Rank(t1, a1) \in Nat /\ Rank(t2, a2) \in Nat
      /\ AllRead(t1, a1) => Rank(t1, a1) = Cardinality(Kept(t1))
      /\ AllRead(t2, a2) => Rank(t2, a2) = Cardinality(Kept(t2))
  BY RankTypes
<1>3. ~AllRead(t1, a1) => /\ NextAt(t1, a1) \in Kept(t1)
                          /\ Rank(t1, NextAt(t1, a1)) = Rank(t1, a1) + 1
                          /\ Got(t1, a1, r1) = Lower[t1[NextAt(t1, a1)]]
  BY <1>1, NextIs, GotIs
<1>4. ~AllRead(t2, a2) => /\ NextAt(t2, a2) \in Kept(t2)
                          /\ Rank(t2, NextAt(t2, a2)) = Rank(t2, a2) + 1
                          /\ Got(t2, a2, r2) = Lower[t2[NextAt(t2, a2)]]
  BY <1>1, NextIs, GotIs
<1>5. CASE ~AllRead(t1, a1) /\ ~AllRead(t2, a2)
  <2>1. Rank(t1, a1) = Rank(t2, a2)  BY <1>1, <1>2, <1>5
  <2> QED  BY <1>3, <1>4, <1>5, <2>1 DEF PassFor
<1>6. CASE AllRead(t1, a1) /\ ~AllRead(t2, a2)
  <2>1. Rank(t2, NextAt(t2, a2)) > Cardinality(Kept(t1))  BY <1>1, <1>2, <1>4, <1>6
  <2> QED  BY <1>1, <1>4, <1>6, <2>1 DEF PassFor
<1>7. CASE ~AllRead(t1, a1) /\ AllRead(t2, a2)
  <2>1. Rank(t1, NextAt(t1, a1)) > Cardinality(Kept(t2))  BY <1>1, <1>2, <1>3, <1>7
  <2> QED  BY <1>1, <1>3, <1>7, <2>1 DEF PassFor
<1> QED  BY <1>5, <1>6, <1>7

(* Nothing is compared yet, and the characters are what was on the stack.  *)
LEMMA AgreedStart ==
  ASSUME NEW t1 \in Seq(Chars), NEW t2 \in Seq(Chars), NEW j \in Chars \X Chars
  PROVE  Agreed(t1, 0, j[1], t2, 0, j[2], j)
<1>1. ASSUME NEW t \in Seq(Chars), NEW x \in Chars
      PROVE  /\ 0 \in 0..Len(t) /\ Rank(t, 0) = 0
             /\ \A k \in Kept(t): ~(k <= 0)
             /\ AllRead(t, 0) => Got(t, 0, x) = Pad(t, x)
  <2>1. Kept(t) \subseteq 1..Len(t) /\ Len(t) \in Nat /\ DOMAIN t = 1..Len(t)
    BY KeptFinite, LenProperties
  <2>2. {k \in Kept(t): k <= 0} = {}  BY <2>1
  <2>3. Rank(t, 0) = 0  BY <2>2, FS_EmptySet DEF Rank
  <2>4. ASSUME AllRead(t, 0) PROVE Got(t, 0, x) = Pad(t, x)
    <3>1. 0 \in 0..Len(t)  BY <2>1
    <3>2. Got(t, 0, x) = IF 0 < Len(t) THEN Space ELSE Lower[x]  BY <2>4, <3>1, GotIs
    <3>3. CASE t = << >>  BY <3>2, <3>3 DEF Pad
    <3>4. CASE t # << >>
      <4>1. 0 < Len(t) /\ Len(t) \in 1..Len(t)  BY <2>1, <3>4, EmptySeq
      <4>2. Len(t) \notin Kept(t)  BY <2>1, <2>4, <4>1 DEF AllRead
      <4>3. t[Len(t)] = Space  BY <2>1, <4>1, <4>2 DEF Kept
      <4> QED  BY <3>2, <3>4, <4>1, <4>3, TextsAssumption DEF Pad, Last
    <3> QED  BY <3>3, <3>4
  <2> QED  BY <2>1, <2>3, <2>4
<1>2. j[1] \in Chars /\ j[2] \in Chars  OBVIOUS
<1> QED  BY <1>1, <1>2 DEF Agreed

-----------------------------------------------------------------------------
(* The verdict *)

LEMMA InitVerdict == Init => VerdictInv
<1> SUFFICES ASSUME Init PROVE VerdictInv
  OBVIOUS
<1>1. \A s \in Ids: out[s] \in Seq(Chars)  BY EmptySeq DEF Init
<1> QED  BY <1>1, TextsFact, TextsAssumption DEF Init, VerdictInv

(* While outputs are compared no program writes. *)
LEMMA ComparedStays ==
  ASSUME RunInv, VerdictInv, UNCHANGED <<prompt, cmpVars, ansOut>>,
         out' \in [Ids -> Seq(Chars)],
         pc' = "compare" => pc = "compare" /\ num' = num /\ out'[Student] = out[Student],
         pc' = "compile" => compile' = 0
  PROVE  VerdictInv'
<1>0. junk' = junk /\ ansOut' = ansOut  BY DEF cmpVars
<1>1. ASSUME prompt', pc' = "compare"
      PROVE  Agreed(out[Student], at1, c1, ansOut, at2, c2, junk)'
  <2>1. Agreed(out[Student], at1, c1, ansOut, at2, c2, junk)  BY <1>1 DEF VerdictInv
  <2>2. (out[Student])' = out[Student]  BY <1>1 DEF Student
  <2>3. UNCHANGED <<at1, at2, c1, c2, junk, ansOut>>  BY DEF cmpVars
  <2> QED  BY <2>1, <2>2, <2>3
<1> QED  BY <1>0, <1>1 DEF VerdictInv

LEMMA VerdictStep ==
  ASSUME RunInv, VerdictInv, [Next]_vars
  PROVE  VerdictInv'
<1>0. out \in [Ids -> Seq(Chars)] /\ ansOut \in Seq(Chars) /\ junk \in Chars \X Chars  BY DEF VerdictInv
<1>1. CASE Compile \/ InTime \/ Tick \/ TimeOver \/ BothEnd \/ Differ \/ UNCHANGED vars
  <2>1. UNCHANGED <<prompt, cmpVars, ansOut, out>>
    BY <1>1 DEF Compile, InTime, Tick, TimeOver, BothEnd, Differ, vars, runVars, procVars
  <2>2. pc' = "compare" => pc = "compare" /\ num' = num
    BY <1>1 DEF Compile, InTime, Tick, TimeOver, BothEnd, Differ, Graded, Goto, vars
  <2>3. pc' = "compile" => compile' = 0
    BY <1>1 DEF Compile, InTime, Tick, TimeOver, BothEnd, Differ, Graded, Goto, vars, VerdictInv
  <2> QED  BY <1>0, <2>1, <2>2, <2>3, ComparedStays
<1>2. CASE Launch
  <2>1. UNCHANGED <<prompt, cmpVars, ansOut>> /\ pc' = "ps"  BY <1>2 DEF Launch, runVars, Goto
  <2>2. out' \in [Ids -> Seq(Chars)]
    <3>1. << >> \in Seq(Chars)  BY EmptySeq
    <3> QED  BY <1>0, <1>2, <3>1 DEF Launch
  <2> QED  BY <2>1, <2>2, ComparedStays
<1>3. ASSUME NEW s \in Ids, Exec(s) \/ PrintChar(s) \/ Finish(s) PROVE VerdictInv'
  <2>1. UNCHANGED <<prompt, cmpVars, ansOut, pc, num, compile>> /\ Alive(s)
    BY <1>3 DEF Exec, PrintChar, Finish, runVars, Alive
  <2>2. out' \in [Ids -> Seq(Chars)] /\ \A q \in Ids \ {s}: out'[q] = out[q]
    <3>1. CASE PrintChar(s)
      <4>1. rest[s].text \in Seq(Chars) /\ rest[s].text # << >>
        BY <3>1 DEF PrintChar, RunInv, Types
      <4>2. Head(rest[s].text) \in Chars  BY <4>1
      <4>3. Append(out[s], Head(rest[s].text)) \in Seq(Chars)  BY <1>0, <4>2
      <4> QED  BY <1>0, <3>1, <4>3 DEF PrintChar
    <3>2. CASE Exec(s) \/ Finish(s)  BY <1>0, <3>2 DEF Exec, Finish
    <3> QED  BY <1>3, <3>1, <3>2
  <2>3. CASE prompt /\ pc = "compare"
    <3>1. Student # s /\ Student \in Ids
      BY <2>1, <2>3, StudentsFact DEF RunInv, OnlyStudent, NowGraded, Student
    <3> QED  BY <2>1, <2>2, <3>1, ComparedStays DEF VerdictInv
  <2>4. CASE ~(prompt /\ pc = "compare")
    <3>1. junk' = junk  BY <2>1 DEF cmpVars
    <3> QED  BY <1>0, <2>1, <2>2, <2>4, <3>1 DEF VerdictInv
  <2> QED  BY <2>3, <2>4
<1>4. CASE Ps
  <2>1. /\ UNCHANGED <<prompt, ansOut, out, num, compile>> /\ pc' \in {"time", "compare"}
        /\ junk' \in Chars \X Chars
    BY <1>0, <1>4 DEF Ps, runVars, procVars, cmpVars, Goto
  <2>2. CASE pc' = "time"  BY <1>0, <2>1, <2>2 DEF VerdictInv
  <2>3. CASE pc' = "compare"
    <3>1. /\ at1' = 0 /\ at2' = 0 /\ junk' \in Chars \X Chars
          /\ c1' = junk'[1] /\ c2' = junk'[2]
      BY <1>4, <2>3 DEF Ps, Goto
    <3>2. Student \in Ids /\ (out[Student])' = out[Student]
      BY <1>4, <2>1, StudentsFact DEF Ps, RunInv, NowGraded, Student
    <3>3. Agreed(out[Student], 0, junk'[1], ansOut, 0, junk'[2], junk')
      BY <1>0, <3>1, <3>2, AgreedStart
    <3>4. Agreed(out[Student], at1, c1, ansOut, at2, c2, junk)'
      BY <2>1, <3>1, <3>2, <3>3
    <3> QED  BY <1>0, <2>1, <2>3, <3>4 DEF VerdictInv
  <2> QED  BY <2>1, <2>2, <2>3
<1>5. CASE Agree
  <2>1. /\ pc = "compare" /\ UNCHANGED <<prompt, pc, num, compile, ansOut, out, junk>>
    BY <1>5 DEF Agree, runVars, procVars
  <2>2. Student \in Ids /\ (out[Student])' = out[Student]
    BY <2>1, StudentsFact DEF RunInv, NowGraded, Student
  <2>3. ASSUME prompt PROVE Agreed(out[Student], at1, c1, ansOut, at2, c2, junk)'
    <3> DEFINE t == out[Student]
    <3>1. Agreed(t, at1, c1, ansOut, at2, c2, junk) /\ junk \in Chars \X Chars /\ t \in Seq(Chars)
      BY <1>0, <2>1, <2>2, <2>3 DEF VerdictInv
    <3>2. at1 \in 0..Len(t) /\ at2 \in 0..Len(ansOut)  BY <3>1 DEF Agreed
    <3>3. /\ Got(t, at1, c1) = Got(ansOut, at2, c2)
          /\ c1' = Got(t, at1, c1) /\ c2' = c1'
          /\ at1' = IF Ends1 THEN Len(t) ELSE NextAt(t, at1)
          /\ at2' = IF Ends2 THEN Len(ansOut) ELSE NextAt(ansOut, at2)
      BY <1>5 DEF Agree
    <3>4. (Ends1 <=> AllRead(t, at1)) /\ (Ends2 <=> AllRead(ansOut, at2))
      BY <1>0, <3>1, <3>2, NextIs DEF Ends1, Ends2
    <3>5. at1' = After(t, at1) /\ at2' = After(ansOut, at2)  BY <3>3, <3>4 DEF After
    <3>6. Agreed(t, After(t, at1), Got(t, at1, c1), ansOut, After(ansOut, at2), Got(t, at1, c1), junk)
      <4> HIDE DEF t
      <4> QED  BY <1>0, <3>1, <3>3, AgreedStep
    <3> QED  BY <2>1, <2>2, <3>3, <3>5, <3>6
  <2> QED  BY <1>0, <2>1, <2>3 DEF VerdictInv
<1> QED  BY <1>1, <1>2, <1>3, <1>4, <1>5 DEF Next, Grader

(* A program that compiles and is seen by ps gets its points exactly if    *)
(* its whole output passes for the teacher's (compare_resultfile), and     *)
(* none without a comparison only if its time is over (execute_program).   *)
THEOREM VerdictExactCorrect == Spec => VerdictExact
<1>1. RunInv /\ VerdictInv /\ [Next]_vars => VerdictInv'  BY VerdictStep
<1>2. RunInv /\ VerdictInv /\ [Next]_vars =>
        [prompt /\ num' # num /\ compile # 0 =>
           IF pc = "compare" /\ PassFor(out[Student], ansOut, junk)
             THEN result' = compile
             ELSE result' = 0 /\ (pc = "compare" \/ waited > OVER)]_vars
  <2> SUFFICES ASSUME RunInv, VerdictInv, [Next]_vars, prompt, num' # num, compile # 0
               PROVE  IF pc = "compare" /\ PassFor(out[Student], ansOut, junk)
                        THEN result' = compile
                        ELSE result' = 0 /\ (pc = "compare" \/ waited > OVER)
    OBVIOUS
  <2>0. Compile \/ TimeOver \/ BothEnd \/ Differ
    BY DEF Next, Grader, Launch, Ps, InTime, Agree, Tick, Exec, PrintChar, Finish, vars
  <2>1. CASE Compile  BY <2>1 DEF Compile, VerdictInv
  <2>2. CASE TimeOver  BY <2>2 DEF TimeOver, Graded
  <2>3. CASE BothEnd \/ Differ
    <3> DEFINE t == out[Student]
    <3>1. pc = "compare" /\ Student \in Ids
      BY <2>3, StudentsFact DEF BothEnd, Differ, RunInv, NowGraded, Student
    <3>2. /\ t \in Seq(Chars) /\ ansOut \in Seq(Chars) /\ junk \in Chars \X Chars
          /\ Agreed(t, at1, c1, ansOut, at2, c2, junk)
      BY <3>1 DEF VerdictInv
    <3>3. at1 \in 0..Len(t) /\ at2 \in 0..Len(ansOut)  BY <3>2 DEF Agreed
    <3>4. (Ends1 <=> AllRead(t, at1)) /\ (Ends2 <=> AllRead(ansOut, at2))
      BY <3>2, <3>3, NextIs DEF Ends1, Ends2
    <3>5. CASE BothEnd
      <4>1. PassFor(t, ansOut, junk)  BY <3>2, <3>4, <3>5, EndedPass DEF BothEnd
      <4> QED  BY <3>1, <3>5, <4>1 DEF BothEnd, Graded
    <3>6. CASE Differ
      <4>1. ~PassFor(t, ansOut, junk)  BY <3>2, <3>4, <3>6, DifferPass DEF Differ
      <4> QED  BY <3>1, <3>6, <4>1 DEF Differ, Graded
    <3> QED  BY <2>3, <3>5, <3>6
  <2> QED  BY <2>0, <2>1, <2>2, <2>3
<1> QED  BY <1>1, <1>2, InitVerdict, RunInvHolds, PTL DEF Spec, VerdictExact
-----------------------------------------------------------------------------
(* The least and the greatest number of a set. *)
LEMMA MinIs ==
  ASSUME NEW T \in SUBSET Nat, T # {}
  PROVE  Min(T) \in T /\ \A y \in T: Min(T) <= y
BY LeastNat DEF Min

LEMMA MaxIs ==
  ASSUME NEW n \in Nat, NEW T \in SUBSET 0..n, T # {}
  PROVE  Max(T) \in T /\ \A y \in T: y <= Max(T)
<1> DEFINE D == {n - x: x \in T}
<1>1. D \in SUBSET Nat /\ D # {}
  <2>1. \A x \in T: n - x \in Nat  OBVIOUS
  <2> QED  BY <2>1
<1>2. PICK d \in D: \A y \in D: d <= y  BY <1>1, LeastNat
<1>3. PICK x \in T: d = n - x  BY <1>2
<1>4. \A y \in T: n - y \in D /\ y \in 0..n  OBVIOUS
<1>5. \A y \in T: x >= y  BY <1>2, <1>3, <1>4
<1>6. Max(T) \in T /\ \A y \in T: Max(T) >= y  BY <1>5 DEF Max
<1> QED  BY <1>6

-----------------------------------------------------------------------------
(* Where make_tokens goes on *)

TextIs == text \in Seq(Range(text)) /\ text # << >>

LEMMA TextLen == TextIs => Len(text) \in Nat \ {0} /\ DOMAIN text = 1..Len(text)
BY DEF TextIs

(* The next unit from i on of which Test holds, if there is one. *)
LEMMA NextOpIs ==
  ASSUME TextIs, NEW i \in 1..Len(text) + 1
  PROVE  /\ NextOp(i) \in i..Len(text) + 1
         /\ NextOp(i) <= Len(text) => IsOp(text[NextOp(i)])
         /\ \A k \in i..NextOp(i) - 1: ~IsOp(text[k])
<1> DEFINE I == {k \in i..Len(text): IsOp(text[k])}
<1>1. I \in SUBSET Nat /\ Len(text) \in Nat  BY TextLen
<1>2. NextOp(i) = IF I # {} THEN (IF Min(I) = 0 THEN Len(text) + 1 ELSE Min(I)) ELSE Len(text) + 1
  BY <1>1 DEF NextOp, SelectInSubSeq
<1>3. CASE I = {}
  <2>1. NextOp(i) = Len(text) + 1  BY <1>2, <1>3
  <2> QED  BY <1>1, <1>3, <2>1
<1>4. CASE I # {}
  <2>1. Min(I) \in I /\ \A y \in I: Min(I) <= y  BY <1>1, <1>4, MinIs
  <2>2. NextOp(i) = Min(I)  BY <1>1, <1>2, <1>4, <2>1
  <2>3. Min(I) \in i..Len(text) /\ IsOp(text[Min(I)])  BY <2>1
  <2> HIDE DEF I
  <2>4. \A k \in i..Min(I) - 1: k \in i..Len(text) /\ k \notin I  BY <1>1, <2>1, <2>3
  <2>5. \A k \in i..Min(I) - 1: ~IsOp(text[k])  BY <2>4 DEF I
  <2> QED  BY <1>1, <2>2, <2>3, <2>5
<1> QED  BY <1>3, <1>4

LEMMA NextUnitIs ==
  ASSUME TextIs, NEW i \in 1..Len(text) + 1
  PROVE  /\ NextUnit(i) \in i..Len(text) + 1
         /\ NextUnit(i) <= Len(text) => text[NextUnit(i)] # ASpace
         /\ \A k \in i..NextUnit(i) - 1: text[k] = ASpace
<1> DEFINE I == {k \in i..Len(text): NotSpace(text[k])}
<1>1. I \in SUBSET Nat /\ Len(text) \in Nat  BY TextLen
<1>2. NextUnit(i) = IF I # {} THEN (IF Min(I) = 0 THEN Len(text) + 1 ELSE Min(I)) ELSE Len(text) + 1
  BY <1>1 DEF NextUnit, SelectInSubSeq
<1>3. CASE I = {}
  <2>1. NextUnit(i) = Len(text) + 1  BY <1>2, <1>3
  <2> QED  BY <1>1, <1>3, <2>1 DEF NotSpace
<1>4. CASE I # {}
  <2>1. Min(I) \in I /\ \A y \in I: Min(I) <= y  BY <1>1, <1>4, MinIs
  <2>2. NextUnit(i) = Min(I)  BY <1>1, <1>2, <1>4, <2>1
  <2>3. Min(I) \in i..Len(text) /\ text[Min(I)] # ASpace  BY <2>1 DEF NotSpace
  <2> HIDE DEF I
  <2>4. \A k \in i..Min(I) - 1: k \in i..Len(text) /\ k \notin I  BY <1>1, <2>1, <2>3
  <2>5. \A k \in i..Min(I) - 1: text[k] = ASpace  BY <2>4 DEF I, NotSpace
  <2> QED  BY <1>1, <2>2, <2>3, <2>5
<1> QED  BY <1>3, <1>4

LEMMA WordEndIs ==
  ASSUME NEW i \in Nat, NEW to \in Nat, i < to
  PROVE  WordEnd(i, to) \in i + 1..to
<1> DEFINE ends(k) == /\ text[k] = ASpace
                      /\ LET last == SelectLastInSubSeq(text, i, k, NotSpace) IN text[last] # "." \/ last = i
           T == {k \in i + 1..to: k = to \/ ends(k)}
<1> HIDE DEF ends
<1>1. T \in SUBSET Nat /\ to \in T  OBVIOUS
<1>2. PICK k \in T: \A y \in T: k <= y  BY <1>1, LeastNat
<1>3. k \in i + 1..to /\ (k = to \/ ends(k)) /\ \A j \in i + 1..k - 1: ~ends(j)
  <2>1. \A j \in i + 1..k - 1: j \in i + 1..to /\ j < k  BY <1>1
  <2> QED  BY <1>2, <2>1
<1>4. WordEnd(i, to) = CHOOSE e \in i + 1..to: (e = to \/ ends(e)) /\ \A j \in i + 1..e - 1: ~ends(j)
  BY DEF WordEnd, ends
<1> QED  BY <1>3, <1>4

(* How many there are of a bracket from i on. *)
LEMMA CountIs ==
  ASSUME TextIs, NEW i \in 1..Len(text) + 1, NEW b, b # ASpace
  PROVE  /\ Count(b, i) \in 0..Len(text) + 1 - i
         /\ \A k \in i..i + Count(b, i) - 1: text[k] = b
<1> DEFINE s == Append(SubSeq(text, i, Len(text)), ASpace)
           n == Len(text) + 1 - i
           I == {k \in 1..Len(s): s[k] # b}
<1>1. Len(text) \in Nat /\ n \in Nat  BY TextLen
<1>2. /\ SubSeq(text, i, Len(text)) \in Seq(Range(text)) /\ Len(SubSeq(text, i, Len(text))) = n
      /\ \A k \in 1..n: SubSeq(text, i, Len(text))[k] = text[i + k - 1]
  BY <1>1, SubSeqProperties DEF TextIs
<1>3. Len(s) = n + 1 /\ s[n + 1] = ASpace /\ \A k \in 1..n: s[k] = text[i + k - 1]
  <2> DEFINE p == SubSeq(text, i, Len(text))
  <2>1. p \in Seq(Range(text) \cup {ASpace}) /\ Len(p) = n  BY <1>2
  <2> HIDE DEF p
  <2>2. Len(Append(p, ASpace)) = n + 1 /\ Append(p, ASpace)[n + 1] = ASpace /\ \A k \in 1..n: Append(p, ASpace)[k] = p[k]
    BY <1>1, <2>1
  <2> QED  BY <1>2, <2>2 DEF p
<1> HIDE DEF s
<1>4. I \in SUBSET Nat /\ n + 1 \in I  BY <1>1, <1>3
<1>5. Min(I) \in I /\ \A y \in I: Min(I) <= y  BY <1>4, MinIs
<1>6. Count(b, i) = Min(I) - 1  BY <1>4 DEF Count, SelectInSeq, s
<1>7. Min(I) \in 1..n + 1  BY <1>1, <1>3, <1>5
<1>8. \A k \in i..i + Count(b, i) - 1: text[k] = b
  <2> SUFFICES ASSUME NEW k \in i..i + Count(b, i) - 1 PROVE text[k] = b  OBVIOUS
  <2>1. k - i + 1 \in 1..n /\ k - i + 1 < Min(I)  BY <1>1, <1>6, <1>7
  <2>2. k - i + 1 \notin I  BY <1>5, <1>7, <2>1
  <2>3. s[k - i + 1] = b  BY <1>1, <1>3, <2>1, <2>2
  <2>4. s[k - i + 1] = text[i + (k - i + 1) - 1]  BY <1>3, <2>1
  <2>5. i + (k - i + 1) - 1 = k  BY <1>1
  <2> QED  BY <2>3, <2>4, <2>5
<1> QED  BY <1>1, <1>6, <1>7, <1>8

-----------------------------------------------------------------------------
(* The array is large enough, and every pass goes on. *)

RoomInv ==
  /\ TextIs
  /\ DOMAIN tokens = 0..Len(text) + 1
  /\ lexed \in {"reading", "last"} =>
       /\ start \in 1..Len(text) + 1 /\ row \in 0..start - 1
       /\ \A k \in start..Len(text) + 1: tokens[k] = << >>
  /\ Working => tokens[Len(text) + 1] = << >>

(* At a last star that is not passed, on the way to the end of the array. *)
Again ==
  /\ TextIs /\ Undefined(text)
  /\ DOMAIN tokens = 0..Len(text) + 1
  /\ \/ lexed = "reading" /\ start = Len(text)
     \/ lexed = "last" /\ start = Len(text) + 1
  /\ row \in 1..Len(text) + 2
  /\ tokens[Len(text)] = << >> /\ tokens[Len(text) + 1] = << >>

LexInv == RoomInv \/ Again

LEMMA ReturnsOnward ==
  ASSUME RoomInv, Working, NEW r, r \in {"refused", "crash", "loops"}, Returns(r)
  PROVE  RoomInv' /\ GoesOn
<1>1. text' = text /\ tokens' = tokens /\ lexed' = r  BY DEF Returns
<1>2. Phase > 0 /\ Phase' = 0 /\ ~Working' /\ lexed' \notin {"reading", "last"}
  BY <1>1 DEF Phase, Working
<1>3. RoomInv'  BY <1>1, <1>2 DEF RoomInv, TextIs
<1> QED  BY <1>2, <1>3 DEF GoesOn

LEMMA BehindNext ==
  \A a, n \in Nat: \A b \in a + 1..n + 1: \A r \in 0..a: r \in 0..b - 1
OBVIOUS

(* A step that goes on in the text and writes no token beyond start. *)
LEMMA ReadOnward ==
  ASSUME RoomInv, lexed \in {"reading", "last"}, text' = text, lexed' \in {lexed, "last"},
         start' \in start + 1..Len(text) + 1, row' \in 0..start, DOMAIN tokens' = DOMAIN tokens,
         \A k \in start + 1..Len(text) + 1: tokens'[k] = tokens[k]
  PROVE  RoomInv' /\ GoesOn
<1>1. Len(text) \in Nat /\ start \in Nat /\ start' \in Nat  BY TextLen DEF RoomInv
<1>2. row' \in 0..start' - 1  BY <1>1, BehindNext, Zenon
<1>3. \A k \in start'..Len(text) + 1: tokens'[k] = << >>  BY <1>1 DEF RoomInv
<1>4. tokens'[Len(text) + 1] = << >>  BY <1>1, <1>3
<1>5. start' \in 1..Len(text) + 1 /\ start < start' /\ start' <= Len(text) + 1  BY <1>1
<1>6. RoomInv'  BY <1>2, <1>3, <1>4, <1>5 DEF RoomInv, TextIs
<1>7. Phase \in {3, 4} /\ (Phase' < Phase \/ Phase' = Phase)  BY DEF Phase
<1> QED  BY <1>5, <1>6, <1>7 DEF GoesOn

LEMMA PassOnward ==
  ASSUME RoomInv, lexed = "reading", NEW r \in -1..row, NEW t, NEW i \in start + 1..Len(text) + 1,
         PassEnds(r, t, i)
  PROVE  RoomInv' /\ GoesOn
<1>1. Len(text) \in Nat /\ start \in Nat /\ row \in Nat /\ row < start  BY TextLen DEF RoomInv
<1>2. PICK ts \in {IF r \in DOMAIN tokens THEN [tokens EXCEPT ![r] = Trimmed(t)] ELSE tokens}:
        IF Clash(ts, r) THEN Returns("refused")
        ELSE /\ row' = r + 1 /\ start' = i /\ tokens' = ts /\ UNCHANGED <<text, lexed, made>>
  BY DEF PassEnds
<1>3. CASE Clash(ts, r)  BY <1>2, <1>3, ReturnsOnward DEF Working
<1>4. CASE ~Clash(ts, r)
  <2>1. row' = r + 1 /\ start' = i /\ tokens' = ts /\ text' = text /\ lexed' = lexed  BY <1>2, <1>4
  <2>2. DOMAIN tokens' = DOMAIN tokens  BY <1>2, <2>1
  <2>3. \A k \in start + 1..Len(text) + 1: k \in DOMAIN tokens /\ k # r  BY <1>1 DEF RoomInv
  <2>4. \A k \in start + 1..Len(text) + 1: tokens'[k] = tokens[k]  BY <1>2, <2>1, <2>3
  <2>5. row' \in 0..start  BY <1>1, <2>1
  <2> QED  BY <2>1, <2>2, <2>4, <2>5, ReadOnward
<1> QED  BY <1>3, <1>4

LEMMA UnstarredIs == ASSUME row \in Nat PROVE Unstarred \in 0..row
BY DEF Unstarred

(* What each step of the loop over the operators reads. *)
LEMMA OpBounds ==
  ASSUME RoomInv, NEW us, AtOp(us)
  PROVE  /\ lexed = "reading" /\ Working
         /\ Len(text) \in Nat /\ start \in 1..Len(text) /\ row \in 0..start - 1
         /\ start + 1 \in start + 1..Len(text) + 1
         /\ NextOp(start + 1) \in start + 1..Len(text) + 1
<1>1. lexed = "reading" /\ Len(text) \in Nat /\ start \in 1..Len(text) /\ row \in 0..start - 1
  BY TextLen DEF AtOp, RoomInv
<1>2. start + 1 \in 1..Len(text) + 1  BY <1>1
<1>3. NextOp(start + 1) \in start + 1..Len(text) + 1  BY <1>2, NextOpIs DEF RoomInv
<1> QED  BY <1>1, <1>2, <1>3 DEF Working

LEMMA StepsOnward ==
  ASSUME RoomInv, Twice \/ StepBefore \/ StepAfter \/ Double \/ Arrow \/ Ampersand
  PROVE  RoomInv' /\ GoesOn
<1>1. CASE Twice  BY <1>1, OpBounds, ReturnsOnward DEF Twice
<1>2. CASE StepBefore
  <2> DEFINE to == NextOp(start + 1)
  <2>1. AtOp(Steps)  BY <1>2 DEF StepBefore
  <2>2. row \in -1..row /\ to \in start + 1..Len(text) + 1  BY <2>1, OpBounds
  <2>3. Returns("refused") \/ PassEnds(row, Cur \o Dense(Span(start, to)), to)
    BY <1>2 DEF StepBefore
  <2> QED  BY <2>1, <2>2, <2>3, OpBounds, ReturnsOnward, PassOnward
<1>3. CASE StepAfter
  <2>1. AtOp(Steps)  BY <1>3 DEF StepAfter
  <2>2. row \in -1..row /\ row - 1 \in -1..row /\ start + 1 \in start + 1..Len(text) + 1
    BY <2>1, OpBounds
  <2>3. Returns("refused") \/ PassEnds(row - 1, Append(Prev, U), start + 1)
        \/ PassEnds(row, Append(Cur, U), start + 1)
    BY <1>3 DEF StepAfter
  <2> QED  BY <2>1, <2>2, <2>3, OpBounds, ReturnsOnward, PassOnward
<1>4. CASE Double
  <2>1. AtOp(Doubles)  BY <1>4 DEF Double
  <2>2. row \in -1..row /\ start + 1 \in start + 1..Len(text) + 1  BY <2>1, OpBounds
  <2>3. PassEnds(row, Overwritten(2), start + 1)  BY <1>4 DEF Double
  <2> QED  BY <2>1, <2>2, <2>3, OpBounds, PassOnward
<1>5. CASE Arrow
  <2> DEFINE to == NextOp(start + 1)
  <2>1. AtOp({"->"})  BY <1>5 DEF Arrow
  <2>2. row - 1 \in -1..row /\ to \in start + 1..Len(text) + 1  BY <2>1, OpBounds
  <2>3. PassEnds(row - 1, Prev \o Dense(Span(start, to)), to)  BY <1>5 DEF Arrow
  <2> QED  BY <2>1, <2>2, <2>3, OpBounds, PassOnward
<1>6. CASE Ampersand
  <2> DEFINE to == NextOp(start + 1)
  <2>1. AtOp({"&"})  BY <1>6 DEF Ampersand
  <2>2. row \in -1..row /\ to \in start + 1..Len(text) + 1 /\ start + 1 \in start + 1..Len(text) + 1
    BY <2>1, OpBounds
  <2>3. \/ PassEnds(row, Overwritten(1), start + 1) \/ Returns("refused")
        \/ PassEnds(row, Cur \o Dense(Span(start, to)), to)
    BY <1>6 DEF Ampersand
  <2> QED  BY <2>1, <2>2, <2>3, OpBounds, ReturnsOnward, PassOnward
<1> QED  BY <1>1, <1>2, <1>3, <1>4, <1>5, <1>6

LEMMA StarsOnward ==
  ASSUME RoomInv, PointerType \/ Star \/ FirstStar
  PROVE  RoomInv' /\ GoesOn
<1>1. AtOp({"*"})  BY DEF PointerType, Star, FirstStar
<1>2. /\ row \in -1..row /\ row - 1 \in -1..row /\ row \in 0..start
      /\ start \in Nat /\ start + 1 \in start + 1..Len(text) + 1
      /\ NextOp(start + 1) \in start + 1..Len(text) + 1
  BY <1>1, OpBounds
<1>3. \A k \in start + 1..Len(text) + 1: k \in DOMAIN tokens /\ k # row /\ k # row - 1 /\ k # 0
  BY <1>1, OpBounds DEF RoomInv
<1>4. CASE PointerType
  <2>1. /\ tokens' = [tokens EXCEPT ![row - 1] = Append(@, "*")] /\ start' = start + 1
        /\ text' = text /\ row' = row /\ lexed' = lexed
    BY <1>4 DEF PointerType
  <2>2. \A k \in start + 1..Len(text) + 1: tokens'[k] = tokens[k]  BY <1>3, <2>1
  <2> QED  BY <1>1, <1>2, <2>1, <2>2, OpBounds, ReadOnward
<1>6. CASE Star
  <2>1. PassEnds(row - 1, Append(Prev, "*"), start + 1) \/ PassEnds(row, Append(Cur, "*"), start + 1)
    BY <1>6 DEF Star
  <2> QED  BY <1>1, <1>2, <2>1, OpBounds, PassOnward
<1>7. CASE FirstStar
  <2> DEFINE to == NextOp(start + 1)
             t  == Cur \o Dense(Span(start, to))
  <2>1. \/ PassEnds(0, Append(Cur, "*"), start + 1) \/ Returns("refused") \/ PassEnds(0, t, to)
        \/ tokens' = [tokens EXCEPT ![0] = t] /\ start' = to /\ UNCHANGED <<text, row, lexed, made>>
    BY <1>7 DEF FirstStar
  <2> HIDE DEF t
  <2>2. 0 \in -1..row  BY <1>1, OpBounds
  <2>3. CASE tokens' = [tokens EXCEPT ![0] = t] /\ start' = to /\ UNCHANGED <<text, row, lexed, made>>
    <3>1. \A k \in start + 1..Len(text) + 1: tokens'[k] = tokens[k]  BY <1>3, <2>3
    <3> QED  BY <1>1, <1>2, <2>3, <3>1, OpBounds, ReadOnward
  <2> QED  BY <1>1, <1>2, <2>1, <2>2, <2>3, OpBounds, ReturnsOnward, PassOnward
<1> QED  BY <1>4, <1>6, <1>7

(* Where the brackets of &(a) close. *)
LEMMA CloseIs ==
  ASSUME RoomInv, AtOp({"("}), NEW more, more = Count("(", start + 1), NEW close,
         close = SelectInSubSeq(text, start + more + 1, Len(text), LAMBDA u: u = ")")
  PROVE  /\ more \in Nat /\ start + more \in start..Len(text)
         /\ \A k \in start..start + more: text[k] = "("
         /\ close # 0 => /\ close \in start + more + 1..Len(text) /\ text[close] = ")"
                         /\ Count(")", close + 1) \in 0..Len(text) - close
                         /\ \A k \in close + 1..close + Count(")", close + 1): text[k] = ")"
<1>1. Len(text) \in Nat /\ start \in 1..Len(text) /\ text[start] = "("  BY OpBounds DEF AtOp
<1>2. "(" # ASpace /\ ")" # ASpace  BY DEF ASpace
<1>3. more \in 0..Len(text) - start /\ \A k \in start + 1..start + more: text[k] = "("
  <2>1. start + 1 \in 1..Len(text) + 1 /\ TextIs  BY <1>1 DEF RoomInv
  <2>2. /\ Count("(", start + 1) \in 0..Len(text) + 1 - (start + 1)
        /\ \A k \in start + 1..(start + 1) + Count("(", start + 1) - 1: text[k] = "("
    BY <1>2, <2>1, CountIs
  <2> QED  BY <1>1, <2>2
<1>4. \A k \in start..start + more: text[k] = "("
  <2>1. \A k \in start..start + more: k = start \/ k \in start + 1..start + more  BY <1>1, <1>3
  <2> QED  BY <1>1, <1>3, <2>1
<1>5. ASSUME close # 0
      PROVE  close \in start + more + 1..Len(text) /\ text[close] = ")"
  <2> DEFINE I == {k \in start + more + 1..Len(text): text[k] = ")"}
  <2>1. close = IF I # {} THEN Min(I) ELSE 0  BY DEF SelectInSubSeq
  <2>2. I \in SUBSET Nat  BY <1>1, <1>3
  <2> HIDE DEF I
  <2>3. close \in I  BY <1>5, <2>1, <2>2, MinIs
  <2> QED  BY <2>3 DEF I
<1>6. ASSUME close # 0
      PROVE  /\ Count(")", close + 1) \in 0..Len(text) - close
             /\ \A k \in close + 1..close + Count(")", close + 1): text[k] = ")"
  <2>1. close + 1 \in 1..Len(text) + 1 /\ TextIs /\ close \in Nat  BY <1>1, <1>3, <1>5, <1>6, SMTT(60) DEF RoomInv
  <2>2. /\ Count(")", close + 1) \in 0..Len(text) + 1 - (close + 1)
        /\ \A k \in close + 1..(close + 1) + Count(")", close + 1) - 1: text[k] = ")"
    BY <1>2, <2>1, CountIs
  <2> DEFINE n == Count(")", close + 1)
  <2> HIDE DEF n
  <2>3. n \in 0..Len(text) + 1 - (close + 1) /\ \A k \in close + 1..(close + 1) + n - 1: text[k] = ")"
    BY <2>2 DEF n
  <2>4. n \in 0..Len(text) - close /\ (close + 1) + n - 1 = close + n
    <3>1. Len(text) \in Nat /\ close \in Nat /\ n \in 0..Len(text) + 1 - (close + 1)  BY <1>1, <2>1, <2>3
    <3> QED  BY <3>1
  <2>5. \A k \in close + 1..close + n: text[k] = ")"  BY <2>3, <2>4
  <2> QED  BY <2>4, <2>5 DEF n
<1>7. more \in Nat /\ start + more \in start..Len(text)  BY <1>1, <1>3
<1>8. close # 0 => close \in start + more + 1..Len(text) /\ text[close] = ")"  BY <1>5, Zenon
<1>9. close # 0 => /\ Count(")", close + 1) \in 0..Len(text) - close
                  /\ \A k \in close + 1..close + Count(")", close + 1): text[k] = ")"
  BY <1>6, Zenon
<1> QED  BY <1>4, <1>7, <1>8, <1>9, Zenon

LEMMA OthersOnward ==
  ASSUME RoomInv, PrefixedBracket \/ Bracket \/ Quoted \/ OtherOp
  PROVE  RoomInv' /\ GoesOn
<1>1. CASE PrefixedBracket
  <2> DEFINE more  == Count("(", start + 1)
             open  == start + more
             close == SelectInSubSeq(text, open + 1, Len(text), LAMBDA u: u = ")")
  <2>1. AtOp({"("})  BY <1>1 DEF PrefixedBracket
  <2>2. \/ Returns("refused")
        \/ /\ close # 0 /\ Count(")", close + 1) = more
           /\ PassEnds(row - 1, Prev \o SubSeq(text, open + 1, close - 1), close + more + 1)
        \/ PassEnds(row, Append(Cur, "("), open + 1)
    BY <1>1 DEF PrefixedBracket
  <2>3. /\ more \in Nat /\ open \in start..Len(text)
        /\ close # 0 => /\ close \in open + 1..Len(text)
                        /\ Count(")", close + 1) \in 0..Len(text) - close
    BY <2>1, CloseIs
  <2> HIDE DEF more, close
  <2>4. /\ row \in -1..row /\ row - 1 \in -1..row /\ open + 1 \in start + 1..Len(text) + 1
        /\ close # 0 /\ Count(")", close + 1) = more => close + more + 1 \in start + 1..Len(text) + 1
    <3>1. Len(text) \in Nat /\ start \in 1..Len(text) /\ row \in 0..start - 1  BY <2>1, OpBounds
    <3>2. ASSUME close # 0, Count(")", close + 1) = more
          PROVE  close + more + 1 \in start + 1..Len(text) + 1
      BY <2>3, <3>1, <3>2
    <3> QED  BY <2>3, <3>1, <3>2
  <2> QED  BY <2>1, <2>2, <2>4, OpBounds, ReturnsOnward, PassOnward
<1>2. CASE Bracket
  <2>1. AtOp({"("}) /\ PassEnds(row, Append(Cur, "("), start + 1)  BY <1>2 DEF Bracket
  <2>2. row \in -1..row /\ start + 1 \in start + 1..Len(text) + 1  BY <2>1, OpBounds
  <2> QED  BY <2>1, <2>2, OpBounds, PassOnward
<1>3. CASE Quoted
  <2>1. /\ AtOp(Strings \cup {AQuote})
        /\ Returns("refused") \/ PassEnds(row, Append(Cur, U), start + 1)
    BY <1>3 DEF Quoted
  <2>2. row \in -1..row /\ start + 1 \in start + 1..Len(text) + 1  BY <2>1, OpBounds
  <2> QED  BY <2>1, <2>2, OpBounds, ReturnsOnward, PassOnward
<1>4. CASE OtherOp
  <2> DEFINE t == Append(Cur, U)
  <2>1. /\ AtOp(Others)
        /\ \/ Returns("refused") \/ PassEnds(row, t, start + 1)
           \/ /\ tokens' = [tokens EXCEPT ![row] = t] /\ start' = start + 1
              /\ UNCHANGED <<text, row, lexed, made>>
    BY <1>4 DEF OtherOp
  <2> HIDE DEF t
  <2>2. row \in -1..row /\ row \in 0..start /\ start + 1 \in start + 1..Len(text) + 1
    BY <2>1, OpBounds
  <2>3. CASE /\ tokens' = [tokens EXCEPT ![row] = t] /\ start' = start + 1
             /\ UNCHANGED <<text, row, lexed, made>>
    <3>1. \A k \in start + 1..Len(text) + 1: k \in DOMAIN tokens /\ k # row
      BY <2>1, OpBounds DEF RoomInv
    <3>2. \A k \in start + 1..Len(text) + 1: tokens'[k] = tokens[k]  BY <2>3, <3>1
    <3> QED  BY <2>1, <2>2, <2>3, <3>2, OpBounds, ReadOnward
  <2> QED  BY <2>1, <2>2, <2>3, OpBounds, ReturnsOnward, PassOnward
<1> QED  BY <1>1, <1>2, <1>3, <1>4

LEMMA WordsOnward ==
  ASSUME RoomInv, Spaces \/ Name \/ LastWords \/ NextWord \/ LastWord
  PROVE  RoomInv' /\ GoesOn
<1>1. Len(text) \in Nat \ {0} /\ DOMAIN text = 1..Len(text) /\ TextIs  BY TextLen DEF RoomInv
<1>2. lexed \in {"reading", "last"} /\ Working  BY DEF Spaces, Name, LastWords, NextWord, LastWord, Working
<1>3. start \in 1..Len(text) + 1 /\ row \in 0..start - 1  BY <1>2 DEF RoomInv
<1>4. Unstarred \in 0..row /\ Unstarred \in -1..row  BY <1>3, UnstarredIs
<1>5. NextOp(start) \in start..Len(text) + 1 /\ NextUnit(start) \in start..Len(text) + 1
  BY <1>1, <1>3, NextOpIs, NextUnitIs
<1>6. start <= Len(text) /\ Unit(start) = ASpace => NextUnit(start) \in start + 1..Len(text) + 1
  <2> SUFFICES ASSUME start <= Len(text), Unit(start) = ASpace
               PROVE  NextUnit(start) \in start + 1..Len(text) + 1
    OBVIOUS
  <2>1. text[start] = ASpace  BY <1>1, <1>3 DEF Unit
  <2>2. NextUnit(start) # start  BY <1>1, <1>3, <2>1, NextUnitIs
  <2> QED  BY <1>1, <1>3, <1>5, <2>2
<1>7. CASE Spaces
  <2>1. /\ row' = Unstarred /\ start' = NextUnit(start) /\ text' = text /\ tokens' = tokens
        /\ lexed' = lexed /\ NextOp(start) <= Len(text) /\ Unit(start) = ASpace
    BY <1>7 DEF Spaces
  <2>2. start' \in start + 1..Len(text) + 1  BY <1>1, <1>3, <1>5, <1>6, <2>1
  <2>3. row' \in 0..start  BY <1>3, <1>4, <2>1
  <2> QED  BY <1>2, <2>1, <2>2, <2>3, ReadOnward
<1>8. CASE Name
  <2> DEFINE end == WordEnd(start, NextOp(start))
             t   == Tok(Unstarred) \o Dense(Span(start, end))
  <2>1. /\ lexed = "reading" /\ NextOp(start) \in start + 1..Len(text)
        /\ \/ lexed' = "done" /\ UNCHANGED <<text, start, row, tokens>>
           \/ PassEnds(Unstarred, t, NextUnit(end))
    BY <1>8 DEF Name
  <2> HIDE DEF t
  <2>2. end \in start + 1..NextOp(start)
    <3>1. start \in Nat /\ NextOp(start) \in Nat /\ start < NextOp(start)  BY <1>1, <1>3, <2>1
    <3> QED  BY <3>1, WordEndIs
  <2>3. end \in 1..Len(text) + 1  BY <1>1, <1>3, <2>1, <2>2
  <2>4. NextUnit(end) \in end..Len(text) + 1  BY <1>1, <2>3, NextUnitIs
  <2>5. NextUnit(end) \in start + 1..Len(text) + 1  BY <1>1, <1>3, <2>2, <2>4
  <2>6. CASE lexed' = "done" /\ UNCHANGED <<text, start, row, tokens>>
    <3>1. Phase > 0 /\ Phase' = 0 /\ ~Working' /\ lexed' \notin {"reading", "last"}
      BY <1>2, <2>6 DEF Phase, Working
    <3>2. RoomInv'  BY <2>6, <3>1 DEF RoomInv, TextIs
    <3> QED  BY <3>1, <3>2 DEF GoesOn
  <2> QED  BY <1>4, <2>1, <2>5, <2>6, PassOnward
<1>9. CASE LastWords
  <2>1. /\ row' = Unstarred /\ start' = NextUnit(start) /\ text' = text /\ tokens' = tokens
        /\ lexed = "reading" /\ lexed' = "last"
    BY <1>9 DEF LastWords
  <2>2. Phase = 4 /\ Phase' = 3  BY <2>1 DEF Phase
  <2>3. start' \in 1..Len(text) + 1 /\ row' \in 0..start' - 1
    <3>1. start' \in start..Len(text) + 1 /\ row' \in 0..start - 1  BY <1>3, <1>4, <1>5, <2>1
    <3>2. \A a, b, n, r \in Nat: a \in 1..n + 1 /\ b \in a..n + 1 /\ r \in 0..a - 1
                                  => b \in 1..n + 1 /\ r \in 0..b - 1
      OBVIOUS
    <3>3. start \in Nat /\ start' \in Nat /\ Len(text) \in Nat /\ row' \in Nat  BY <1>1, <1>3, <3>1
    <3> QED  BY <1>3, <3>1, <3>2, <3>3, Zenon
  <2>4. \A k \in start'..Len(text) + 1: tokens'[k] = << >>
    <3>1. start' \in start..Len(text) + 1  BY <1>5, <2>1
    <3>2. \A k \in start'..Len(text) + 1: k \in start..Len(text) + 1  BY <1>1, <1>3, <3>1
    <3> QED  BY <1>2, <2>1, <3>2 DEF RoomInv
  <2>5. RoomInv'  BY <1>2, <2>1, <2>3, <2>4 DEF RoomInv, TextIs
  <2> QED  BY <2>2, <2>5 DEF GoesOn
<1>10. CASE NextWord
  <2>1. /\ row' = row + 1 /\ start' = NextUnit(start) /\ text' = text /\ tokens' = tokens
        /\ lexed' = lexed /\ Unit(start) = ASpace /\ start <= Len(text)
    BY <1>10 DEF NextWord
  <2>2. start' \in start + 1..Len(text) + 1 /\ row' \in 0..start  BY <1>3, <1>6, <2>1
  <2> QED  BY <1>2, <2>1, <2>2, ReadOnward
<1>11. CASE LastWord
  <2>1. /\ text' = text /\ start <= Len(text) /\ lexed = "last"
        /\ start' = IF U = "." THEN NextUnit(start + 1) ELSE start + 1
        /\ \/ /\ \E w: tokens' = [tokens EXCEPT ![row - 1] = w]
              /\ row' = row - 1 /\ row > 0 /\ lexed' = lexed
           \/ /\ \E w: tokens' = [tokens EXCEPT ![row] = w]
              /\ row' = row /\ lexed' \in {lexed, "refused"}
    <3> DEFINE t == Append(Cur, U)
    <3>1. LastWord  BY <1>11
    <3>2. CASE t = <<"lpthread">> /\ row > 0 /\ Prev = <<"-">>
      BY <3>1, <3>2 DEF LastWord
    <3>3. CASE ~(t = <<"lpthread">> /\ row > 0 /\ Prev = <<"-">>)
      BY <3>1, <3>3 DEF LastWord
    <3> QED  BY <3>2, <3>3
  <2>2. start' \in start + 1..Len(text) + 1
    <3>1. start + 1 \in 1..Len(text) + 1 /\ start + 1 \in start + 1..Len(text) + 1  BY <1>1, <1>3, <2>1
    <3>2. NextUnit(start + 1) \in start + 1..Len(text) + 1  BY <1>1, <3>1, NextUnitIs
    <3> QED  BY <2>1, <3>1, <3>2
  <2>3. \A k \in start + 1..Len(text) + 1: k \in DOMAIN tokens /\ k # row /\ k # row - 1
    BY <1>1, <1>3 DEF RoomInv
  <2>4. /\ DOMAIN tokens' = DOMAIN tokens /\ row' \in 0..start
        /\ \A k \in start + 1..Len(text) + 1: tokens'[k] = tokens[k]
    BY <1>3, <2>1, <2>3
  <2>5. CASE lexed' = lexed  BY <1>2, <2>1, <2>2, <2>4, <2>5, ReadOnward
  <2>6. CASE lexed' = "refused"
    <3>1. Phase > 0 /\ Phase' = 0 /\ ~Working' /\ lexed' \notin {"reading", "last"}
      BY <1>2, <2>6 DEF Phase, Working
    <3>2. RoomInv'  BY <2>1, <2>4, <3>1 DEF RoomInv, TextIs
    <3> QED  BY <3>1, <3>2 DEF GoesOn
  <2> QED  BY <2>1, <2>5, <2>6
<1> QED  BY <1>7, <1>8, <1>9, <1>10, <1>11

LEMMA WholeOnward ==
  ASSUME LexInv, Whole
  PROVE  RoomInv' /\ GoesOn
<1>0. TextIs /\ DOMAIN tokens = 0..Len(text) + 1 /\ tokens[Len(text) + 1] = << >>
  BY DEF LexInv, RoomInv, Again, Whole, Working
<1>1. Len(text) \in Nat \ {0} /\ Working  BY <1>0, TextLen DEF Whole, Working
<1>2. \A t: DOMAIN Alone(t) = DOMAIN tokens /\ Alone(t)[Len(text) + 1] = << >>
  BY <1>0, <1>1 DEF Alone
<1>3. /\ tokens' = tokens \/ \E t: tokens' = Alone(t)
      /\ text' = text /\ lexed = "last" /\ lexed' = "casts"
  BY DEF Whole
<1>4. DOMAIN tokens' = DOMAIN tokens /\ tokens'[Len(text) + 1] = << >>
  BY <1>0, <1>1, <1>2, <1>3
<1>5. Phase = 3 /\ Phase' = 2  BY <1>3 DEF Phase
<1>6. RoomInv'  BY <1>0, <1>3, <1>4 DEF RoomInv, TextIs
<1> QED  BY <1>5, <1>6 DEF GoesOn
-----------------------------------------------------------------------------
(* Tokens that become one *)

LEMMA RunRightIs ==
  ASSUME NEW n \in Nat, n = Len(text), NEW ts, DOMAIN ts = 0..n + 1, NEW k \in Nat, NEW t, t # << >>
  PROVE  /\ Run(ts, k, 1, t) \in 0..n + 2 /\ Of(ts, k + Run(ts, k, 1, t)) # t
         /\ \A m \in 0..Run(ts, k, 1, t) - 1: Of(ts, k + m) = t
<1> DEFINE T == {m \in 0..n + 2: Of(ts, k + m) # t}
<1>1. k + (n + 2) \notin DOMAIN ts /\ n + 2 \in 0..n + 2  OBVIOUS
<1>2. n + 2 \in T /\ T \in SUBSET Nat
  <2>1. Of(ts, k + (n + 2)) # t  BY <1>1 DEF Of
  <2> QED  BY <1>1, <2>1
<1>3. PICK m \in T: \A y \in T: m <= y  BY <1>2, LeastNat
<1>4. \A y \in 0..m - 1: Of(ts, k + y) = t
  <2>1. \A y \in 0..m - 1: y \in 0..n + 2 /\ ~(m <= y)  BY <1>3
  <2> QED  BY <1>3, <2>1
<1>5. \A y \in 0..n + 2: k + 1 * y = k + y  OBVIOUS
<1>6. \E y \in 0..n + 2: Of(ts, k + 1 * y) # t /\ \A z \in 0..y - 1: Of(ts, k + 1 * z) = t
  <2>1. m \in 0..n + 2 /\ Of(ts, k + m) # t  BY <1>3
  <2>2. \A z \in 0..m - 1: z \in 0..n + 2  BY <2>1
  <2> QED  BY <1>4, <1>5, <2>1, <2>2
<1> DEFINE r == Run(ts, k, 1, t)
<1>7. r \in 0..n + 2 /\ Of(ts, k + 1 * r) # t /\ \A z \in 0..r - 1: Of(ts, k + 1 * z) = t
  BY <1>6 DEF Run
<1> HIDE DEF r
<1>8. \A z \in 0..r - 1: z \in 0..n + 2  BY <1>7
<1>9. r \in 0..n + 2 /\ Of(ts, k + r) # t /\ \A z \in 0..r - 1: Of(ts, k + z) = t
  BY <1>5, <1>7, <1>8
<1> QED  BY <1>9 DEF r

LEMMA FewerThan ==
  ASSUME NEW F, IsFiniteSet(F), NEW x \in F, NEW G, NEW g \in [G -> F \ {x}],
         \A a, b \in G: g[a] = g[b] => a = b
  PROVE  Cardinality(G) < Cardinality(F)
<1>1. g \in Injection(G, F \ {x})  BY DEF Injection, IsInjective
<1>2. IsFiniteSet(F \ {x}) /\ Cardinality(F \ {x}) = Cardinality(F) - 1  BY FS_RemoveElement
<1>3. IsFiniteSet(G) /\ Cardinality(G) <= Cardinality(F \ {x})  BY <1>1, <1>2, FS_Injection
<1>4. Cardinality(F) \in Nat /\ Cardinality(G) \in Nat  BY <1>3, FS_CardinalityType
<1> QED  BY <1>2, <1>3, <1>4

(* What StructNamed leaves where: from token i + 1 on each is one further  *)
(* to the left if i is "struct".                                           *)
LEMMA NamedIs ==
  ASSUME RoomInv, NEW i \in 0..Len(text)
  PROVE  /\ DOMAIN StructNamed(i) = 0..Len(text) + 1
         /\ \E e \in {0, 1}:
              /\ StructNamed(i) # tokens => e = 1
              /\ \A k \in 0..Len(text) + 1:
                   StructNamed(i)[k] # << >> =>
                     \/ k < i /\ tokens[k] # << >> /\ StructNamed(i)[k] = tokens[k]
                     \/ k = i
                     \/ k > i /\ k + e \in DOMAIN tokens /\ tokens[k + e] # << >>
<1>1. Len(text) \in Nat /\ DOMAIN tokens = 0..Len(text) + 1  BY TextLen DEF RoomInv
<1>2. CASE tokens[i] # <<"struct">>
  <2>1. StructNamed(i) = tokens  BY <1>2 DEF StructNamed
  <2>2. \A k \in 0..Len(text) + 1: k < i \/ k = i \/ (k > i /\ k + 0 = k)  BY <1>1
  <2>3. \A k \in 0..Len(text) + 1:
           tokens[k] # << >> =>
             \/ k < i /\ tokens[k] # << >>
             \/ k = i
             \/ k > i /\ k + 0 \in DOMAIN tokens /\ tokens[k + 0] # << >>
    BY <1>1, <2>2
  <2> QED  BY <1>1, <2>1, <2>3
<1>3. CASE tokens[i] = <<"struct">>
  <2> DEFINE named == [k \in DOMAIN tokens |->
                IF k < i THEN tokens[k] ELSE IF k = i THEN <<"struct", ASpace>> \o Tok(i + 1) ELSE Tok(k + 1)]
  <2>1. StructNamed(i) = named  BY <1>3 DEF StructNamed
  <2>2. DOMAIN named = 0..Len(text) + 1  BY <1>1
  <2>3. \A k \in 0..Len(text) + 1:
          /\ k < i => named[k] = tokens[k]
          /\ k > i => named[k] = Tok(k + 1)
    BY <1>1
  <2> HIDE DEF named
  <2>4. \A k \in Nat: Tok(k) # << >> => k \in DOMAIN tokens /\ tokens[k] # << >>  BY DEF Tok, Of
  <2>5. \A k \in 0..Len(text) + 1: (k < i \/ k = i \/ k > i) /\ k + 1 \in Nat  BY <1>1
  <2>6. \A k \in 0..Len(text) + 1:
           named[k] # << >> =>
             \/ k < i /\ tokens[k] # << >> /\ named[k] = tokens[k]
             \/ k = i
             \/ k > i /\ k + 1 \in DOMAIN tokens /\ tokens[k + 1] # << >>
    BY <2>3, <2>4, <2>5
  <2> QED  BY <2>1, <2>2, <2>6
<1> QED  BY <1>2, <1>3

LEMMA ResetOnward ==
  ASSUME RoomInv, lexed \in {"casts", "structs"}, NEW i \in Nat, i \in Filled, i + 1 \in Filled,
         ResetTokens(i)
  PROVE  RoomInv' /\ GoesOn
<1>1. Len(text) \in Nat /\ DOMAIN tokens = 0..Len(text) + 1 /\ TextIs /\ Working
      /\ tokens[Len(text) + 1] = << >>
  BY TextLen DEF RoomInv, Working
<1>2. i \in 0..Len(text)  BY <1>1 DEF Filled
<1>3. Phase > 0 /\ Phase \notin {3, 4}  BY DEF Phase
<1>4. IsFiniteSet(Filled)
  <2>1. IsFiniteSet(0..Len(text) + 1)  BY <1>1, FS_Interval
  <2> QED  BY <1>1, <2>1, FS_Subset DEF Filled
<1>5. ASSUME UNCHANGED <<text, start, row, lexed, made>>, DOMAIN tokens' = DOMAIN tokens,
             tokens'[Len(text) + 1] = << >>, NEW g, g \in [Filled' -> Filled \ {i + 1}],
             \A a, b \in Filled': g[a] = g[b] => a = b
      PROVE  RoomInv' /\ GoesOn
  <2>1. Cardinality(Filled') < Cardinality(Filled)  BY <1>4, <1>5, FewerThan
  <2>2. Filled' \subseteq DOMAIN tokens  BY <1>5 DEF Filled
  <2>3. RoomInv'  BY <1>1, <1>5 DEF RoomInv, TextIs
  <2>4. Phase' = Phase  BY <1>5 DEF Phase
  <2> QED  BY <1>3, <2>1, <2>2, <2>3, <2>4 DEF GoesOn
<1> DEFINE named == StructNamed(i)
<1>6. DOMAIN named = 0..Len(text) + 1  BY <1>2, NamedIs
<1>7. PICK e \in {0, 1}:
        /\ named # tokens => e = 1
        /\ \A k \in 0..Len(text) + 1:
             named[k] # << >> =>
               \/ k < i /\ tokens[k] # << >> /\ named[k] = tokens[k]
               \/ k = i
               \/ k > i /\ k + e \in DOMAIN tokens /\ tokens[k + e] # << >>
  BY <1>2, NamedIs
<1> HIDE DEF named
<1> DEFINE right == Run(named, i + 1, 1, <<")">>)
           run   == Run(named, i - 1, -1, <<"(">>)
           left  == IF i - 1 - run <= 0 \/ EndsInWord(Of(named, i - 1 - run)) THEN right ELSE run
           next  == Of(named, i + 2)
           opens == next # << >> /\ next[1] = "("
           inner == Run(named, i + 2, 1, <<"(">>)
           ts    == [k \in DOMAIN named |-> IF ~opens \/ k < i + 2 THEN named[k]
                                             ELSE IF k = i + 2 THEN Of(named, i + 2 + inner) ELSE << >>]
<1>8. right \in Nat
  <2>1. i + 1 \in Nat /\ <<")">> # << >>  BY SMTT(60)
  <2> QED  BY <1>1, <1>6, <2>1, RunRightIs
<1>9. \/ Returns("refused") \/ Returns("loops")
      \/ named # tokens /\ tokens' = named /\ UNCHANGED <<text, start, row, lexed, made>>
      \/ /\ left = right
         /\ tokens' = [k \in DOMAIN ts |->
                IF k < i - left THEN ts[k]
                ELSE IF k > i - left THEN Of(ts, k + left + right + 1)
                ELSE ts[k] \o ts[i] \o Of(ts, i + 1) \o Of(ts, i + right + 1)]
         /\ UNCHANGED <<text, start, row, lexed, made>>
  BY DEF ResetTokens, named
<1>10. CASE named # tokens /\ tokens' = named /\ UNCHANGED <<text, start, row, lexed, made>>
  <2> DEFINE g == [k \in Filled' |-> IF k <= i THEN k ELSE k + 1]
  <2>1. \A k \in Filled': k \in 0..Len(text) + 1 /\ named[k] # << >>  BY <1>6, <1>10 DEF Filled
  <2>2. \A k \in Filled': \/ k < i /\ k \in Filled
                          \/ k = i
                          \/ k > i /\ k + 1 \in Filled
    BY <1>1, <1>7, <1>10, <2>1 DEF Filled
  <2>3. \A k \in Filled': g[k] \in Filled \ {i + 1}  BY <1>2, <2>1, <2>2
  <2>4. \A a, b \in Filled': g[a] = g[b] => a = b  BY <1>2, <2>1
  <2>5. tokens'[Len(text) + 1] = << >>
    <3>1. Len(text) + 1 \in 0..Len(text) + 1 /\ Len(text) + 1 > i /\ Len(text) + 1 + e \in Nat
      BY <1>1, <1>2
    <3>2. named[Len(text) + 1] # << >> => Len(text) + 1 + e \in DOMAIN tokens  /\ tokens[Len(text) + 1 + e] # << >>
      BY <1>2, <1>7, <3>1
    <3>3. Len(text) + 1 + e \in DOMAIN tokens => e = 0  BY <1>1, <1>7
    <3> QED  BY <1>1, <1>7, <1>10, <3>2, <3>3
  <2> HIDE DEF g
  <2>6. g \in [Filled' -> Filled \ {i + 1}]  BY <2>3 DEF g
  <2> QED  BY <1>1, <1>5, <1>6, <1>10, <2>4, <2>5, <2>6
<1>11. CASE /\ left = right
            /\ tokens' = [k \in DOMAIN ts |->
                   IF k < i - left THEN ts[k]
                   ELSE IF k > i - left THEN Of(ts, k + left + right + 1)
                   ELSE ts[k] \o ts[i] \o Of(ts, i + 1) \o Of(ts, i + right + 1)]
            /\ UNCHANGED <<text, start, row, lexed, made>>
  <2>1. DOMAIN ts = 0..Len(text) + 1  BY <1>6
  <2>2. \A k \in 0..Len(text) + 1: /\ k < i => ts[k] = named[k]
                                   /\ ts[k] # << >> => named[k] # << >>
    BY <1>2, <1>6 DEF Of
  <2> HIDE DEF left, ts, right
  <2> DEFINE p == i - right
             d == right + right + 1
             g == [k \in Filled' |-> IF k < p THEN k ELSE IF k = p THEN i ELSE k + d + e]
  <2>3. \A k \in 0..Len(text) + 1: /\ k < p => tokens'[k] = ts[k]
                                   /\ k > p => tokens'[k] = Of(ts, k + d)
    <3>1. \A k \in 0..Len(text) + 1: k + left + right + 1 = k + d /\ i - left = p  BY <1>8, <1>11
    <3>2. \A k \in 0..Len(text) + 1: ~(k < p /\ k > p)  BY <1>8
    <3> QED  BY <1>11, <2>1, <3>1, <3>2
  <2>4. DOMAIN tokens' = DOMAIN tokens  BY <1>1, <1>11, <2>1
  <2>5. \A k \in Filled': k \in 0..Len(text) + 1 /\ tokens'[k] # << >>  BY <1>1, <2>4 DEF Filled
  <2>6. \A k \in Filled': k < p => k \in Filled /\ k < i
    <3>1. \A k \in Filled': k < p => k < i  BY <1>8, <2>5
    <3>2. \A k \in Filled': k < p => named[k] # << >>  BY <2>2, <2>3, <2>5
    <3>3. \A k \in Filled': k < i => k # i /\ ~(k > i)  BY <1>2, <2>5
    <3> QED  BY <1>1, <1>7, <2>5, <3>1, <3>2, <3>3 DEF Filled
  <2>7. \A k \in Filled': k > p => k + d + e \in Filled /\ k + d + e > i + 1
    <3> SUFFICES ASSUME NEW k \in Filled', k > p PROVE k + d + e \in Filled /\ k + d + e > i + 1
      OBVIOUS
    <3>1. k + d \in Nat /\ k + d > i + 1 /\ k + d > i /\ k + d # i /\ ~(k + d < i)  BY <1>8, <2>5
    <3>2. Of(ts, k + d) # << >>  BY <2>3, <2>5
    <3>3. k + d \in 0..Len(text) + 1 /\ ts[k + d] # << >>  BY <2>1, <3>2 DEF Of
    <3>4. named[k + d] # << >>  BY <2>2, <3>3
    <3>5. k + d + e \in DOMAIN tokens /\ tokens[k + d + e] # << >>  BY <1>7, <3>1, <3>3, <3>4
    <3>6. k + d + e > i + 1  BY <1>7, <3>1
    <3> QED  BY <3>5, <3>6 DEF Filled
  <2>8. \A k \in Filled': g[k] \in Filled \ {i + 1}
    <3>1. \A k \in Filled': k < p \/ k = p \/ k > p  BY <1>8, <2>5
    <3>2. i # i + 1 /\ \A k \in Filled': k < i => k # i + 1  BY <2>5
    <3>3. \A k \in Filled': k + d + e > i + 1 => k + d + e # i + 1  BY <1>7, <1>8, <2>5
    <3> QED  BY <2>6, <2>7, <3>1, <3>2, <3>3
  <2>9. \A a, b \in Filled': g[a] = g[b] => a = b
    <3> SUFFICES ASSUME NEW a \in Filled', NEW b \in Filled', g[a] = g[b] PROVE a = b  OBVIOUS
    <3>1. /\ a < p => a < i /\ g[a] = a
          /\ a = p => g[a] = i
          /\ a > p => g[a] = a + d + e /\ g[a] > i + 1
      BY <1>7, <1>8, <2>5, <2>6, <2>7
    <3>2. /\ b < p => b < i /\ g[b] = b
          /\ b = p => g[b] = i
          /\ b > p => g[b] = b + d + e /\ g[b] > i + 1
      BY <1>7, <1>8, <2>5, <2>6, <2>7
    <3>3. a \in Nat /\ b \in Nat /\ p \in Int /\ d \in Nat /\ e \in Nat  BY <1>7, <1>8, <2>5
    <3> HIDE DEF g, p, d
    <3> QED  BY <3>1, <3>2, <3>3
  <2>10. tokens'[Len(text) + 1] = << >>
    <3>1. Len(text) + 1 > p /\ Len(text) + 1 \in 0..Len(text) + 1 /\ Len(text) + 1 + d \notin 0..Len(text) + 1
      BY <1>1, <1>2, <1>8
    <3> QED  BY <2>1, <2>3, <3>1 DEF Of
  <2> HIDE DEF g
  <2>11. g \in [Filled' -> Filled \ {i + 1}]  BY <2>8 DEF g
  <2> QED  BY <1>5, <1>11, <2>4, <2>9, <2>10, <2>11
<1> QED  BY <1>1, <1>9, <1>10, <1>11, ReturnsOnward, Zenon

(* The tokens the loops over casts and structs find. *)
LEMMA FirstOfIs ==
  ASSUME NEW S \in SUBSET Nat, FirstOf(S) # -1
  PROVE  FirstOf(S) \in S
<1>1. S # {}  BY DEF FirstOf
<1>2. \E i \in S: \A j \in S: i <= j  BY <1>1, LeastNat
<1> QED  BY <1>1, <1>2 DEF FirstOf

LEMMA EndsInWordIs == ASSUME NEW t, EndsInWord(t) PROVE t # << >>
<1>1. ~IsWord(ASpace)  BY Zenon DEF IsWord, Marks
<1> QED  BY <1>1, Zenon DEF EndsInWord, LastUnit

LEMMA TypeSpecifierIs ==
  ASSUME RoomInv, TypeSpecifier # -1
  PROVE  /\ TypeSpecifier \in Nat \ {0} /\ TypeSpecifier \in Filled /\ TypeSpecifier + 1 \in Filled
         /\ Tok(TypeSpecifier - 1) = <<"(">> /\ Tok(TypeSpecifier + 1) = <<")">>
<1> DEFINE S == {i \in DOMAIN tokens \ {0}:
             /\ HoldsType(tokens[i]) /\ Tok(i - 1) = <<"(">> /\ Tok(i + 1) = <<")">>
             /\ Tok(i + 2) # << >>
             /\ LET u == Tok(i + 2)[1] IN u \in Ahead \/ IsWord(u)}
<1>1. DOMAIN tokens = 0..Len(text) + 1 /\ Len(text) \in Nat  BY TextLen DEF RoomInv
<1>2. S \in SUBSET Nat  BY <1>1
<1>3. TypeSpecifier = FirstOf(S)  BY DEF TypeSpecifier
<1>4. TypeSpecifier \in S  BY <1>2, <1>3, FirstOfIs
<1>5. TypeSpecifier \in DOMAIN tokens \ {0} /\ HoldsType(tokens[TypeSpecifier])
      /\ Tok(TypeSpecifier - 1) = <<"(">> /\ Tok(TypeSpecifier + 1) = <<")">>
  BY <1>4
<1>6. tokens[TypeSpecifier] # << >>  BY <1>5 DEF HoldsType
<1>7. TypeSpecifier + 1 \in DOMAIN tokens /\ tokens[TypeSpecifier + 1] # << >>  BY <1>5 DEF Tok, Of
<1> QED  BY <1>1, <1>5, <1>6, <1>7 DEF Filled

LEMMA StructSpecifierIs ==
  ASSUME RoomInv, StructSpecifier # -1
  PROVE  /\ StructSpecifier \in Nat /\ StructSpecifier \in Filled /\ StructSpecifier + 1 \in Filled
         /\ tokens[StructSpecifier] = <<"struct">>
<1> DEFINE S == {i \in DOMAIN tokens: tokens[i] = <<"struct">> /\ EndsInWord(Tok(i + 1))}
<1>1. DOMAIN tokens = 0..Len(text) + 1 /\ Len(text) \in Nat  BY TextLen DEF RoomInv
<1>2. S \in SUBSET Nat  BY <1>1
<1>3. StructSpecifier = FirstOf(S)  BY DEF StructSpecifier
<1>4. StructSpecifier \in S  BY <1>2, <1>3, FirstOfIs
<1>5. StructSpecifier \in DOMAIN tokens /\ tokens[StructSpecifier] = <<"struct">>
      /\ Tok(StructSpecifier + 1) # << >>
  BY <1>4, EndsInWordIs
<1>6. StructSpecifier + 1 \in DOMAIN tokens /\ tokens[StructSpecifier + 1] # << >>  BY <1>5 DEF Tok, Of
<1>7. StructSpecifier \in Nat /\ tokens[StructSpecifier] # << >>  BY <1>1, <1>5
<1> QED  BY <1>5, <1>6, <1>7, Zenon DEF Filled

LEMMA WithinArray ==
  ASSUME RoomInv, AtOp({"*"})
  PROVE  row \in DOMAIN tokens
<1>1. Len(text) \in Nat /\ start \in 1..Len(text) /\ row \in 0..start - 1  BY OpBounds
<1>2. row \in 0..Len(text) + 1  BY <1>1
<1> QED  BY <1>2 DEF RoomInv

LEMMA StepOnward ==
  ASSUME RoomInv, MakeTokens, ~LastStar
  PROVE  RoomInv' /\ GoesOn
<1>1. CASE Pass
  <2>1. ~BeyondArray  BY WithinArray DEF BeyondArray
  <2> QED  BY <1>1, <2>1, StepsOnward, StarsOnward, OthersOnward, WordsOnward DEF Pass
<1>2. CASE LastWords \/ NextWord \/ LastWord  BY <1>2, WordsOnward
<1>3. CASE Whole  BY <1>3, WholeOnward DEF LexInv
<1>4. CASE Cast  BY <1>4, TypeSpecifierIs, ResetOnward DEF Cast
<1>5. CASE Struct  BY <1>5, StructSpecifierIs, ResetOnward DEF Struct
<1>6. CASE Casts
  <2>1. lexed = "casts" /\ lexed' = "structs" /\ UNCHANGED <<text, start, row, tokens, made>>
    BY <1>6 DEF Casts, Returns
  <2>2. Phase = 2 /\ Phase' = 1  BY <2>1 DEF Phase
  <2>3. Working /\ RoomInv'  BY <2>1 DEF RoomInv, TextIs, Working
  <2> QED  BY <2>2, <2>3 DEF GoesOn
<1>7. CASE Done
  <2>1. lexed = "structs" /\ lexed' = "done" /\ UNCHANGED <<text, start, row, tokens>>
    BY <1>7 DEF Done
  <2>2. Phase = 1 /\ Phase' = 0  BY <2>1 DEF Phase
  <2>3. ~Working' /\ RoomInv'  BY <2>1 DEF RoomInv, TextIs, Working
  <2> QED  BY <2>2, <2>3 DEF GoesOn
<1> QED  BY <1>1, <1>2, <1>3, <1>4, <1>5, <1>6, <1>7 DEF MakeTokens

LEMMA NoneTrimmed == Trimmed(<< >>) = << >>
<1>1. {k \in 1..Len(<< >>): NotSpace(<< >>[k])} = {}  OBVIOUS
<1>2. SelectLastInSeq(<< >>, NotSpace) = 0  BY <1>1 DEF SelectLastInSeq
<1> QED  BY <1>2 DEF Trimmed

(* A last star is not passed: the loop comes round again. *)
LEMMA LastStarAgain ==
  ASSUME RoomInv, LastStar
  PROVE  Again
<1>1. AtOp({"*"}) /\ start = Len(text) /\ row > 0  BY DEF LastStar
<1>2. /\ lexed = "reading" /\ Len(text) \in Nat /\ start \in 1..Len(text) /\ row \in 0..start - 1
  BY <1>1, OpBounds
<1>3. TextIs /\ DOMAIN tokens = 0..Len(text) + 1 /\ \A k \in start..Len(text) + 1: tokens[k] = << >>
  BY <1>2 DEF RoomInv
<1>4. text # << >> /\ text[Len(text)] = "*"  BY <1>1, <1>3 DEF AtOp, TextIs
<1>5. Undefined(text)  BY <1>4 DEF Undefined, Last
<1>6. row \in 1..Len(text) + 2 /\ Len(text) \in start..Len(text) + 1 /\ Len(text) + 1 \in start..Len(text) + 1
  BY <1>1, <1>2
<1> QED  BY <1>1, <1>2, <1>3, <1>5, <1>6 DEF Again

(* Nothing else comes next there. *)
LEMMA AgainSteps ==
  ASSUME Again, MakeTokens
  PROVE  \/ lexed = "reading" /\ (PointerType \/ LastStar \/ BeyondArray)
         \/ lexed = "last" /\ Whole
<1>1. Len(text) \in Nat \ {0} /\ DOMAIN text = 1..Len(text) /\ TextIs  BY TextLen DEF Again
<1>2. text[Len(text)] = "*" /\ "*" \in Ops
  BY Zenon DEF Again, Undefined, Last, Ops
<1>3. CASE lexed = "reading"
  <2>1. start = Len(text) /\ row > 0  BY <1>1, <1>3 DEF Again
  <2>2. text[start] = "*" /\ Unit(start) = "*"  BY <1>1, <1>2, <2>1 DEF Unit
  <2>3. NextOp(start) = start
    <3>1. start \in 1..Len(text) + 1  BY <1>1, <2>1
    <3>2. NextOp(start) \in start..Len(text) + 1 /\ \A k \in start..NextOp(start) - 1: ~IsOp(text[k])
      BY <1>1, <3>1, NextOpIs
    <3>3. IsOp(text[start])  BY <1>2, <2>2 DEF IsOp
    <3>4. start \notin start..NextOp(start) - 1  BY <3>2, <3>3
    <3> QED  BY <1>1, <2>1, <3>2, <3>4
  <2>4. ~Spaces /\ ~LastWords /\ ~Name
    <3>1. ~(NextOp(start) > Len(text)) /\ NextOp(start) \notin start + 1..Len(text)  BY <1>1, <2>1, <2>3
    <3>2. Unit(start) # ASpace  BY <2>2 DEF ASpace
    <3> QED  BY <3>1, <3>2 DEF Spaces, LastWords, Name
  <2>5. "*" \notin Steps \cup Doubles \cup Others \cup Strings \cup {AQuote, "->", "&", "("}
    <3>1. "*" \notin Strings  BY StringsAssumption
    <3>2. "*" \notin Steps \cup Doubles \cup Others \cup {AQuote, "->", "&", "("}
      BY DEF Steps, Doubles, Others, AQuote
    <3> QED  BY <3>1, <3>2
  <2>6. \A us: AtOp(us) => "*" \in us  BY <2>2 DEF AtOp
  <2>7. ~Twice /\ ~StepBefore /\ ~StepAfter /\ ~Double /\ ~Arrow /\ ~Ampersand
    <3>1. ~AtOp(Steps) /\ ~AtOp(Doubles) /\ ~AtOp({"->"}) /\ ~AtOp({"&"})  BY <2>5, <2>6
    <3> QED  BY <3>1 DEF Twice, StepBefore, StepAfter, Double, Arrow, Ampersand
  <2>8. ~PrefixedBracket /\ ~Bracket /\ ~Quoted /\ ~OtherOp
    <3>1. ~AtOp({"("}) /\ ~AtOp(Others) /\ ~AtOp(Strings \cup {AQuote})  BY <2>5, <2>6
    <3> QED  BY <3>1 DEF PrefixedBracket, Bracket, Quoted, OtherOp
  <2>9. ~Star /\ ~FirstStar  BY <1>1, <2>1 DEF Star, FirstStar
  <2>10. ~NextWord /\ ~LastWord /\ ~Whole  BY <1>3 DEF NextWord, LastWord, Whole
  <2>11. ~Cast /\ ~Casts /\ ~Struct /\ ~Done  BY <1>3 DEF Cast, Casts, Struct, Done
  <2> QED  BY <1>3, <2>4, <2>7, <2>8, <2>9, <2>10, <2>11, Zenon DEF MakeTokens, Pass
<1>4. CASE lexed = "last"
  <2>1. ~(start <= Len(text))  BY <1>1, <1>4 DEF Again
  <2>2. ~NextWord /\ ~LastWord  BY <2>1 DEF NextWord, LastWord
  <2>3. ~Pass /\ ~LastWords
    BY <1>4 DEF Pass, Twice, StepBefore, StepAfter, Double, Arrow, Ampersand, PointerType, LastStar,
                BeyondArray, Star, FirstStar, PrefixedBracket, Bracket, Quoted, OtherOp, Spaces, Name,
                LastWords, AtOp
  <2>4. ~Cast /\ ~Casts /\ ~Struct /\ ~Done  BY <1>4 DEF Cast, Casts, Struct, Done
  <2> QED  BY <1>4, <2>2, <2>3, <2>4, Zenon DEF MakeTokens
<1> QED  BY <1>3, <1>4 DEF Again

LEMMA AgainOnward ==
  ASSUME Again, MakeTokens
  PROVE  LexInv' /\ GoesOn
<1>1. Len(text) \in Nat \ {0} /\ TextIs /\ DOMAIN tokens = 0..Len(text) + 1  BY TextLen DEF Again
<1>2. /\ row \in 1..Len(text) + 2 /\ Undefined(text)
      /\ tokens[Len(text)] = << >> /\ tokens[Len(text) + 1] = << >>
  BY DEF Again
<1>3. ASSUME NEW r, r \in {"refused", "crash", "loops"}, Returns(r), lexed = "reading"
      PROVE  LexInv' /\ GoesOn
  <2>1. text' = text /\ tokens' = tokens /\ lexed' = r  BY <1>3 DEF Returns
  <2>2. Phase > 0 /\ Phase' = 0 /\ ~Working' /\ lexed' \notin {"reading", "last"}
    BY <1>3, <2>1 DEF Phase, Working
  <2>3. RoomInv'  BY <1>1, <2>1, <2>2 DEF RoomInv, TextIs
  <2> QED  BY <2>2, <2>3 DEF GoesOn, LexInv
<1>4. CASE lexed = "reading" /\ PointerType
  <2>1. /\ tokens' = [tokens EXCEPT ![row - 1] = Append(@, "*")] /\ start' = start + 1
        /\ text' = text /\ row' = row /\ lexed' = lexed /\ HoldsType(Prev) /\ start = Len(text)
    BY <1>4 DEF PointerType, Again
  <2>2. row - 1 \in DOMAIN tokens /\ tokens[row - 1] # << >>  BY <2>1 DEF HoldsType, Prev, Tok, Of
  <2>3. row - 1 # Len(text) /\ row - 1 # Len(text) + 1  BY <1>2, <2>2
  <2>4. row \in 0..Len(text) /\ start' = Len(text) + 1  BY <1>1, <1>2, <2>1, <2>2, <2>3
  <2>5. DOMAIN tokens' = 0..Len(text) + 1 /\ tokens'[Len(text) + 1] = << >>  BY <1>1, <1>2, <2>1, <2>3
  <2>6. \A k \in Len(text) + 1..Len(text) + 1: k = Len(text) + 1  BY <1>1
  <2>7. RoomInv'
    <3>1. start' \in 1..Len(text) + 1 /\ row' \in 0..start' - 1  BY <1>1, <2>1, <2>4
    <3>2. \A k \in start'..Len(text) + 1: tokens'[k] = << >>  BY <2>4, <2>5, <2>6
    <3> QED  BY <1>1, <2>1, <2>5, <3>1, <3>2 DEF RoomInv, TextIs
  <2>8. Phase = 4 /\ Phase' = 4  BY <1>4, <2>1 DEF Phase
  <2>9. start < start' /\ start' <= Len(text) + 1  BY <1>1, <2>1
  <2> QED  BY <2>7, <2>8, <2>9 DEF GoesOn, LexInv
<1>5. CASE lexed = "reading" /\ LastStar
  <2>1. start = Len(text) /\ row \in DOMAIN tokens /\ (Returns("loops") \/ PassEnds(row, Cur, start))
    BY <1>5 DEF LastStar
  <2>2. CASE PassEnds(row, Cur, start)
    <3>1. PICK ts \in {[tokens EXCEPT ![row] = Trimmed(Cur)]}:
            IF Clash(ts, row) THEN Returns("refused")
            ELSE /\ row' = row + 1 /\ start' = start /\ tokens' = ts /\ UNCHANGED <<text, lexed, made>>
      BY <2>1, <2>2 DEF PassEnds
    <3>2. CASE Clash(ts, row)  BY <1>3, <1>5, <3>1, <3>2
    <3>3. CASE ~Clash(ts, row)
      <4>1. /\ row' = row + 1 /\ start' = start /\ tokens' = [tokens EXCEPT ![row] = Trimmed(Cur)]
            /\ text' = text /\ lexed' = lexed
        BY <3>1, <3>3
      <4>2. row' \in 1..Len(text) + 2 /\ row < row' /\ row' <= Len(text) + 2  BY <1>1, <1>2, <2>1, <4>1
      <4>3. Trimmed(<< >>) = << >>  BY NoneTrimmed
      <4>4. DOMAIN tokens' = 0..Len(text) + 1 /\ \A k \in DOMAIN tokens: tokens[k] = << >> => tokens'[k] = << >>
        BY <1>1, <2>1, <4>1, <4>3 DEF Cur, Tok, Of
      <4>5. tokens'[Len(text)] = << >> /\ tokens'[Len(text) + 1] = << >>
        <5>1. Len(text) \in DOMAIN tokens /\ Len(text) + 1 \in DOMAIN tokens  BY <1>1
        <5> QED  BY <1>2, <4>4, <5>1
      <4>6. Again'  BY <1>1, <1>2, <1>5, <2>1, <4>1, <4>2, <4>4, <4>5 DEF Again, TextIs
      <4>7. Phase = 4 /\ Phase' = 4  BY <1>5, <4>1 DEF Phase
      <4>8. AtLastStar  BY <1>1, <1>2, <2>1 DEF AtLastStar
      <4> QED  BY <4>2, <4>6, <4>7, <4>8, <4>1 DEF GoesOn, LexInv
    <3> QED  BY <3>2, <3>3
  <2> QED  BY <1>3, <1>5, <2>1, <2>2
<1>6. CASE lexed = "reading" /\ BeyondArray
  <2>1. CASE start' = start + 1 /\ lexed' = "last" /\ UNCHANGED <<text, row, tokens, made>>
    <3>1. start = Len(text)  BY <1>6 DEF Again
    <3>2. Again'  BY <1>1, <1>2, <2>1, <3>1 DEF Again, TextIs
    <3>3. Phase = 4 /\ Phase' = 3  BY <1>6, <2>1 DEF Phase
    <3> QED  BY <3>2, <3>3 DEF GoesOn, LexInv
  <2> QED  BY <1>3, <1>6, <2>1 DEF BeyondArray
<1>7. CASE lexed = "last" /\ Whole  BY <1>7, WholeOnward DEF LexInv
<1> QED  BY <1>4, <1>5, <1>6, <1>7, AgainSteps

LEMMA LexOnward ==
  ASSUME LexInv, MakeTokens
  PROVE  LexInv' /\ GoesOn
BY StepOnward, LastStarAgain, AgainOnward DEF LexInv

LEMMA StartsWithRoom == ASSUME LexInit PROVE RoomInv
<1>1. TextIs  BY DEF LexInit, TextIs
<1>2. Len(text) \in Nat \ {0}  BY <1>1, TextLen
<1>3. DOMAIN tokens = 0..Len(text) + 1 /\ \A k \in 0..Len(text) + 1: tokens[k] = << >>  BY DEF LexInit
<1>4. start \in 1..Len(text) + 1 /\ row \in 0..start - 1  BY <1>2 DEF LexInit
<1> QED  BY <1>1, <1>2, <1>3, <1>4 DEF RoomInv

LEMMA LexInvCorrect == LexSpec => []LexInv
<1>1. LexInit => LexInv  BY StartsWithRoom DEF LexInv
<1>2. LexInv /\ [MakeTokens]_lexVars => LexInv'
  <2> SUFFICES ASSUME LexInv, [MakeTokens]_lexVars PROVE LexInv'  OBVIOUS
  <2>1. CASE MakeTokens  BY <2>1, LexOnward
  <2>2. CASE UNCHANGED lexVars  BY <2>2 DEF lexVars, LexInv, RoomInv, Again, TextIs, Working
  <2> QED  BY <2>1, <2>2
<1> QED  BY <1>1, <1>2, PTL DEF LexSpec

(* make_tokens never needs more tokens than its text has units, but for a  *)
(* text that ends in a star: at that star the loop may come round again    *)
(* and again, and row leave the array.  The list that is made of the array *)
(* always has its end.                                                     *)
THEOREM RoomEnoughCorrect == LexSpec => []RoomEnough
<1>1. LexInv => RoomEnough
  <2> SUFFICES ASSUME LexInv PROVE RoomEnough  OBVIOUS
  <2>1. CASE RoomInv
    <3>1. Len(text) \in Nat  BY <2>1, TextLen DEF RoomInv
    <3> QED  BY <2>1, <3>1 DEF RoomInv, RoomEnough
  <2>2. CASE Again
    <3>1. Len(text) \in Nat  BY <2>2, TextLen DEF Again
    <3>2. AtLastStar  BY <2>2, <3>1 DEF Again, AtLastStar
    <3> QED  BY <2>2, <3>2 DEF Again, RoomEnough
  <2> QED  BY <2>1, <2>2 DEF LexInv
<1> QED  BY <1>1, LexInvCorrect, PTL

(* Of the loops of make_tokens only two can be endless: at a cast in a     *)
(* sizeof, and at a star that ends the text and follows stars.  Every      *)
(* other pass reads on in the text, or ends a loop, or leaves fewer        *)
(* tokens, or at a last star comes nearer to the end of the array.         *)
THEOREM PassesEndCorrect == LexSpec => PassesEnd
<1>1. LexInv /\ [MakeTokens]_lexVars => [GoesOn]_lexVars  BY LexOnward
<1> QED  BY <1>1, LexInvCorrect, PTL DEF LexSpec, PassesEnd
-----------------------------------------------------------------------------
(* What is left of a text without its spaces and brackets *)

(* Nothing is left if all are left out. *)
LEMMA WithoutAll ==
  ASSUME NEW S, NEW X
  PROVE  \A s \in Seq(S): (\A i \in 1..Len(s): s[i] \in X) => Without(s, X) = << >>
<1> DEFINE T == {s \in Seq(S): (\A i \in 1..Len(s): s[i] \in X) => Without(s, X) = << >>}
<1>1. << >> \in T  BY EmptySeq, WithoutIs
<1>2. ASSUME NEW s \in Seq(S) \cap T, NEW u \in S PROVE Append(s, u) \in T
  <2> SUFFICES ASSUME \A i \in 1..Len(Append(s, u)): Append(s, u)[i] \in X
               PROVE  Without(Append(s, u), X) = << >>
    BY AppendProperties
  <2>1. /\ Len(Append(s, u)) = Len(s) + 1 /\ Len(s) \in Nat
        /\ \A i \in 1..Len(s): Append(s, u)[i] = s[i]
        /\ Append(s, u)[Len(s) + 1] = u
    BY AppendProperties
  <2>2. Len(s) + 1 \in 1..Len(Append(s, u)) /\ \A i \in 1..Len(s): i \in 1..Len(Append(s, u))  BY <2>1
  <2>3. u \in X /\ \A i \in 1..Len(s): s[i] \in X  BY <2>1, <2>2
  <2>4. Without(s, X) = << >>  BY <1>2, <2>3
  <2>5. Bit(u, X) = << >>  BY <2>3 DEF Bit
  <2>6. Without(Append(s, u), X) = << >> \o << >>  BY <2>4, <2>5, WithoutIs
  <2>7. << >> \o << >> = << >>  BY EmptySeq, ConcatEmptySeq
  <2> QED  BY <2>6, <2>7
<1> HIDE DEF T
<1>3. Seq(S) \subseteq T  BY <1>1, <1>2, SeqInduction
<1> QED  BY <1>3 DEF T

(* Leaving some out first makes no difference. *)
LEMMA WithoutTwice ==
  ASSUME NEW S, NEW Y, NEW X \in SUBSET Y
  PROVE  \A s \in Seq(S): Without(Without(s, X), Y) = Without(s, Y)
<1>4. \A Z: \A r \in Seq(S): \A v \in S: Without(Append(r, v), Z) = Without(r, Z) \o Bit(v, Z)
  BY WithoutIs
<1>5. \A r, t \in Seq(S): Without(r \o t, Y) = Without(r, Y) \o Without(t, Y)  BY WithoutConcat
<1> DEFINE T == {s \in Seq(S): Without(Without(s, X), Y) = Without(s, Y)}
<1>1. << >> \in T  BY EmptySeq, WithoutIs
<1>2. ASSUME NEW s \in Seq(S) \cap T, NEW u \in S PROVE Append(s, u) \in T
  <2>1. s \in Seq(S) /\ Append(s, u) \in Seq(S)  BY AppendProperties
  <2>2. Without(Append(s, u), X) = Without(s, X) \o Bit(u, X)  BY <1>4, <2>1
  <2>3. Without(s, X) \in Seq(S) /\ Bit(u, X) \in Seq(S)  BY <2>1, WithoutIs, BitIs
  <2>4. Without(Without(s, X) \o Bit(u, X), Y) = Without(Without(s, X), Y) \o Without(Bit(u, X), Y)
    BY <1>5, <2>3
  <2>5. Without(Bit(u, X), Y) = Bit(u, Y)
    <3>1. CASE u \in X  BY <3>1, EmptySeq, WithoutIs DEF Bit
    <3>2. CASE u \notin X
      <4>1. Bit(u, X) = Append(<< >>, u)  BY <3>2 DEF Bit
      <4>2. << >> \in Seq(S) /\ Bit(u, Y) \in Seq(S)  BY EmptySeq, BitIs
      <4>3. Without(Append(<< >>, u), Y) = << >> \o Bit(u, Y)
        <5>1. Without(<< >>, Y) = << >>  BY <4>2, WithoutIs
        <5> QED  BY <1>4, <4>2, <5>1
      <4>4. << >> \o Bit(u, Y) = Bit(u, Y)  BY <4>2, ConcatEmptySeq
      <4> QED  BY <4>1, <4>3, <4>4
    <3> QED  BY <3>1, <3>2
  <2>6. Without(Append(s, u), Y) = Without(s, Y) \o Bit(u, Y)  BY <1>4, <2>1
  <2> QED  BY <1>2, <2>1, <2>2, <2>4, <2>5, <2>6
<1> HIDE DEF T
<1>3. Seq(S) \subseteq T  BY <1>1, <1>2, SeqInduction
<1> QED  BY <1>3 DEF T

LEMMA WithoutJoined ==
  ASSUME NEW S, NEW X, NEW f, NEW g, NEW n \in Nat, \A k \in 0..n - 1: f[k] \in Seq(S) /\ g[k] = Without(f[k], X)
  PROVE  Without(Joined(f, n), X) = Joined(g, n)
<1>5. \A r, t \in Seq(S): Without(r \o t, X) = Without(r, X) \o Without(t, X)  BY WithoutConcat
<1> DEFINE T == {m \in Nat: m <= n => Without(Joined(f, m), X) = Joined(g, m)}
<1>1. 0 \in T
  <2>1. 0 \in Nat /\ (\A k \in 0..0 - 1: f[k] \in Seq(S)) /\ (\A k \in 0..0 - 1: g[k] \in Seq(S))  OBVIOUS
  <2>2. Joined(f, 0) = << >> /\ Joined(g, 0) = << >>  BY <2>1, JoinedIs
  <2>3. Without(<< >>, X) = << >>  BY EmptySeq, WithoutIs
  <2> QED  BY <2>2, <2>3
<1>2. ASSUME NEW m \in T \cap Nat PROVE m + 1 \in T
  <2> SUFFICES ASSUME m + 1 <= n PROVE Without(Joined(f, m + 1), X) = Joined(g, m + 1)  OBVIOUS
  <2>1. m <= n /\ \A k \in 0..m: k \in 0..n - 1  OBVIOUS
  <2>2. Without(Joined(f, m), X) = Joined(g, m)  BY <1>2, <2>1
  <2> HIDE DEF T
  <2>3. \A k \in 0..m: f[k] \in Seq(S) /\ g[k] = Without(f[k], X)  BY <2>1
  <2>4. \A k \in 0..m: g[k] \in Seq(S)  BY <2>3, WithoutIs
  <2>5. \A k \in 0..m - 1: k \in 0..m  OBVIOUS
  <2>6. Joined(f, m) \in Seq(S)
    <3>1. \A k \in 0..m - 1: f[k] \in Seq(S)  BY <2>3, <2>5
    <3> QED  BY <3>1, JoinedIs
  <2>7. Joined(g, m) \in Seq(S)
    <3>1. \A k \in 0..m - 1: g[k] \in Seq(S)  BY <2>4, <2>5
    <3> QED  BY <3>1, JoinedIs
  <2>8. Joined(f, m + 1) = Joined(f, m) \o f[m]  BY <2>3, <2>6, JoinedStep
  <2>9. Joined(g, m + 1) = Joined(g, m) \o g[m]  BY <2>4, <2>7, JoinedStep
  <2>10. m \in 0..m  OBVIOUS
  <2>11. f[m] \in Seq(S) /\ g[m] = Without(f[m], X)  BY <2>3, <2>10
  <2>12. Without(Joined(f, m) \o f[m], X) = Without(Joined(f, m), X) \o Without(f[m], X)
    BY <1>5, <2>6, <2>11
  <2> QED  BY <2>2, <2>8, <2>9, <2>11, <2>12
<1> HIDE DEF T
<1>3. Nat \subseteq T  BY <1>1, <1>2, SetInduction
<1>4. n \in T /\ n <= n  BY <1>3
<1> QED  BY <1>4 DEF T
-----------------------------------------------------------------------------
(* What has been read stands in the tokens. *)

LEMMA KeptIs ==
  ASSUME NEW S, NEW s \in Seq(S)
  PROVE  /\ Unbracketed(s) \in Seq(S) /\ Unbracketed(<< >>) = << >>
         /\ \A t \in Seq(S): Unbracketed(s \o t) = Unbracketed(s) \o Unbracketed(t)
         /\ (\A i \in 1..Len(s): s[i] \in {ASpace, "(", ")"}) => Unbracketed(s) = << >>
         /\ Dense(s) \in Seq(S) /\ Unbracketed(Dense(s)) = Unbracketed(s)
<1> DEFINE X == {ASpace, "(", ")"}
<1>1. Unbracketed(s) \in Seq(S) /\ Unbracketed(<< >>) = << >>  BY WithoutIs DEF Unbracketed
<1>2. \A t \in Seq(S): Unbracketed(s \o t) = Unbracketed(s) \o Unbracketed(t)
  BY WithoutConcat DEF Unbracketed
<1>3. (\A i \in 1..Len(s): s[i] \in X) => Unbracketed(s) = << >>  BY WithoutAll DEF Unbracketed
<1>4. Dense(s) \in Seq(S)  BY WithoutIs DEF Dense
<1>5. Unbracketed(Dense(s)) = Unbracketed(s)
  <2>1. {ASpace} \in SUBSET X  OBVIOUS
  <2> QED  BY <2>1, WithoutTwice DEF Dense, Unbracketed
<1> QED  BY <1>1, <1>2, <1>3, <1>4, <1>5

LEMMA KeptConcat ==
  \A S: \A x, y \in Seq(S): Unbracketed(x \o y) = Unbracketed(x) \o Unbracketed(y)
<1> SUFFICES ASSUME NEW S PROVE \A x, y \in Seq(S): Unbracketed(x \o y) = Unbracketed(x) \o Unbracketed(y)
  OBVIOUS
<1> QED  BY KeptIs, ZenonT(60)

LEMMA KeptAppend ==
  ASSUME NEW S, NEW s \in Seq(S), NEW u \in S
  PROVE  /\ Append(s, u) \in Seq(S)
         /\ Unbracketed(Append(s, u)) = Unbracketed(s) \o Unbracketed(<<u>>)
<1>1. <<u>> \in Seq(S) /\ Append(s, u) = s \o <<u>> /\ Append(s, u) \in Seq(S)
  BY AppendIsConcat, AppendProperties
<1>2. \A t \in Seq(S): Unbracketed(s \o t) = Unbracketed(s) \o Unbracketed(t)  BY KeptIs, ZenonT(60)
<1> QED  BY <1>1, <1>2

LEMMA KeptMark ==
  ASSUME NEW u, u \in {ASpace, "(", ")"}
  PROVE  Unbracketed(<<u>>) = << >>
<1>1. <<u>> \in Seq({u}) /\ Len(<<u>>) = 1 /\ <<u>>[1] = u  OBVIOUS
<1>2. \A i \in 1..Len(<<u>>): <<u>>[i] \in {ASpace, "(", ")"}  BY <1>1
<1> QED  BY <1>1, <1>2, KeptIs

LEMMA TrimmedIs ==
  ASSUME NEW S, NEW t \in Seq(S)
  PROVE  /\ Trimmed(t) \in Seq(S) /\ Unbracketed(Trimmed(t)) = Unbracketed(t)
         /\ (\E i \in 1..Len(t): t[i] # ASpace) => Trimmed(t) # << >>
<1>0. \A y, z \in Seq(S): Unbracketed(y \o z) = Unbracketed(y) \o Unbracketed(z)  BY KeptIs, ZenonT(60)
<1> DEFINE I == {k \in 1..Len(t): NotSpace(t[k])}
           j == IF I # {} THEN Max(I) ELSE 0
<1>1. Trimmed(t) = SubSeq(t, 1, j)  BY DEF Trimmed, SelectLastInSeq
<1>2. Len(t) \in Nat  OBVIOUS
<1>3. I \in SUBSET 0..Len(t) /\ \A y \in I: y > 0  BY <1>2
<1>4. I # {} => Max(I) \in I /\ \A y \in I: y <= Max(I)
  <2> HIDE DEF I
  <2> QED  BY <1>2, <1>3, MaxIs
<1>5. j \in 0..Len(t) /\ (I # {} => j > 0)  BY <1>2, <1>3, <1>4
<1>6. \A k \in j + 1..Len(t): t[k] = ASpace
  <2> SUFFICES ASSUME NEW k \in j + 1..Len(t) PROVE t[k] = ASpace  OBVIOUS
  <2>1. k \in 1..Len(t) /\ ~(k <= j)  BY <1>2, <1>5
  <2>2. k \notin I
    <3> HIDE DEF I
    <3> QED  BY <1>4, <2>1
  <2> QED  BY <2>1, <2>2 DEF NotSpace
<1> HIDE DEF j
<1> DEFINE a == SubSeq(t, 1, j)
           b == SubSeq(t, j + 1, Len(t))
<1>7. a \in Seq(S) /\ Len(a) = j  BY <1>5, UptoIs
<1>8. b \in Seq(S) /\ \A k \in 1..Len(b): b[k] = ASpace
  <2>1. \A k \in j + 1..Len(t): t[k] \in S  BY <1>2, <1>5
  <2>2. /\ b \in Seq(S) /\ Len(b) = IF j + 1 <= Len(t) THEN Len(t) - (j + 1) + 1 ELSE 0
        /\ \A k \in 1..Len(t) - (j + 1) + 1: b[k] = t[j + 1 + k - 1]
    BY <1>2, <1>5, <2>1, SubSeqProperties
  <2> HIDE DEF b
  <2>3. \A k \in 1..Len(b): k \in 1..Len(t) - (j + 1) + 1 /\ j + 1 + k - 1 \in j + 1..Len(t)
    BY <1>2, <1>5, <2>2
  <2> QED  BY <1>6, <2>2, <2>3
<1>9. t = a \o b
  <2>1. 1 \in 1..Len(t) + 1 /\ j \in 1 - 1..Len(t) /\ Len(t) \in j..Len(t)  BY <1>2, <1>5
  <2>2. a \o b = SubSeq(t, 1, Len(t))  BY <2>1, ConcatAdjacentSubSeq
  <2> QED  BY <2>2, SubSeqFull
<1> HIDE DEF a, b
<1>10. Unbracketed(b) = << >>
  <2>1. \A k \in 1..Len(b): b[k] \in {ASpace, "(", ")"}  BY <1>8
  <2> QED  BY <1>8, <2>1, KeptIs
<1>11. Unbracketed(t) = Unbracketed(a)
  <2>1. Unbracketed(a \o b) = Unbracketed(a) \o Unbracketed(b)  BY <1>0, <1>7, <1>8
  <2>2. Unbracketed(a) \in Seq(S)  BY <1>7, KeptIs
  <2>3. Unbracketed(a) \o << >> = Unbracketed(a)  BY <2>2, ConcatEmptySeq
  <2> QED  BY <1>9, <1>10, <2>1, <2>3
<1>12. (\E i \in 1..Len(t): t[i] # ASpace) => a # << >>
  <2> SUFFICES ASSUME NEW i \in 1..Len(t), t[i] # ASpace PROVE a # << >>  OBVIOUS
  <2>1. i \in I  BY DEF NotSpace
  <2>2. Len(a) > 0  BY <1>5, <1>7, <2>1
  <2> QED  BY <2>2, EmptySeq
<1> QED  BY <1>1, <1>7, <1>11, <1>12 DEF a

(* What the text has between two places. *)
LEMMA SpanIs ==
  ASSUME TextIs, NEW i \in 1..Len(text) + 1, NEW j \in i..Len(text) + 1, NEW S, Range(text) \subseteq S
  PROVE  /\ Span(i, j) \in Seq(S) /\ Len(Span(i, j)) = j - i
         /\ \A k \in 1..j - i: Span(i, j)[k] = text[i + k - 1]
         /\ \A k \in j..Len(text) + 1: Span(i, k) = Span(i, j) \o Span(j, k)
         /\ (\A k \in i..j - 1: text[k] \in {ASpace, "(", ")"}) => Unbracketed(Span(i, j)) = << >>
<1>1. Len(text) \in Nat /\ text \in Seq(Range(text)) /\ \A k \in 1..Len(text): text[k] \in S
  <2>1. text \in Seq(Range(text)) /\ Len(text) \in Nat  BY TextLen DEF TextIs
  <2>2. \A k \in 1..Len(text): text[k] \in Range(text)  BY <2>1, ElementOfSeq
  <2> QED  BY <2>1, <2>2
<1>2. \A k \in i..j - 1: text[k] \in S  BY <1>1
<1>3. /\ Span(i, j) \in Seq(S) /\ Len(Span(i, j)) = IF i <= j - 1 THEN j - 1 - i + 1 ELSE 0
      /\ \A k \in 1..j - 1 - i + 1: Span(i, j)[k] = text[i + k - 1]
  <2>1. i \in Int /\ j - 1 \in Int  BY <1>1
  <2> QED  BY <1>2, <2>1, SubSeqProperties DEF Span
<1>4. Len(Span(i, j)) = j - i /\ j - 1 - i + 1 = j - i  BY <1>1, <1>3
<1>5. ASSUME NEW k \in j..Len(text) + 1 PROVE Span(i, k) = Span(i, j) \o Span(j, k)
  <2>1. i \in 1..Len(text) + 1 /\ j - 1 \in i - 1..Len(text) /\ k - 1 \in j - 1..Len(text) /\ j - 1 + 1 = j
    BY <1>1
  <2>2. SubSeq(text, i, j - 1) \o SubSeq(text, j - 1 + 1, k - 1) = SubSeq(text, i, k - 1)
    BY <1>1, <2>1, ConcatAdjacentSubSeq
  <2> QED  BY <2>1, <2>2 DEF Span
<1>6. ASSUME \A k \in i..j - 1: text[k] \in {ASpace, "(", ")"} PROVE Unbracketed(Span(i, j)) = << >>
  <2>1. \A k \in 1..Len(Span(i, j)): k \in 1..j - i /\ i + k - 1 \in i..j - 1  BY <1>1, <1>4
  <2>2. \A k \in 1..Len(Span(i, j)): Span(i, j)[k] \in {ASpace, "(", ")"}  BY <1>3, <1>4, <1>6, <2>1
  <2> QED  BY <1>3, <2>2, KeptIs
<1> QED  BY <1>3, <1>4, <1>5, <1>6

(* What is kept of tokens that stand one after the other. *)
KeepsOf(S, f, F, n) == \A k \in 0..n - 1: f[k] \in Seq(S) /\ F[k] = Unbracketed(f[k])

LEMMA KeptParts ==
  ASSUME NEW S, NEW f, NEW F, NEW n \in Nat, KeepsOf(S, f, F, n)
  PROVE  (\A k \in 0..n - 1: F[k] \in Seq(S)) /\ Unbracketed(Joined(f, n)) = Joined(F, n)
<1>1. \A k \in 0..n - 1: F[k] \in Seq(S)  BY KeptIs DEF KeepsOf
<1> DEFINE X == {ASpace, "(", ")"}
<1>2. \A s: Unbracketed(s) = Without(s, X)  BY DEF Unbracketed
<1> HIDE DEF X
<1>3. \A k \in 0..n - 1: f[k] \in Seq(S) /\ F[k] = Without(f[k], X)  BY <1>2 DEF KeepsOf
<1>4. Without(Joined(f, n), X) = Joined(F, n)  BY <1>3, WithoutJoined
<1> QED  BY <1>1, <1>2, <1>4

(* One token is written, and there is nothing behind it. *)
WrittenAt(S, f, g, n, r, x) ==
  /\ \A k \in 0..n - 1: f[k] \in Seq(S) /\ g[k] \in Seq(S) /\ (k # r => g[k] = f[k])
  /\ \A k \in r + 1..n - 1: f[k] = << >>
  /\ Unbracketed(g[r]) = Unbracketed(f[r]) \o x

LEMMA KeptBehind ==
  ASSUME NEW S, NEW f, NEW g, NEW n \in Nat, NEW r \in 0..n - 1, NEW x \in Seq(S),
         WrittenAt(S, f, g, n, r, x)
  PROVE  Unbracketed(Joined(g, n)) = Unbracketed(Joined(f, n)) \o x
<1>0. /\ \A k \in 0..n - 1: f[k] \in Seq(S) /\ g[k] \in Seq(S) /\ (k # r => g[k] = f[k])
      /\ \A k \in r + 1..n - 1: f[k] = << >>
      /\ Unbracketed(g[r]) = Unbracketed(f[r]) \o x
  BY DEF WrittenAt
<1> DEFINE F == [k \in 0..n - 1 |-> Unbracketed(f[k])]
           G == [k \in 0..n - 1 |-> Unbracketed(g[k])]
<1>1. \A k \in 0..n - 1: F[k] = Unbracketed(f[k]) /\ f[k] \in Seq(S)  BY <1>0
<1>2. \A k \in 0..n - 1: G[k] = Unbracketed(g[k]) /\ g[k] \in Seq(S)  BY <1>0
<1> HIDE DEF F, G
<1>15. (\A k \in 0..n - 1: F[k] \in Seq(S)) /\ Unbracketed(Joined(f, n)) = Joined(F, n)
  <2>1. KeepsOf(S, f, F, n)  BY <1>1 DEF KeepsOf
  <2> QED  BY <2>1, KeptParts
<1>16. (\A k \in 0..n - 1: G[k] \in Seq(S)) /\ Unbracketed(Joined(g, n)) = Joined(G, n)
  <2>1. KeepsOf(S, g, G, n)  BY <1>2 DEF KeepsOf
  <2> QED  BY <2>1, KeptParts
<1>3. r \in Nat /\ r + 1 \in Nat /\ r + 1 <= n /\ r + 1 > 0 /\ r + 1 - 1 = r  OBVIOUS
<1>4. \A k \in 0..r - 1: k \in 0..n - 1 /\ k # r  OBVIOUS
<1>5. Joined(G, r) = Joined(F, r)
  <2>1. \A k \in 0..r - 1: G[k] = F[k]  BY <1>0, <1>1, <1>2, <1>4
  <2> QED  BY <1>3, <2>1, JoinedSame
<1>6. Joined(F, r) \in Seq(S)
  <2>1. \A k \in 0..r - 1: F[k] \in Seq(S)  BY <1>1, <1>2, <1>15, <1>16, <1>4
  <2> QED  BY <1>3, <2>1, JoinedIs
<1>7. \A k \in 0..r: F[k] \in Seq(S) /\ G[k] \in Seq(S)
  <2>1. \A k \in 0..r: k \in 0..n - 1  OBVIOUS
  <2> QED  BY <1>1, <1>2, <1>15, <1>16, <2>1
<1>8. Joined(F, r + 1) = Joined(F, r) \o F[r] /\ Joined(G, r + 1) = Joined(G, r) \o G[r]
  BY <1>3, <1>5, <1>6, <1>7, JoinedStep
<1>9. G[r] = F[r] \o x /\ F[r] \in Seq(S)  BY <1>0, <1>1, <1>2, <1>15, <1>16
<1>10. Joined(F, r) \o (F[r] \o x) = (Joined(F, r) \o F[r]) \o x
  <2>1. Associates(S)  BY Reassociate
  <2> HIDE DEF F, G
  <2> QED  BY <1>6, <1>9, <2>1 DEF Associates
<1>11. Joined(G, r + 1) = Joined(F, r + 1) \o x  BY <1>5, <1>8, <1>9, <1>10
<1>12. \A k \in r + 1..n - 1: k \in 0..n - 1 /\ k # r  OBVIOUS
<1>13. \A k \in r + 1..n - 1: F[k] = << >> /\ G[k] = << >>
  <2>1. Unbracketed(<< >>) = << >>  BY EmptySeq, KeptIs
  <2> QED  BY <1>0, <1>1, <1>2, <1>12, <2>1
<1>14. Joined(F, n) = Joined(F, r + 1) /\ Joined(G, n) = Joined(G, r + 1)
  <2> DEFINE l == r + 1
  <2>1. l \in Nat /\ n >= l /\ \A k \in l..n - 1: F[k] = << >> /\ G[k] = << >>  BY <1>3, <1>13
  <2> HIDE DEF l
  <2>2. Joined(F, n) = Joined(F, l)  BY <1>1, <1>2, <1>15, <1>16, <2>1, JoinedNothing
  <2>3. Joined(G, n) = Joined(G, l)  BY <1>1, <1>2, <1>15, <1>16, <2>1, JoinedNothing
  <2> QED  BY <2>2, <2>3 DEF l
<1> QED  BY <1>11, <1>14, <1>15, <1>16

(* A token is not left empty if a unit of it is not a space. *)
Solid(t) == \E i \in 1..Len(t): t[i] # ASpace

LEMMA WithoutSome ==
  ASSUME NEW S, NEW X
  PROVE  \A s \in Seq(S): (\E i \in 1..Len(s): s[i] \notin X)
                            => \E i \in 1..Len(Without(s, X)): Without(s, X)[i] \notin X
<1>4. \A r \in Seq(S): \A v \in S: Without(Append(r, v), X) = Without(r, X) \o Bit(v, X)
  BY WithoutIs
<1>5. \A r \in Seq(S): Without(r, X) \in Seq(S)  BY WithoutIs
<1> DEFINE Some(s) == \E i \in 1..Len(s): s[i] \notin X
           T == {s \in Seq(S): Some(s) => Some(Without(s, X))}
<1>1. << >> \in T  BY EmptySeq
<1>2. ASSUME NEW s \in Seq(S) \cap T, NEW u \in S PROVE Append(s, u) \in T
  <2>1. /\ Append(s, u) \in Seq(S) /\ Len(Append(s, u)) = Len(s) + 1 /\ Len(s) \in Nat
        /\ \A i \in 1..Len(s): Append(s, u)[i] = s[i]
        /\ Append(s, u)[Len(s) + 1] = u
    BY AppendProperties
  <2> SUFFICES ASSUME NEW i \in 1..Len(Append(s, u)), Append(s, u)[i] \notin X
               PROVE  Some(Without(Append(s, u), X))
    BY <2>1
  <2> DEFINE w == Without(s, X)
             b == Bit(u, X)
  <2>2. w \in Seq(S) /\ b \in Seq(S) /\ Without(Append(s, u), X) = w \o b  BY <1>4, <1>5, <2>1, BitIs
  <2>3. CASE i = Len(s) + 1
    <3>1. b = <<u>> /\ u \notin X  BY <2>1, <2>3 DEF Bit
    <3> HIDE DEF b, w
    <3>2. /\ Len(w \o b) = Len(w) + Len(b) /\ Len(w) \in Nat /\ Len(b) = 1
          /\ \A k \in 1..Len(b): (w \o b)[Len(w) + k] = b[k]
      BY <2>2, <3>1, ConcatParts
    <3>3. 1 \in 1..Len(b) /\ Len(w) + 1 \in 1..Len(w \o b) /\ b[1] = u  BY <3>1, <3>2
    <3> QED  BY <2>2, <3>1, <3>2, <3>3
  <2>4. CASE i # Len(s) + 1
    <3>1. i \in 1..Len(s) /\ s[i] \notin X  BY <2>1, <2>4
    <3>2. PICK k \in 1..Len(w): w[k] \notin X  BY <1>2, <3>1
    <3> HIDE DEF b, w
    <3>3. /\ Len(w \o b) = Len(w) + Len(b) /\ Len(w) \in Nat /\ Len(b) \in Nat
          /\ (w \o b)[k] = w[k]
      BY <2>2, <3>2, ConcatParts
    <3>4. k \in 1..Len(w \o b)  BY <3>2, <3>3
    <3> QED  BY <2>2, <3>2, <3>3, <3>4
  <2> QED  BY <2>3, <2>4
<1> HIDE DEF T
<1>3. Seq(S) \subseteq T  BY <1>1, <1>2, SeqInduction
<1> QED  BY <1>3 DEF T

LEMMA SolidIs ==
  ASSUME NEW S, NEW s \in Seq(S), NEW t \in Seq(S)
  PROVE  /\ Solid(s) \/ Solid(t) => Solid(s \o t)
         /\ \A u \in S: u # ASpace => Solid(Append(s, u))
         /\ Solid(s) => s # << >> /\ Solid(Dense(s)) /\ Trimmed(s) # << >>
<1>1. /\ Len(s \o t) = Len(s) + Len(t) /\ Len(s) \in Nat /\ Len(t) \in Nat
      /\ \A k \in 1..Len(s): (s \o t)[k] = s[k]
      /\ \A k \in 1..Len(t): (s \o t)[Len(s) + k] = t[k]
  BY ConcatParts
<1>2. ASSUME NEW k \in 1..Len(s), s[k] # ASpace PROVE Solid(s \o t)
  <2>1. k \in 1..Len(s \o t)  BY <1>1
  <2> QED  BY <1>1, <1>2, <2>1 DEF Solid
<1>3. ASSUME NEW k \in 1..Len(t), t[k] # ASpace PROVE Solid(s \o t)
  <2>1. Len(s) + k \in 1..Len(s \o t)  BY <1>1
  <2> QED  BY <1>1, <1>3, <2>1 DEF Solid
<1>4. ASSUME NEW u \in S, u # ASpace PROVE Solid(Append(s, u))
  <2>1. Len(Append(s, u)) = Len(s) + 1 /\ Append(s, u)[Len(s) + 1] = u  BY AppendProperties
  <2>2. Len(s) + 1 \in 1..Len(Append(s, u))  BY <1>1, <2>1
  <2> QED  BY <1>4, <2>1, <2>2 DEF Solid
<1>5. ASSUME NEW k \in 1..Len(s), s[k] # ASpace PROVE s # << >> /\ Solid(Dense(s)) /\ Trimmed(s) # << >>
  <2>1. s # << >>  BY <1>5, EmptySeq
  <2>2. s[k] \notin {ASpace}  BY <1>5
  <2>3. \E i \in 1..Len(Without(s, {ASpace})): Without(s, {ASpace})[i] \notin {ASpace}
    BY <2>2, WithoutSome
  <2>4. Solid(Dense(s))  BY <2>3 DEF Solid, Dense
  <2> QED  BY <1>5, <2>1, <2>4, TrimmedIs
<1> QED  BY <1>2, <1>3, <1>4, <1>5 DEF Solid

LEMMA OpsNotSpace == ASpace \notin Ops
<1>1. ASpace \notin Strings  BY StringsAssumption DEF Marks
<1>2. ASpace \notin Others  BY Zenon DEF ASpace, Others
<1>3. ASpace \notin Doubles  BY Zenon DEF ASpace, Doubles
<1>4. ASpace \notin Steps  BY Zenon DEF ASpace, Steps
<1>5. ASpace \notin {"(", "&", "*", "->", AQuote}  BY Zenon DEF ASpace, AQuote
<1> QED  BY <1>1, <1>2, <1>3, <1>4, <1>5, Zenon DEF Ops
-----------------------------------------------------------------------------
(* The tokens hold what has been read, in its order; they are filled from  *)
(* the first on, up to the one make_tokens is at.                          *)

TextUnits == Range(text) \cup {ASpace, "*", "struct", "-", "lpthread"}
Cells     == Len(text) + 2

TokensType == \A k \in 0..Len(text) + 1: tokens[k] \in Seq(TextUnits)
ReadStands    == Unbracketed(Joined(tokens, Cells)) = Unbracketed(Span(1, start))
NoHoles    == lexed \in {"reading", "last"} =>
                /\ \A k \in 0..row - 1: tokens[k] # << >>
                /\ \A k \in 0..Len(text) + 1: \A j \in 0..k - 1: tokens[k] # << >> => tokens[j] # << >>
NoneBehind == lexed = "reading" \/ (lexed = "last" /\ start <= Len(text)) =>
                \A k \in row + 1..Len(text) + 1: tokens[k] = << >>
WordBefore == lexed = "last" /\ start <= Len(text) /\ text[start] = ASpace => Cur # << >>
AtEnd      == lexed \in {"casts", "structs"} => start = Len(text) + 1

Sound   == TokensType /\ ReadStands /\ NoHoles /\ NoneBehind /\ WordBefore /\ AtEnd
KeptInv == RoomInv /\ (Working /\ ~Undefined(text) => Sound)
TextInv == KeptInv \/ Again

LEMMA ReadOn ==
  ASSUME RoomInv, lexed \in {"reading", "last"}, ReadStands, text' = text, start' \in start..Len(text) + 1,
         Unbracketed(Joined(tokens', Cells))
           = Unbracketed(Joined(tokens, Cells)) \o Unbracketed(Span(start, start'))
  PROVE  ReadStands'
<1>1. Len(text) \in Nat /\ start \in 1..Len(text) + 1 /\ TextIs  BY TextLen DEF RoomInv
<1>2. Cells' = Cells /\ 1 \in 1..Len(text) + 1 /\ start \in 1..Len(text) + 1  BY <1>1 DEF Cells
<1>3. Range(text) \subseteq Range(text)  OBVIOUS
<1>4. Span(1, start') = Span(1, start) \o Span(start, start') /\ Span(1, start) \in Seq(Range(text))
  BY <1>1, <1>2, <1>3, SpanIs
<1>5. Span(start, start') \in Seq(Range(text))  BY <1>1, <1>2, <1>3, SpanIs
<1>6. Unbracketed(Span(1, start')) = Unbracketed(Span(1, start)) \o Unbracketed(Span(start, start'))
  <2>1. \A x, y \in Seq(Range(text)): Unbracketed(x \o y) = Unbracketed(x) \o Unbracketed(y)  BY KeptConcat
  <2> QED  BY <1>4, <1>5, <2>1
<1>7. Span(1, start)' = Span(1, start')  BY DEF Span
<1> QED  BY <1>2, <1>6, <1>7 DEF ReadStands

(* A step of the loops that read writes one token, and those behind it,    *)
(* if any, are empty.                                                      *)
Writes(r, w) ==
  /\ lexed = "reading" \/ (lexed = "last" /\ row' = r)
  /\ lexed' = lexed /\ text' = text /\ start' \in start + 1..Len(text) + 1
  /\ r \in 0..row /\ (row' = r \/ row' = r + 1)
  /\ tokens' = [tokens EXCEPT ![r] = w] /\ w \in Seq(TextUnits) /\ w # << >>
  /\ \A k \in r + 1..row: tokens[k] = << >>
  /\ Unbracketed(w) = Unbracketed(tokens[r]) \o Unbracketed(Span(start, start'))

LEMMA WriteKeeps ==
  ASSUME RoomInv, RoomInv', Sound, NEW r, NEW w, Writes(r, w)
  PROVE  Sound'
<1>1. /\ Len(text) \in Nat /\ start \in 1..Len(text) + 1 /\ row \in 0..start - 1 /\ TextIs
      /\ DOMAIN tokens = 0..Len(text) + 1
  BY TextLen DEF RoomInv, Writes
<1>2. start <= Len(text) /\ start' \in start..Len(text) + 1 /\ r \in 0..Len(text) /\ row' \in Nat /\ start' > start
      /\ r \in 0..row
  BY <1>1 DEF Writes
<1>3. r \in DOMAIN tokens /\ TextUnits' = TextUnits  BY <1>1, <1>2 DEF TextUnits, Writes
<1>16. row' = r \/ row' = r + 1  BY DEF Writes
<1>17. w \in Seq(TextUnits) /\ w # << >> /\ text' = text /\ lexed' = lexed /\ lexed \in {"reading", "last"}
  BY DEF Writes
<1>4. \A k \in 0..Len(text) + 1: tokens'[k] = IF k = r THEN w ELSE tokens[k]  BY <1>1 DEF Writes
<1>5. TokensType'  BY <1>3, <1>4, <1>17 DEF Sound, TokensType
<1>6. \A k \in r + 1..Len(text) + 1: tokens[k] = << >>
  <2>1. \A k \in r + 1..Len(text) + 1: k \in r + 1..row \/ k \in row + 1..Len(text) + 1  BY <1>1, <1>2
  <2>2. \A k \in row + 1..Len(text) + 1: tokens[k] = << >>  BY <1>2, <1>17 DEF Sound, NoneBehind
  <2>3. \A k \in r + 1..row: tokens[k] = << >>  BY DEF Writes
  <2> QED  BY <2>1, <2>2, <2>3
<1>7. Span(start, start') \in Seq(TextUnits)
  <2>1. Range(text) \subseteq TextUnits  BY DEF TextUnits
  <2> QED  BY <1>1, <1>2, <2>1, SpanIs
<1>8. Unbracketed(Joined(tokens', Cells)) = Unbracketed(Joined(tokens, Cells)) \o Unbracketed(Span(start, start'))
  <2> DEFINE x == Unbracketed(Span(start, start'))
  <2>1. x \in Seq(TextUnits)  BY <1>7, KeptIs
  <2>2. Cells \in Nat /\ r \in 0..Cells - 1 /\ \A k \in 0..Cells - 1: k \in 0..Len(text) + 1
    BY <1>1, <1>2 DEF Cells
  <2>3. \A k \in 0..Cells - 1: /\ tokens[k] \in Seq(TextUnits) /\ tokens'[k] \in Seq(TextUnits)
                               /\ (k # r => tokens'[k] = tokens[k])
    BY <1>3, <1>4, <1>5, <1>17, <2>2 DEF Sound, TokensType
  <2>4. \A k \in r + 1..Cells - 1: tokens[k] = << >>  BY <1>1, <1>2, <1>6 DEF Cells
  <2>5. Unbracketed(tokens'[r]) = Unbracketed(tokens[r]) \o x  BY <1>3, <1>4, <1>1, <1>2 DEF Writes
  <2> HIDE DEF x
  <2>7. WrittenAt(TextUnits, tokens, tokens', Cells, r, x)  BY <2>3, <2>4, <2>5 DEF WrittenAt
  <2>6. Unbracketed(Joined(tokens', Cells)) = Unbracketed(Joined(tokens, Cells)) \o x
    BY <2>1, <2>2, <2>7, KeptBehind
  <2> QED  BY <2>6 DEF x
<1>9. ReadStands'  BY <1>2, <1>8, <1>17, ReadOn DEF Sound
<1>10. \A k \in 0..r: tokens'[k] # << >>
  <2>1. \A k \in 0..r - 1: tokens[k] # << >>  BY <1>1, <1>2, <1>17 DEF Sound, NoHoles
  <2>2. \A k \in 0..r: k \in 0..Len(text) + 1 /\ (k = r \/ k \in 0..r - 1)  BY <1>1, <1>2
  <2> QED  BY <1>4, <1>17, <2>1, <2>2
<1>11. \A k \in r + 1..Len(text) + 1: tokens'[k] = << >>
  <2>1. \A k \in r + 1..Len(text) + 1: k \in 0..Len(text) + 1 /\ k # r  BY <1>1, <1>2
  <2> QED  BY <1>4, <1>6, <2>1
<1>12. NoHoles'
  <2>1. \A k \in 0..row' - 1: k \in 0..r
    <3>1. CASE row' = r  BY <1>2, <3>1
    <3>2. CASE row' = r + 1  BY <1>2, <3>2
    <3> QED  BY <1>16, <3>1, <3>2
  <2>2. ASSUME NEW k \in 0..Len(text) + 1, NEW j \in 0..k - 1, tokens'[k] # << >> PROVE tokens'[j] # << >>
    <3>1. k \notin r + 1..Len(text) + 1  BY <1>11, <2>2
    <3>2. j \in 0..r  BY <1>1, <1>2, <3>1
    <3> QED  BY <1>10, <3>2
  <2> QED  BY <1>10, <1>17, <2>1, <2>2 DEF NoHoles
<1>13. NoneBehind'
  <2>1. \A k \in row' + 1..Len(text) + 1: k \in r + 1..Len(text) + 1
    <3>1. CASE row' = r  BY <3>1
    <3>2. CASE row' = r + 1  BY <1>1, <1>2, <3>2
    <3> QED  BY <1>16, <3>1, <3>2
  <2> QED  BY <1>11, <1>17, <2>1 DEF NoneBehind
<1>14. WordBefore'
  <2>1. CASE lexed = "reading"  BY <1>17, <2>1 DEF WordBefore
  <2>2. CASE row' = r
    <3>1. r \in DOMAIN tokens' /\ tokens'[r] # << >>  BY <1>1, <1>2, <1>4, <1>17 DEF Writes
    <3>2. Cur' = tokens'[r]  BY <2>2, <3>1, Zenon DEF Cur, Tok, Of
    <3> QED  BY <3>1, <3>2 DEF WordBefore
  <2> QED  BY <2>1, <2>2 DEF Writes
<1>15. AtEnd'  BY <1>17 DEF AtEnd
<1> QED  BY <1>5, <1>9, <1>12, <1>13, <1>14, <1>15 DEF Sound

LEMMA PassKeeps ==
  ASSUME KeptInv, RoomInv', ~Undefined(text), lexed = "reading", NEW r \in 0..row,
         NEW t \in Seq(TextUnits), Solid(t), NEW i \in start + 1..Len(text) + 1,
         PassEnds(r, t, i), \A k \in r + 1..row: tokens[k] = << >>,
         Unbracketed(t) = Unbracketed(Tok(r)) \o Unbracketed(Span(start, i))
  PROVE  KeptInv'
<1>1. RoomInv /\ Sound  BY DEF KeptInv, Working
<1>2. Len(text) \in Nat /\ start \in 1..Len(text) + 1 /\ row \in 0..start - 1 /\ DOMAIN tokens = 0..Len(text) + 1
  BY <1>1, TextLen DEF RoomInv
<1>3. r \in DOMAIN tokens /\ r + 1 \in r..r + 1  BY <1>2
<1>4. CASE Returns("refused")  BY <1>4 DEF KeptInv, Returns, Working
<1>5. CASE /\ row' = r + 1 /\ start' = i /\ tokens' = [tokens EXCEPT ![r] = Trimmed(t)]
           /\ UNCHANGED <<text, lexed, made>>
  <2>1. Trimmed(t) \in Seq(TextUnits) /\ Unbracketed(Trimmed(t)) = Unbracketed(t)  BY TrimmedIs
  <2>2. Trimmed(t) # << >>  BY SolidIs
  <2>3. Unbracketed(Trimmed(t)) = Unbracketed(tokens[r]) \o Unbracketed(Span(start, start'))
    BY <1>3, <1>5, <2>1 DEF Tok, Of
  <2> DEFINE w == Trimmed(t)
  <2>4. w \in Seq(TextUnits) /\ w # << >> /\ tokens' = [tokens EXCEPT ![r] = w]  BY <1>5, <2>1, <2>2
  <2>5. Unbracketed(w) = Unbracketed(tokens[r]) \o Unbracketed(Span(start, start'))  BY <2>3
  <2> HIDE DEF w
  <2>6. row' \in r..r + 1 /\ start' \in start + 1..Len(text) + 1 /\ text' = text /\ lexed' = lexed
    BY <1>3, <1>5
  <2>7. Writes(r, w)  BY <1>3, <1>5, <2>4, <2>5, <2>6 DEF Writes
  <2>8. Sound'  BY <1>1, <2>7, WriteKeeps
  <2> QED  BY <2>8 DEF KeptInv
<1> QED  BY <1>3, <1>4, <1>5 DEF PassEnds

(* What is read from a unit on that is not a space, put behind token x. *)
LEMMA UnitReads ==
  ASSUME RoomInv, lexed \in {"reading", "last"}, start <= Len(text), U # ASpace
  PROVE  /\ U \in TextUnits /\ start \in 1..Len(text) /\ start + 1 \in start + 1..Len(text) + 1
         /\ \A x \in Seq(TextUnits):
              /\ Append(x, U) \in Seq(TextUnits) /\ Solid(Append(x, U))
              /\ Unbracketed(Append(x, U)) = Unbracketed(x) \o Unbracketed(Span(start, start + 1))
         /\ \A to \in start + 1..Len(text) + 1: \A x \in Seq(TextUnits):
              /\ x \o Dense(Span(start, to)) \in Seq(TextUnits) /\ Solid(x \o Dense(Span(start, to)))
              /\ Unbracketed(x \o Dense(Span(start, to))) = Unbracketed(x) \o Unbracketed(Span(start, to))
<1>1. Len(text) \in Nat /\ start \in 1..Len(text) + 1 /\ TextIs /\ text \in Seq(Range(text))
  BY TextLen DEF RoomInv, TextIs
<1>2. start \in 1..Len(text) /\ start + 1 \in start + 1..Len(text) + 1 /\ start + 1 - start = 1  BY <1>1
<1>3. Range(text) \subseteq TextUnits  BY DEF TextUnits
<1>4. U \in TextUnits  BY <1>1, <1>2, <1>3, ElementOfSeq DEF U
<1>5. ASSUME NEW to \in start + 1..Len(text) + 1
      PROVE  Span(start, to) \in Seq(TextUnits) /\ Solid(Span(start, to))
  <2>1. to \in start..Len(text) + 1 /\ 1 \in 1..to - start /\ start + 1 - 1 = start  BY <1>1, <1>2
  <2>2. /\ Span(start, to) \in Seq(TextUnits) /\ Len(Span(start, to)) = to - start
        /\ \A k \in 1..to - start: Span(start, to)[k] = text[start + k - 1]
    BY <1>1, <1>3, <2>1, SpanIs
  <2>3. Span(start, to)[1] = U /\ 1 \in 1..Len(Span(start, to))  BY <2>1, <2>2 DEF U
  <2> QED  BY <2>2, <2>3 DEF Solid
<1>6. Span(start, start + 1) = <<U>>
  <2>1. start + 1 - 1 = start /\ start \in Int  BY <1>1
  <2>2. Len(SubSeq(text, start, start)) = 1 /\ SubSeq(text, start, start)[1] = U
        /\ SubSeq(text, start, start) \in Seq(Range(text))
    BY <1>1, <1>2, SubSeqProperties DEF U
  <2>3. Span(start, start + 1) = SubSeq(text, start, start)  BY <2>1 DEF Span
  <2>4. SubSeq(text, start, start) = <<U>>
    <3> DEFINE q == SubSeq(text, start, start)
    <3>1. q \in Seq(Range(text)) /\ Len(q) = 1 /\ q[1] = U  BY <2>2
    <3> HIDE DEF q
    <3>2. q = <<U>>  BY <3>1
    <3> QED  BY <3>2 DEF q
  <2> QED  BY <2>3, <2>4
<1>7. ASSUME NEW x \in Seq(TextUnits)
      PROVE  /\ Append(x, U) \in Seq(TextUnits) /\ Solid(Append(x, U))
             /\ Unbracketed(Append(x, U)) = Unbracketed(x) \o Unbracketed(Span(start, start + 1))
  BY <1>4, <1>6, KeptAppend, SolidIs
<1>8. ASSUME NEW to \in start + 1..Len(text) + 1, NEW x \in Seq(TextUnits)
      PROVE  /\ x \o Dense(Span(start, to)) \in Seq(TextUnits) /\ Solid(x \o Dense(Span(start, to)))
             /\ Unbracketed(x \o Dense(Span(start, to))) = Unbracketed(x) \o Unbracketed(Span(start, to))
  <2> DEFINE d == Dense(Span(start, to))
  <2>1. d \in Seq(TextUnits) /\ Unbracketed(d) = Unbracketed(Span(start, to))  BY <1>5, KeptIs
  <2>2. Solid(d)  BY <1>5, SolidIs
  <2> HIDE DEF d
  <2>3. x \o d \in Seq(TextUnits)  BY <2>1, ConcatParts
  <2>4. Solid(x \o d)  BY <2>1, <2>2, SolidIs
  <2>5. \A y, z \in Seq(TextUnits): Unbracketed(y \o z) = Unbracketed(y) \o Unbracketed(z)  BY KeptConcat
  <2>6. Unbracketed(x \o d) = Unbracketed(x) \o Unbracketed(Span(start, to))  BY <2>1, <2>5
  <2> QED  BY <2>3, <2>4, <2>6 DEF d
<1> QED  BY <1>2, <1>4, <1>7, <1>8

LEMMA TokIs ==
  ASSUME RoomInv, TokensType, lexed \in {"reading", "last"}, NEW r \in 0..row
  PROVE  Tok(r) = tokens[r] /\ Tok(r) \in Seq(TextUnits) /\ r \in DOMAIN tokens
<1>1. r \in 0..Len(text) + 1 /\ DOMAIN tokens = 0..Len(text) + 1  BY TextLen DEF RoomInv
<1> QED  BY <1>1, Zenon DEF Tok, Of, TokensType

(* What each step of the loop over the operators may take as given. *)
Going == KeptInv /\ RoomInv' /\ ~Undefined(text) /\ Orderly

LEMMA OpReads ==
  ASSUME Going, NEW us, us \subseteq Ops, AtOp(us)
  PROVE  /\ RoomInv /\ Sound /\ lexed = "reading" /\ start <= Len(text) /\ U # ASpace /\ U \in us
         /\ row \in Nat /\ start \in 1..Len(text) /\ Len(text) \in Nat
<1>1. RoomInv /\ Sound /\ lexed = "reading"  BY DEF Going, KeptInv, Working, AtOp
<1>2. start <= Len(text) /\ U \in us /\ U # ASpace  BY OpsNotSpace DEF AtOp, U
<1> QED  BY <1>1, <1>2, TextLen DEF RoomInv

(* The one unit is read, or all up to the next operator. *)
LEMMA OneKeeps ==
  ASSUME Going, NEW us, us \subseteq Ops, AtOp(us), NEW r \in 0..row, \A k \in r + 1..row: tokens[k] = << >>,
         PassEnds(r, Append(Tok(r), U), start + 1)
  PROVE  KeptInv'
<1>1. /\ RoomInv /\ Sound /\ lexed = "reading" /\ start <= Len(text) /\ U # ASpace
      /\ start + 1 \in start + 1..Len(text) + 1
  BY OpReads
<1> DEFINE t == Append(Tok(r), U)
<1>2. Tok(r) \in Seq(TextUnits)  BY <1>1, TokIs DEF Sound
<1>3. /\ t \in Seq(TextUnits) /\ Solid(t)
      /\ Unbracketed(t) = Unbracketed(Tok(r)) \o Unbracketed(Span(start, start + 1))
  BY <1>1, <1>2, UnitReads
<1> HIDE DEF t
<1>4. PassEnds(r, t, start + 1)  BY DEF t
<1> QED  BY <1>1, <1>3, <1>4, PassKeeps DEF Going

LEMMA SpanKeeps ==
  ASSUME Going, NEW us, us \subseteq Ops, AtOp(us), NEW r \in 0..row, \A k \in r + 1..row: tokens[k] = << >>,
         NEW to \in start + 1..Len(text) + 1, PassEnds(r, Tok(r) \o Dense(Span(start, to)), to)
  PROVE  KeptInv'
<1>1. RoomInv /\ Sound /\ lexed = "reading" /\ start <= Len(text) /\ U # ASpace  BY OpReads
<1> DEFINE t == Tok(r) \o Dense(Span(start, to))
<1>2. Tok(r) \in Seq(TextUnits)  BY <1>1, TokIs DEF Sound
<1>3. /\ t \in Seq(TextUnits) /\ Solid(t)
      /\ Unbracketed(t) = Unbracketed(Tok(r)) \o Unbracketed(Span(start, to))
  BY <1>1, <1>2, UnitReads
<1> HIDE DEF t
<1>4. PassEnds(r, t, to)  BY DEF t
<1> QED  BY <1>1, <1>3, <1>4, PassKeeps DEF Going

LEMMA ReturnsKeeps ==
  ASSUME RoomInv', NEW r, r \in {"refused", "crash", "loops"}, Returns(r)
  PROVE  KeptInv'
BY DEF KeptInv, Returns, Working

(* Where texts are read in their order. *)
LEMMA JoinsIs ==
  ASSUME Going, lexed = "reading", row > 0, Joins
  PROVE  /\ row - 1 \in 0..row /\ Prev = Tok(row - 1) /\ \A k \in row - 1 + 1..row: tokens[k] = << >>
<1>1. RoomInv /\ TokensType  BY DEF Going, KeptInv, Working, Sound
<1>2. row \in Nat  BY <1>1, TextLen DEF RoomInv
<1>3. Cur = << >>  BY DEF Going, Orderly
<1>4. row \in 0..row  BY <1>2
<1>5. tokens[row] = << >>  BY <1>1, <1>3, <1>4, TokIs DEF Cur
<1>6. \A k \in row - 1 + 1..row: k = row  BY <1>2
<1>7. row - 1 \in 0..row  BY <1>2
<1> QED  BY <1>5, <1>6, <1>7 DEF Prev

LEMMA CurIs ==
  ASSUME Going, lexed = "reading"
  PROVE  /\ row \in Nat /\ row \in 0..row /\ Cur = Tok(row) /\ Cur \in Seq(TextUnits)
         /\ \A k \in row + 1..row: tokens[k] = << >>
         /\ Overwrites => \A n \in Nat: Overwritten(n) = Append(Tok(row), U)
<1>1. RoomInv /\ TokensType  BY DEF Going, KeptInv, Working, Sound
<1>2. row \in Nat  BY <1>1, TextLen DEF RoomInv
<1>3. row \in 0..row /\ \A k \in row + 1..row: tokens[k] = << >>  BY <1>2
<1>4. Cur \in Seq(TextUnits) /\ Cur = Tok(row)  BY <1>1, <1>3, TokIs DEF Cur
<1>5. ASSUME Overwrites, NEW n \in Nat PROVE Overwritten(n) = Append(Tok(row), U)
  <2>1. Cur = << >>  BY <1>5 DEF Going, Orderly
  <2>2. SubSeq(<< >>, n + 1, 0) = << >>
    <3>1. /\ SubSeq(<< >>, n + 1, 0) \in Seq(TextUnits)
          /\ Len(SubSeq(<< >>, n + 1, 0)) = IF n + 1 <= 0 THEN 0 - (n + 1) + 1 ELSE 0
      BY SubSeqProperties
    <3> QED  BY <3>1, EmptySeq
  <2>3. Overwritten(n) = <<U>> \o << >>  BY <2>1, <2>2 DEF Overwritten
  <2>4. <<U>> \in Seq({U}) /\ Append(<< >>, U) = <<U>>  OBVIOUS
  <2>5. <<U>> \o << >> = <<U>>  BY <2>4, ConcatEmptySeq
  <2> QED  BY <1>4, <2>1, <2>3, <2>4, <2>5
<1> QED  BY <1>2, <1>3, <1>4, <1>5

LEMMA StepsKeep ==
  ASSUME Going, Twice \/ StepBefore \/ StepAfter \/ Double \/ Arrow \/ Ampersand
  PROVE  KeptInv'
<1>1. RoomInv /\ RoomInv'  BY DEF Going, KeptInv
<1>2. Steps \subseteq Ops /\ Doubles \subseteq Ops /\ {"->"} \subseteq Ops /\ {"&"} \subseteq Ops
  BY Zenon DEF Ops
<1>3. CASE Twice  BY <1>1, <1>3, ReturnsKeeps DEF Twice
<1>4. CASE StepBefore
  <2> DEFINE to == NextOp(start + 1)
  <2>1. AtOp(Steps) /\ lexed = "reading"  BY <1>4 DEF StepBefore, AtOp
  <2>2. to \in start + 1..Len(text) + 1  BY <1>1, <2>1, OpBounds
  <2>3. Returns("refused") \/ PassEnds(row, Cur \o Dense(Span(start, to)), to)
    BY <1>4 DEF StepBefore
  <2> HIDE DEF to
  <2> QED  BY <1>1, <1>2, <2>1, <2>2, <2>3, CurIs, ReturnsKeeps, SpanKeeps
<1>5. CASE StepAfter
  <2>1. AtOp(Steps) /\ lexed = "reading"  BY <1>5 DEF StepAfter, AtOp
  <2>2. \/ Returns("refused")
        \/ row > 0 /\ EndsInWord(Prev) /\ PassEnds(row - 1, Append(Prev, U), start + 1)
        \/ PassEnds(row, Append(Cur, U), start + 1)
    BY <1>5 DEF StepAfter
  <2>3. CASE row > 0 /\ EndsInWord(Prev) /\ PassEnds(row - 1, Append(Prev, U), start + 1)
    <3>1. Joins  BY <2>1, <2>3 DEF Joins
    <3> QED  BY <1>2, <2>1, <2>3, <3>1, JoinsIs, OneKeeps
  <2> QED  BY <1>1, <1>2, <2>1, <2>2, <2>3, CurIs, ReturnsKeeps, OneKeeps
<1>6. CASE Double
  <2>1. AtOp(Doubles) /\ PassEnds(row, Overwritten(2), start + 1)  BY <1>6 DEF Double
  <2>2. Overwrites /\ lexed = "reading"  BY <2>1 DEF Overwrites, AtOp
  <2>3. PassEnds(row, Append(Tok(row), U), start + 1)  BY <2>1, <2>2, CurIs
  <2> QED  BY <1>2, <2>1, <2>2, <2>3, CurIs, OneKeeps
<1>7. CASE Arrow
  <2> DEFINE to == NextOp(start + 1)
  <2>1. AtOp({"->"}) /\ lexed = "reading"  BY <1>7 DEF Arrow, AtOp
  <2>2. to \in start + 1..Len(text) + 1  BY <1>1, <2>1, OpBounds
  <2>3. PassEnds(row - 1, Prev \o Dense(Span(start, to)), to)  BY <1>7 DEF Arrow
  <2> HIDE DEF to
  <2>4. Joins  BY <2>1 DEF Joins
  <2>5. row > 0
    <3>1. row # 0  BY <2>1 DEF Going, Orderly
    <3>2. row \in Nat  BY <2>1, CurIs
    <3> QED  BY <3>1, <3>2
  <2> QED  BY <1>2, <2>1, <2>2, <2>3, <2>4, <2>5, JoinsIs, SpanKeeps
<1>8. CASE Ampersand
  <2> DEFINE to == NextOp(start + 1)
  <2>1. AtOp({"&"}) /\ lexed = "reading"  BY <1>8 DEF Ampersand, AtOp
  <2>2. to \in start + 1..Len(text) + 1  BY <1>1, <2>1, OpBounds
  <2>3. \/ row > 0 /\ ~HasOp(Prev) /\ PassEnds(row, Overwritten(1), start + 1)
        \/ Returns("refused")
        \/ PassEnds(row, Cur \o Dense(Span(start, to)), to)
    BY <1>8 DEF Ampersand
  <2> HIDE DEF to
  <2>4. CASE row > 0 /\ ~HasOp(Prev) /\ PassEnds(row, Overwritten(1), start + 1)
    <3>1. Overwrites  BY <2>1, <2>4 DEF Overwrites
    <3>2. PassEnds(row, Append(Tok(row), U), start + 1)  BY <2>1, <2>4, <3>1, CurIs
    <3> QED  BY <1>2, <2>1, <3>2, CurIs, OneKeeps
  <2> QED  BY <1>1, <1>2, <2>1, <2>2, <2>3, <2>4, CurIs, ReturnsKeeps, SpanKeeps
<1> QED  BY <1>3, <1>4, <1>5, <1>6, <1>7, <1>8

LEMMA StarsKeep ==
  ASSUME Going, PointerType \/ Star \/ FirstStar
  PROVE  KeptInv'
<1>1. AtOp({"*"}) /\ lexed = "reading" /\ {"*"} \subseteq Ops
  BY Zenon DEF PointerType, Star, FirstStar, AtOp, Ops
<1>2. RoomInv /\ RoomInv' /\ Sound /\ U = "*" /\ U # ASpace /\ start <= Len(text)
  <2>1. U \in {"*"}  BY <1>1, OpReads
  <2> QED  BY <1>1, <2>1, OpReads DEF Going
<1>3. row \in Nat /\ row \in 0..row /\ Cur = Tok(row) /\ Cur \in Seq(TextUnits)
      /\ \A k \in row + 1..row: tokens[k] = << >>
  BY <1>1, CurIs
<1>4. CASE PointerType
  <2>1. /\ tokens' = [tokens EXCEPT ![row - 1] = Append(@, "*")] /\ start' = start + 1
        /\ text' = text /\ row' = row /\ lexed' = lexed /\ row > 0 /\ HoldsType(Prev)
    BY <1>4 DEF PointerType
  <2>2. Joins  BY <1>1, <2>1 DEF Joins
  <2>3. row - 1 \in 0..row /\ Prev = Tok(row - 1) /\ \A k \in row - 1 + 1..row: tokens[k] = << >>
    BY <1>1, <2>1, <2>2, JoinsIs
  <2>4. Prev = tokens[row - 1] /\ Prev \in Seq(TextUnits)  BY <1>1, <1>2, <2>3, TokIs DEF Sound
  <2> DEFINE w == Append(Prev, U)
  <2>5. /\ w \in Seq(TextUnits) /\ Solid(w) /\ start + 1 \in start + 1..Len(text) + 1
        /\ Unbracketed(w) = Unbracketed(Prev) \o Unbracketed(Span(start, start + 1))
    BY <1>1, <1>2, <2>4, UnitReads
  <2>6. tokens' = [tokens EXCEPT ![row - 1] = w]  BY <1>2, <2>1, <2>4
  <2> HIDE DEF w
  <2>7. w # << >>  BY <2>5, EmptySeq DEF Solid
  <2>8. row' = row - 1 + 1  BY <1>3, <2>1
  <2>9. Writes(row - 1, w)  BY <1>1, <2>1, <2>3, <2>4, <2>5, <2>6, <2>7, <2>8 DEF Writes
  <2>10. Sound'  BY <1>2, <2>9, WriteKeeps
  <2> QED  BY <1>2, <2>10 DEF KeptInv
<1>6. CASE Star
  <2>1. \/ row > 0 /\ AllStar(Prev) /\ PassEnds(row - 1, Append(Prev, U), start + 1)
        \/ PassEnds(row, Append(Cur, U), start + 1)
    BY <1>2, <1>6 DEF Star
  <2>2. CASE row > 0 /\ AllStar(Prev) /\ PassEnds(row - 1, Append(Prev, U), start + 1)
    <3>1. Joins  BY <1>1, <2>2 DEF Joins
    <3> QED  BY <1>1, <2>2, <3>1, JoinsIs, OneKeeps
  <2> QED  BY <1>1, <1>3, <2>1, <2>2, OneKeeps
<1>7. CASE FirstStar
  <2> DEFINE to == NextOp(start + 1)
             t  == Cur \o Dense(Span(start, to))
  <2>1. row = 0  BY <1>7 DEF FirstStar
  <2>2. \/ PassEnds(row, Append(Tok(row), U), start + 1) \/ Returns("refused")
        \/ PassEnds(row, Tok(row) \o Dense(Span(start, to)), to)
        \/ tokens' = [tokens EXCEPT ![0] = t] /\ start' = to /\ UNCHANGED <<text, row, lexed, made>>
    BY <1>2, <1>3, <1>7, <2>1 DEF FirstStar
  <2>3. to \in start + 1..Len(text) + 1  BY <1>1, <1>2, OpBounds
  <2> HIDE DEF to
  <2>4. CASE tokens' = [tokens EXCEPT ![0] = t] /\ start' = to /\ UNCHANGED <<text, row, lexed, made>>
    <3>1. /\ t \in Seq(TextUnits) /\ Solid(t)
          /\ Unbracketed(t) = Unbracketed(Cur) \o Unbracketed(Span(start, to))
      BY <1>1, <1>2, <1>3, <2>3, UnitReads
    <3>2. Cur = tokens[row]  BY <1>1, <1>2, <1>3, TokIs DEF Sound
    <3> HIDE DEF t
    <3>3. t # << >>  BY <3>1, EmptySeq DEF Solid
    <3>4. Writes(row, t)  BY <1>1, <1>3, <2>1, <2>3, <2>4, <3>1, <3>2, <3>3 DEF Writes
    <3>5. Sound'  BY <1>2, <3>4, WriteKeeps
    <3> QED  BY <1>2, <3>5 DEF KeptInv
  <2> HIDE DEF t
  <2> QED  BY <1>1, <1>2, <1>3, <2>2, <2>3, <2>4, OneKeeps, SpanKeeps, ReturnsKeeps
<1> QED  BY <1>4, <1>6, <1>7

LEMMA OthersKeep ==
  ASSUME Going, Bracket \/ Quoted \/ OtherOp
  PROVE  KeptInv'
<1>1. {"("} \subseteq Ops /\ Strings \cup {AQuote} \subseteq Ops /\ Others \subseteq Ops
  BY Zenon DEF Ops
<1>2. PICK us: us \subseteq Ops /\ AtOp(us) /\ lexed = "reading"
  BY <1>1, Zenon DEF Bracket, Quoted, OtherOp, AtOp
<1>3. RoomInv /\ RoomInv' /\ Sound /\ U # ASpace /\ start <= Len(text)  BY <1>2, OpReads DEF Going
<1>4. row \in Nat /\ row \in 0..row /\ Cur = Tok(row) /\ Cur \in Seq(TextUnits)
      /\ \A k \in row + 1..row: tokens[k] = << >>
  BY <1>2, CurIs
<1> DEFINE t == Append(Tok(row), U)
<1>5. \/ PassEnds(row, t, start + 1) \/ Returns("refused")
      \/ tokens' = [tokens EXCEPT ![row] = t] /\ start' = start + 1 /\ UNCHANGED <<text, row, lexed, made>>
  <2>1. CASE Bracket
    <3>1. U = "("  BY <2>1 DEF Bracket, AtOp, U
    <3> QED  BY <1>4, <2>1, <3>1 DEF Bracket
  <2>2. CASE Quoted  BY <1>4, <2>2, Zenon DEF Quoted
  <2>3. CASE OtherOp  BY <1>4, <2>3 DEF OtherOp
  <2> QED  BY <2>1, <2>2, <2>3
<1>6. CASE tokens' = [tokens EXCEPT ![row] = t] /\ start' = start + 1 /\ UNCHANGED <<text, row, lexed, made>>
  <2>1. /\ t \in Seq(TextUnits) /\ Solid(t) /\ start + 1 \in start + 1..Len(text) + 1
        /\ Unbracketed(t) = Unbracketed(Cur) \o Unbracketed(Span(start, start + 1))
    BY <1>2, <1>3, <1>4, UnitReads
  <2>2. Cur = tokens[row]  BY <1>2, <1>3, <1>4, TokIs DEF Sound
  <2> HIDE DEF t
  <2>3. t # << >>  BY <2>1, EmptySeq DEF Solid
  <2>4. Writes(row, t)  BY <1>2, <1>4, <1>6, <2>1, <2>2, <2>3 DEF Writes
  <2>5. Sound'  BY <1>3, <2>4, WriteKeeps
  <2> QED  BY <1>3, <2>5 DEF KeptInv
<1> QED  BY <1>2, <1>3, <1>4, <1>5, <1>6, OneKeeps, ReturnsKeeps

OnlyMarks(i, j) == \A m \in i..j - 1: text[m] \in {ASpace, "(", ")"}

LEMMA MarksKept ==
  ASSUME TextIs, NEW i \in 1..Len(text) + 1, NEW j \in i..Len(text) + 1, OnlyMarks(i, j)
  PROVE  Span(i, j) \in Seq(TextUnits) /\ Unbracketed(Span(i, j)) = << >>
<1>1. Range(text) \subseteq TextUnits  BY DEF TextUnits
<1>2. \A m \in i..j - 1: text[m] \in {ASpace, "(", ")"}  BY DEF OnlyMarks
<1> QED  BY <1>1, <1>2, SpanIs

(* What a stretch of the text keeps without its ends, if they are brackets. *)
LEMMA InnerKept ==
  ASSUME TextIs, NEW i \in 1..Len(text) + 1, NEW j \in i..Len(text) + 1, NEW k \in j..Len(text) + 1,
         NEW l \in k..Len(text) + 1, OnlyMarks(i, j), OnlyMarks(k, l)
  PROVE  Span(j, k) \in Seq(TextUnits) /\ Unbracketed(Span(i, l)) = Unbracketed(Span(j, k))
<1>1. Len(text) \in Nat  BY TextLen
<1>2. /\ j \in 1..Len(text) + 1 /\ k \in i..Len(text) + 1 /\ k \in 1..Len(text) + 1
      /\ k \in j..Len(text) + 1 /\ l \in k..Len(text) + 1 /\ l \in i..Len(text) + 1
  BY <1>1
<1>3. Range(text) \subseteq TextUnits  BY DEF TextUnits
<1>4. Span(i, l) = Span(i, k) \o Span(k, l) /\ Span(i, k) = Span(i, j) \o Span(j, k)
      /\ Span(i, j) \in Seq(TextUnits) /\ Span(i, k) \in Seq(TextUnits)
  BY <1>2, <1>3, SpanIs
<1>5. Span(j, k) \in Seq(TextUnits)  BY <1>2, <1>3, SpanIs
<1>6. Span(k, l) \in Seq(TextUnits) /\ Unbracketed(Span(k, l)) = << >>  BY <1>2, MarksKept
<1>12. Unbracketed(Span(i, j)) = << >>  BY MarksKept
<1>7. \A x, y \in Seq(TextUnits): Unbracketed(x \o y) = Unbracketed(x) \o Unbracketed(y)  BY KeptConcat
<1>8. Unbracketed(Span(j, k)) \in Seq(TextUnits)  BY <1>5, KeptIs
<1>9. Unbracketed(Span(i, k)) = << >> \o Unbracketed(Span(j, k))  BY <1>4, <1>5, <1>7, <1>12
<1>10. << >> \o Unbracketed(Span(j, k)) = Unbracketed(Span(j, k))
       /\ Unbracketed(Span(j, k)) \o << >> = Unbracketed(Span(j, k))
  BY <1>8, ConcatEmptySeq
<1>11. Unbracketed(Span(i, l)) = Unbracketed(Span(i, k)) \o << >>  BY <1>4, <1>6, <1>7
<1> QED  BY <1>5, <1>9, <1>10, <1>11

LEMMA PrefixedBracketKeeps ==
  ASSUME Going, PrefixedBracket
  PROVE  KeptInv'
<1> DEFINE more  == Count("(", start + 1)
           open  == start + more
           close == SelectInSubSeq(text, open + 1, Len(text), LAMBDA u: u = ")")
<1>1. AtOp({"("}) /\ lexed = "reading" /\ row > 0 /\ Prev \in {<<"&">>, <<"*">>} /\ {"("} \subseteq Ops
  BY Zenon DEF PrefixedBracket, AtOp, Ops
<1>2. RoomInv /\ RoomInv' /\ TextIs /\ Sound /\ U = "(" /\ start \in 1..Len(text) /\ Len(text) \in Nat
  <2>1. U \in {"("}  BY <1>1, OpReads
  <2> QED  BY <1>1, <2>1, OpReads DEF Going, RoomInv
<1>3. \/ Returns("refused")
      \/ /\ close # 0 /\ Count(")", close + 1) = more
         /\ PassEnds(row - 1, Prev \o SubSeq(text, open + 1, close - 1), close + more + 1)
      \/ PassEnds(row, Append(Cur, "("), open + 1)
  BY DEF PrefixedBracket
<1>4. /\ more \in Nat /\ open \in start..Len(text)
      /\ \A k \in start..open: text[k] = "("
      /\ close # 0 => /\ close \in open + 1..Len(text) /\ text[close] = ")"
                      /\ Count(")", close + 1) \in 0..Len(text) - close
                      /\ \A k \in close + 1..close + Count(")", close + 1): text[k] = ")"
  BY <1>1, <1>2, CloseIs
<1> HIDE DEF more, open, close
<1>5. start \in 1..Len(text) + 1 /\ open + 1 \in start..Len(text) + 1
      /\ open + 1 \in start + 1..Len(text) + 1 /\ open + 1 \in open + 1..Len(text) + 1
  BY <1>2, <1>4
<1>6. OnlyMarks(start, open + 1)
  <2>1. \A k \in start..open + 1 - 1: k \in start..open  BY <1>2, <1>4
  <2> QED  BY <1>4, <2>1 DEF OnlyMarks
<1>7. CASE /\ close # 0 /\ Count(")", close + 1) = more
           /\ PassEnds(row - 1, Prev \o SubSeq(text, open + 1, close - 1), close + more + 1)
  <2>1. Joins  BY <1>1 DEF Joins
  <2>2. row - 1 \in 0..row /\ Prev = Tok(row - 1) /\ \A k \in row - 1 + 1..row: tokens[k] = << >>
    BY <1>1, <2>1, JoinsIs
  <2>3. Prev \in Seq(TextUnits)  BY <1>1, <1>2, <2>2, TokIs DEF Sound
  <2> DEFINE to == close + more + 1
             in == Span(open + 1, close)
             t  == Prev \o in
  <2>4. /\ close \in open + 1..Len(text) + 1 /\ to \in close..Len(text) + 1 /\ to \in start + 1..Len(text) + 1
        /\ \A k \in close..to - 1: k = close \/ k \in close + 1..close + more
    <3>1. close \in open + 1..Len(text) /\ more \in 0..Len(text) - close  BY <1>4, <1>7
    <3> QED  BY <1>2, <1>4, <3>1
  <2>5. OnlyMarks(close, to)
    <3>1. text[close] = ")" /\ \A k \in close + 1..close + more: text[k] = ")"  BY <1>4, <1>7
    <3> HIDE DEF to
    <3> QED  BY <2>4, <3>1 DEF OnlyMarks
  <2> HIDE DEF to
  <2>6. in \in Seq(TextUnits) /\ Unbracketed(Span(start, to)) = Unbracketed(in)
    BY <1>2, <1>5, <1>6, <2>4, <2>5, InnerKept
  <2>7. PassEnds(row - 1, t, to)  BY <1>7 DEF Span, to
  <2> HIDE DEF in
  <2>8. t \in Seq(TextUnits)  BY <2>3, <2>6, ConcatParts
  <2>9. Solid(t)
    <3>1. Prev[1] \in {"&", "*"} /\ Len(Prev) = 1  BY <1>1
    <3>2. {"&", "*"} \subseteq Ops  BY Zenon DEF Ops
    <3>3. Prev[1] # ASpace /\ 1 \in 1..Len(Prev)  BY <3>1, <3>2, OpsNotSpace
    <3>4. Solid(Prev)  BY <3>3 DEF Solid
    <3> QED  BY <2>3, <2>6, <3>4, SolidIs
  <2>10. Unbracketed(t) = Unbracketed(Tok(row - 1)) \o Unbracketed(Span(start, to))
    <3>1. \A x, y \in Seq(TextUnits): Unbracketed(x \o y) = Unbracketed(x) \o Unbracketed(y)  BY KeptConcat
    <3> QED  BY <2>2, <2>3, <2>6, <3>1
  <2> HIDE DEF t
  <2> QED  BY <1>1, <2>2, <2>4, <2>7, <2>8, <2>9, <2>10, PassKeeps DEF Going
<1>8. CASE PassEnds(row, Append(Cur, "("), open + 1)
  <2>1. row \in 0..row /\ Cur = Tok(row) /\ Cur \in Seq(TextUnits) /\ \A k \in row + 1..row: tokens[k] = << >>
    BY <1>1, CurIs
  <2> DEFINE t == Append(Cur, U)
  <2>2. start <= Len(text) /\ U # ASpace /\ U \in TextUnits  BY <1>1, <1>2, OpReads, UnitReads
  <2>3. t \in Seq(TextUnits) /\ Solid(t)  BY <1>1, <1>2, <2>1, <2>2, UnitReads
  <2>4. Unbracketed(t) = Unbracketed(Cur) \o Unbracketed(<<U>>)  BY <2>1, <2>2, KeptAppend
  <2>5. Unbracketed(<<U>>) = << >>  BY <1>2, KeptMark
  <2>6. Unbracketed(Span(start, open + 1)) = << >>  BY <1>2, <1>5, <1>6, MarksKept
  <2>7. PassEnds(row, t, open + 1)  BY <1>2, <1>8
  <2>8. Unbracketed(t) = Unbracketed(Tok(row)) \o Unbracketed(Span(start, open + 1))
    BY <2>1, <2>4, <2>5, <2>6
  <2> HIDE DEF t
  <2> QED  BY <1>1, <1>5, <2>1, <2>3, <2>7, <2>8, PassKeeps DEF Going
<1> QED  BY <1>2, <1>3, <1>7, <1>8, ReturnsKeeps

(* A step that passes spaces and writes nothing. *)
Moves ==
  /\ lexed \in {"reading", "last"} /\ lexed' \in {lexed, "last"} /\ text' = text /\ tokens' = tokens
  /\ start' \in start..Len(text) + 1 /\ OnlyMarks(start, start')
  /\ start' <= Len(text) => text[start'] # ASpace
  /\ start <= Len(text) \/ lexed' = "last"
  /\ \/ row' \in 0..row /\ (start <= Len(text) => \A k \in row' + 1..row: tokens[k] = << >>)
     \/ row' = row + 1 /\ Cur # << >>

LEMMA LessThan ==
  \A n, m \in Nat: \A r \in 0..n: /\ \A k \in 0..r - 1: k \in 0..n - 1
                                  /\ \A k \in r + 1..m: k \in r + 1..n \/ k \in n + 1..m
OBVIOUS

LEMMA MoveKeeps ==
  ASSUME RoomInv, RoomInv', Sound, Moves
  PROVE  KeptInv'
<1>1. /\ Len(text) \in Nat /\ start \in 1..Len(text) + 1 /\ row \in 0..start - 1 /\ TextIs
      /\ DOMAIN tokens = 0..Len(text) + 1
  BY TextLen DEF RoomInv, Moves
<1>2. /\ lexed \in {"reading", "last"} /\ lexed' \in {lexed, "last"} /\ text' = text /\ tokens' = tokens
      /\ start' \in start..Len(text) + 1 /\ OnlyMarks(start, start')
      /\ TextUnits' = TextUnits /\ Cells' = Cells
  BY DEF Moves, TextUnits, Cells
<1>10. row \in Nat /\ Len(text) + 1 \in Nat  BY <1>1
<1>3. TokensType'  BY <1>2 DEF Sound, TokensType
<1>4. ReadStands'
  <2>1. Unbracketed(Span(start, start')) = << >>  BY <1>1, <1>2, MarksKept
  <2>2. Unbracketed(Joined(tokens, Cells)) \in Seq(TextUnits)
    <3>1. \A k \in 0..Cells - 1: tokens[k] \in Seq(TextUnits)
      <4>1. \A k \in 0..Cells - 1: k \in 0..Len(text) + 1  BY <1>1 DEF Cells
      <4> QED  BY <4>1 DEF Sound, TokensType
    <3>2. Cells \in Nat  BY <1>1 DEF Cells
    <3>3. Joined(tokens, Cells) \in Seq(TextUnits)  BY <3>1, <3>2, JoinedIs
    <3> QED  BY <3>3, KeptIs
  <2>3. Unbracketed(Joined(tokens, Cells)) = Unbracketed(Joined(tokens, Cells)) \o << >>
    BY <2>2, ConcatEmptySeq
  <2> QED  BY <1>2, <2>1, <2>3, ReadOn DEF Sound
<1>5. \/ row' \in 0..row /\ (start <= Len(text) => \A k \in row' + 1..row: tokens[k] = << >>)
      \/ row' = row + 1 /\ tokens[row] # << >>
  <2>1. Cur = tokens[row]
    <3>1. row \in 0..row  BY <1>1
    <3> QED  BY <1>2, <3>1, TokIs DEF Sound, Cur
  <2> QED  BY <2>1 DEF Moves
<1>6. NoHoles'
  <2>1. /\ \A k \in 0..row - 1: tokens[k] # << >>
        /\ \A k \in 0..Len(text) + 1: \A j \in 0..k - 1: tokens[k] # << >> => tokens[j] # << >>
    BY <1>2 DEF Sound, NoHoles
  <2>2. \A k \in 0..row' - 1: tokens[k] # << >>
    <3>1. CASE row' \in 0..row
      <4>1. \A k \in 0..row' - 1: k \in 0..row - 1  BY <1>10, <3>1, LessThan
      <4> QED  BY <2>1, <4>1
    <3>2. CASE row' = row + 1 /\ tokens[row] # << >>
      <4>1. \A k \in 0..row' - 1: k = row \/ k \in 0..row - 1  BY <1>1, <3>2
      <4> QED  BY <2>1, <3>2, <4>1
    <3> QED  BY <1>5, <3>1, <3>2
  <2> QED  BY <1>2, <2>1, <2>2 DEF NoHoles
<1>7. NoneBehind'
  <2> SUFFICES ASSUME lexed' = "reading" \/ (lexed' = "last" /\ start' <= Len(text)),
                      NEW k \in row' + 1..Len(text) + 1
               PROVE  tokens[k] = << >>
    BY <1>2 DEF NoneBehind
  <2>1. start <= Len(text)  BY <1>1, <1>2 DEF Moves
  <2>2. \A j \in row + 1..Len(text) + 1: tokens[j] = << >>  BY <1>2, <2>1 DEF Sound, NoneBehind
  <2>3. CASE row' \in 0..row
    <3>1. k \in row' + 1..row \/ k \in row + 1..Len(text) + 1  BY <1>10, <2>3, LessThan, Zenon
    <3>2. \A j \in row' + 1..row: tokens[j] = << >>
      <4>1. ~(row' = row + 1)  BY <1>1, <2>3
      <4> QED  BY <1>5, <2>1, <4>1
    <3> QED  BY <2>2, <3>1, <3>2
  <2>4. CASE row' = row + 1
    <3>1. k \in row + 1..Len(text) + 1  BY <1>1, <2>4
    <3> QED  BY <2>2, <3>1
  <2> QED  BY <1>5, <2>3, <2>4
<1>8. WordBefore'  BY <1>2 DEF WordBefore, Moves
<1>9. AtEnd'  BY <1>2 DEF AtEnd
<1> QED  BY <1>3, <1>4, <1>6, <1>7, <1>8, <1>9 DEF Sound, KeptInv

LEMMA SpacesPassed ==
  ASSUME TextIs, NEW i \in 1..Len(text) + 1
  PROVE  NextUnit(i) \in i..Len(text) + 1 /\ OnlyMarks(i, NextUnit(i))
         /\ (NextUnit(i) <= Len(text) => text[NextUnit(i)] # ASpace)
BY NextUnitIs DEF OnlyMarks

(* Where an operator is not next. *)
LEMMA OpAheadIs ==
  ASSUME Going, lexed = "reading", start <= Len(text), ~IsOp(text[start]) \/ NextOp(start) # start
  PROVE  \A k \in Unstarred + 1..row: tokens[k] = << >>
<1>1. RoomInv /\ TextIs /\ TokensType /\ Len(text) \in Nat /\ start \in 1..Len(text) + 1 /\ row \in Nat
  BY TextLen DEF Going, KeptInv, RoomInv, Working, Sound
<1>2. NextOp(start) # start  BY <1>1, NextOpIs
<1>3. \A k \in Unstarred + 1..row: Tok(k) = << >>  BY <1>2 DEF Going, Orderly
<1>4. \A k \in Unstarred + 1..row: k \in 0..row  BY <1>1, UnstarredIs
<1>5. \A k \in Unstarred + 1..row: Tok(k) = tokens[k]  BY <1>1, <1>4, TokIs
<1> QED  BY <1>3, <1>5

LEMMA WordsKeep ==
  ASSUME Going, Spaces \/ LastWords \/ NextWord
  PROVE  KeptInv'
<1>1. RoomInv /\ RoomInv' /\ Sound /\ lexed \in {"reading", "last"}
  BY DEF Going, KeptInv, Working, Spaces, LastWords, NextWord
<1>2. /\ TextIs /\ Len(text) \in Nat /\ start \in 1..Len(text) + 1 /\ row \in 0..start - 1 /\ row \in Nat
      /\ DOMAIN text = 1..Len(text)
  BY <1>1, TextLen DEF RoomInv
<1>3. /\ NextUnit(start) \in start..Len(text) + 1 /\ OnlyMarks(start, NextUnit(start))
      /\ NextUnit(start) <= Len(text) => text[NextUnit(start)] # ASpace
  BY <1>2, SpacesPassed
<1>4. NextOp(start) \in start..Len(text) + 1 /\ Unstarred \in 0..row  BY <1>2, NextOpIs, UnstarredIs
<1>5. CASE Spaces
  <2>1. /\ lexed = "reading" /\ lexed' = lexed /\ row' = Unstarred /\ start' = NextUnit(start)
        /\ text' = text /\ tokens' = tokens /\ Unit(start) = ASpace /\ NextOp(start) <= Len(text)
    BY <1>5 DEF Spaces
  <2>2. start <= Len(text)  BY <1>2, <1>4, <2>1
  <2>3. ~IsOp(text[start])
    <3>1. start \in DOMAIN text  BY <1>2, <2>2
    <3>2. text[start] = ASpace  BY <2>1, <3>1, Zenon DEF Unit
    <3> QED  BY <3>2, OpsNotSpace DEF IsOp
  <2>4. \A k \in Unstarred + 1..row: tokens[k] = << >>  BY <2>1, <2>2, <2>3, OpAheadIs
  <2>5. Moves  BY <1>3, <1>4, <2>1, <2>2, <2>4 DEF Moves
  <2> QED  BY <1>1, <2>5, MoveKeeps
<1>6. CASE LastWords
  <2>1. /\ lexed = "reading" /\ lexed' = "last" /\ row' = Unstarred /\ start' = NextUnit(start)
        /\ text' = text /\ tokens' = tokens /\ NextOp(start) > Len(text)
    BY <1>6 DEF LastWords
  <2>2. start <= Len(text) => \A k \in Unstarred + 1..row: tokens[k] = << >>
    <3> SUFFICES ASSUME start <= Len(text) PROVE \A k \in Unstarred + 1..row: tokens[k] = << >>  OBVIOUS
    <3>1. NextOp(start) # start  BY <1>2, <1>4, <2>1
    <3> QED  BY <2>1, <3>1, OpAheadIs
  <2>3. Moves  BY <1>3, <1>4, <2>1, <2>2 DEF Moves
  <2> QED  BY <1>1, <2>3, MoveKeeps
<1>7. CASE NextWord
  <2>1. /\ lexed = "last" /\ lexed' = lexed /\ row' = row + 1 /\ start' = NextUnit(start)
        /\ text' = text /\ tokens' = tokens /\ Unit(start) = ASpace /\ start <= Len(text)
    BY <1>7 DEF NextWord
  <2>2. Cur # << >>
    <3>1. start \in DOMAIN text  BY <1>2, <2>1
    <3>2. text[start] = ASpace  BY <2>1, <3>1, Zenon DEF Unit
    <3> QED  BY <1>1, <2>1, <3>2 DEF Sound, WordBefore
  <2>3. Moves  BY <1>3, <2>1, <2>2 DEF Moves
  <2> QED  BY <1>1, <2>3, MoveKeeps
<1> QED  BY <1>5, <1>6, <1>7

(* Spaces behind what is read are not kept. *)
LEMMA SpacesBehind ==
  ASSUME TextIs, NEW i \in 1..Len(text) + 1, NEW j \in i..Len(text) + 1, NEW k \in j..Len(text) + 1,
         OnlyMarks(j, k)
  PROVE  Unbracketed(Span(i, k)) = Unbracketed(Span(i, j))
<1>1. Len(text) \in Nat /\ i \in i..Len(text) + 1  BY TextLen
<1>2. OnlyMarks(i, i)
  <2>1. \A m \in i..i - 1: FALSE  BY <1>1
  <2> QED  BY <2>1 DEF OnlyMarks
<1> QED  BY <1>1, <1>2, InnerKept

LEMMA NameKeeps ==
  ASSUME Going, Name
  PROVE  KeptInv'
<1> DEFINE end == WordEnd(start, NextOp(start))
           r   == Unstarred
           t   == Tok(r) \o Dense(Span(start, end))
<1>1. RoomInv /\ RoomInv' /\ Sound /\ lexed = "reading"  BY DEF Going, KeptInv, Working, Name
<1>2. /\ TextIs /\ Len(text) \in Nat /\ start \in 1..Len(text) + 1 /\ row \in Nat
      /\ DOMAIN text = 1..Len(text)
  BY <1>1, TextLen DEF RoomInv
<1>3. NextOp(start) \in start + 1..Len(text) /\ Unit(start) # ASpace
      /\ (lexed' = "done" \/ PassEnds(r, t, NextUnit(end)))
  BY DEF Name
<1>4. start <= Len(text) /\ U # ASpace
  <2>1. start <= Len(text)  BY <1>2, <1>3
  <2>2. start \in DOMAIN text  BY <1>2, <2>1
  <2> QED  BY <1>3, <2>1, <2>2, Zenon DEF Unit, U
<1>5. r \in 0..row  BY <1>2, UnstarredIs
<1>6. \A k \in r + 1..row: tokens[k] = << >>
  <2>1. NextOp(start) # start  BY <1>2, <1>3
  <2> HIDE DEF r
  <2>2. \A k \in Unstarred + 1..row: tokens[k] = << >>  BY <1>1, <1>4, <2>1, OpAheadIs
  <2> QED  BY <2>2 DEF r
<1>7. end \in start + 1..Len(text) + 1 /\ end \in 1..Len(text) + 1
  <2>1. start \in Nat /\ NextOp(start) \in Nat /\ start < NextOp(start)  BY <1>2, <1>3
  <2>2. end \in start + 1..NextOp(start)  BY <2>1, WordEndIs
  <2> QED  BY <1>2, <1>3, <2>2
<1> HIDE DEF end, r
<1>8. NextUnit(end) \in end..Len(text) + 1 /\ OnlyMarks(end, NextUnit(end))  BY <1>2, <1>7, SpacesPassed
<1>9. NextUnit(end) \in start + 1..Len(text) + 1 /\ end \in start..Len(text) + 1  BY <1>2, <1>7, <1>8
<1>10. Tok(r) \in Seq(TextUnits)  BY <1>1, <1>5, TokIs DEF Sound
<1>11. /\ t \in Seq(TextUnits) /\ Solid(t)
       /\ Unbracketed(t) = Unbracketed(Tok(r)) \o Unbracketed(Span(start, end))
  BY <1>1, <1>4, <1>7, <1>10, UnitReads
<1> HIDE DEF t
<1>12. Unbracketed(Span(start, NextUnit(end))) = Unbracketed(Span(start, end))
  BY <1>2, <1>8, <1>9, SpacesBehind
<1>13. Unbracketed(t) = Unbracketed(Tok(r)) \o Unbracketed(Span(start, NextUnit(end)))  BY <1>11, <1>12
<1>14. CASE lexed' = "done"  BY <1>1, <1>14 DEF KeptInv, Working
<1> QED  BY <1>1, <1>3, <1>5, <1>6, <1>9, <1>11, <1>13, <1>14, PassKeeps DEF Going

LEMMA PairIs == \A a, b: Append(<<a>>, b) = <<a, b>>
<1> SUFFICES ASSUME NEW a, NEW b PROVE Append(<<a>>, b) = <<a, b>>  BY Zenon
<1>1. <<a>> \in Seq({a, b}) /\ Len(<<a>>) = 1 /\ <<a>>[1] = a /\ b \in {a, b}  OBVIOUS
<1> DEFINE q == Append(<<a>>, b)
<1>2. q \in Seq({a, b}) /\ Len(q) = 2 /\ q[1] = a /\ q[2] = b  BY <1>1, AppendProperties
<1> HIDE DEF q
<1>3. q = <<a, b>>  BY <1>2
<1> QED  BY <1>3 DEF q

LEMMA LastWordKeeps ==
  ASSUME Going, LastWord
  PROVE  KeptInv'
<1> DEFINE t == Append(Cur, U)
<1>1. RoomInv /\ RoomInv' /\ Sound /\ lexed = "last" /\ start <= Len(text) /\ U # ASpace
  BY DEF Going, KeptInv, Working, LastWord
<1>2. /\ TextIs /\ Len(text) \in Nat /\ start \in 1..Len(text) + 1 /\ row \in Nat /\ row \in 0..row
  BY <1>1, TextLen DEF RoomInv
<1>3. /\ text' = text /\ start' = IF U = "." THEN NextUnit(start + 1) ELSE start + 1
      /\ \/ /\ t = <<"lpthread">> /\ row > 0 /\ Prev = <<"-">>
            /\ tokens' = [tokens EXCEPT ![row - 1] = <<"-", "lpthread">>]
            /\ row' = row - 1 /\ lexed' = lexed
         \/ /\ tokens' = [tokens EXCEPT ![row] = t]
            /\ row' = row /\ lexed' \in {lexed, "refused"}
  <2>1. LastWord  OBVIOUS
  <2>2. CASE t = <<"lpthread">> /\ row > 0 /\ Prev = <<"-">>
    BY <2>1, <2>2 DEF LastWord
  <2>3. CASE ~(t = <<"lpthread">> /\ row > 0 /\ Prev = <<"-">>)
    BY <2>1, <2>3 DEF LastWord
  <2> QED  BY <2>2, <2>3
<1>4. Cur = tokens[row] /\ Cur \in Seq(TextUnits)  BY <1>1, <1>2, TokIs DEF Sound, Cur
<1>5. /\ start + 1 \in start + 1..Len(text) + 1 /\ start + 1 \in start..Len(text) + 1
      /\ start + 1 \in 1..Len(text) + 1
      /\ NextUnit(start + 1) \in start + 1..Len(text) + 1 /\ OnlyMarks(start + 1, NextUnit(start + 1))
  <2>1. start + 1 \in 1..Len(text) + 1 /\ start + 1 \in start..Len(text) + 1
        /\ start + 1 \in start + 1..Len(text) + 1
    BY <1>1, <1>2
  <2> QED  BY <1>2, <2>1, SpacesPassed
<1>6. start' \in start + 1..Len(text) + 1  BY <1>3, <1>5
<1>7. Unbracketed(Span(start, start')) = Unbracketed(Span(start, start + 1))
  BY <1>2, <1>3, <1>5, SpacesBehind
<1>8. \A x \in Seq(TextUnits):
        /\ Append(x, U) \in Seq(TextUnits) /\ Solid(Append(x, U))
        /\ Unbracketed(Append(x, U)) = Unbracketed(x) \o Unbracketed(Span(start, start'))
  BY <1>1, <1>7, UnitReads
<1>9. CASE /\ t = <<"lpthread">> /\ row > 0 /\ Prev = <<"-">>
           /\ tokens' = [tokens EXCEPT ![row - 1] = <<"-", "lpthread">>]
           /\ row' = row - 1 /\ lexed' = lexed
  <2>1. row - 1 \in 0..row  BY <1>2, <1>9
  <2>2. Prev = tokens[row - 1] /\ Prev \in Seq(TextUnits)  BY <1>1, <2>1, TokIs DEF Sound, Prev
  <2>3. Cur = << >> /\ U = "lpthread"
    <3>1. Len(t) = Len(Cur) + 1 /\ t[Len(Cur) + 1] = U /\ Len(Cur) \in Nat  BY <1>1, <1>4, UnitReads, AppendProperties
    <3>2. Len(t) = 1 /\ t[1] = "lpthread"  BY <1>9
    <3>3. Len(Cur) = 0  BY <3>1, <3>2
    <3> QED  BY <1>4, <3>1, <3>2, <3>3, EmptySeq
  <2> DEFINE w == Append(Prev, U)
  <2>4. w = <<"-", "lpthread">>
    <3>1. Prev = <<"-">>  BY <1>9
    <3>3. w = Append(<<"-">>, "lpthread")  BY <2>3, <3>1, Zenon
    <3>4. Append(<<"-">>, "lpthread") = <<"-", "lpthread">>  BY PairIs, Zenon
    <3> QED  BY <3>3, <3>4, Zenon
  <2>5. /\ w \in Seq(TextUnits) /\ Solid(w)
        /\ Unbracketed(w) = Unbracketed(Prev) \o Unbracketed(Span(start, start'))
    BY <1>8, <2>2
  <2> HIDE DEF w
  <2>6. w # << >>  BY <2>5, EmptySeq DEF Solid
  <2>7. \A k \in row - 1 + 1..row: tokens[k] = << >>
    <3>1. \A k \in row - 1 + 1..row: k = row  BY <1>2
    <3> QED  BY <1>4, <2>3, <3>1
  <2>8. Writes(row - 1, w)  BY <1>1, <1>3, <1>6, <1>9, <2>1, <2>2, <2>4, <2>5, <2>6, <2>7 DEF Writes
  <2>9. Sound'  BY <1>1, <2>8, WriteKeeps
  <2> QED  BY <1>1, <2>9 DEF KeptInv
<1>10. CASE tokens' = [tokens EXCEPT ![row] = t] /\ row' = row /\ lexed' = lexed
  <2>1. /\ t \in Seq(TextUnits) /\ Solid(t)
        /\ Unbracketed(t) = Unbracketed(Cur) \o Unbracketed(Span(start, start'))
    BY <1>4, <1>8
  <2> HIDE DEF t
  <2>2. t # << >>  BY <2>1, EmptySeq DEF Solid
  <2>3. \A k \in row + 1..row: tokens[k] = << >>  BY <1>2
  <2>4. Writes(row, t)  BY <1>1, <1>2, <1>3, <1>4, <1>6, <1>10, <2>1, <2>2, <2>3 DEF Writes
  <2>5. Sound'  BY <1>1, <2>4, WriteKeeps
  <2> QED  BY <1>1, <2>5 DEF KeptInv
<1>11. CASE lexed' = "refused"  BY <1>1, <1>11 DEF KeptInv, Working
<1> QED  BY <1>3, <1>9, <1>10, <1>11

-----------------------------------------------------------------------------
(* The whole text, or all tokens, become the first one. *)

LEMMA KeptOne == \A u: Unbracketed(<<u>>) = Bit(u, {ASpace, "(", ")"})
<1> SUFFICES ASSUME NEW u PROVE Unbracketed(<<u>>) = Bit(u, {ASpace, "(", ")"})  BY Zenon
<1>1. u \in {u}  OBVIOUS
<1> QED  BY <1>1, WithoutOne, Zenon DEF Unbracketed

LEMMA TidiedKept ==
  ASSUME NEW S, ASpace \in S, NEW s \in Seq(S)
  PROVE  Tidied(s) \in Seq(S) /\ Unbracketed(Tidied(s)) = Unbracketed(s)
<1> DEFINE X == {ASpace, "(", ")"}
           n == Len(s)
           P(i) == IF s[i] = ASpace /\ i > 1 /\ s[i - 1] = ASpace THEN << >>
                   ELSE IF s[i] = "include" /\ i < Len(s) /\ s[i + 1] = "<" THEN <<s[i], ASpace>>
                   ELSE <<s[i]>>
           f == [k \in 0..n - 1 |-> P(k + 1)]
           g == [k \in 0..n - 1 |-> Bit(s[k + 1], X)]
<1>1. n \in Nat /\ DOMAIN s = 1..n /\ \A i \in 1..n: s[i] \in S  OBVIOUS
<1>2. Tidied(s) = Joined(f, n)
  <2>1. Tidied(s) = FlattenSeq([i \in 1..n |-> P(i)])  BY <1>1 DEF Tidied
  <2> HIDE DEF P
  <2>2. \A i \in 1..n: i - 1 \in 0..n - 1 /\ i - 1 + 1 = i  BY <1>1
  <2>3. \A i \in 1..n: f[i - 1] = P(i)  BY <2>2
  <2> HIDE DEF f
  <2>4. [i \in 1..n |-> P(i)] = [i \in 1..n |-> f[i - 1]]  BY <2>3
  <2> QED  BY <2>1, <2>4 DEF Joined
<1>3. \A k \in 0..n - 1: k + 1 \in 1..n  BY <1>1
<1>4. \A i \in 1..n: P(i) \in Seq(S) /\ Unbracketed(P(i)) = Bit(s[i], X)
  <2> SUFFICES ASSUME NEW i \in 1..n PROVE P(i) \in Seq(S) /\ Unbracketed(P(i)) = Bit(s[i], X)  OBVIOUS
  <2>1. s[i] \in S /\ <<s[i]>> \in Seq(S) /\ Unbracketed(<<s[i]>>) = Bit(s[i], X)
    <3>1. s[i] \in S /\ <<s[i]>> \in Seq(S)  BY <1>1
    <3>2. Unbracketed(<<s[i]>>) = Bit(s[i], X)  BY KeptOne, Zenon
    <3> QED  BY <3>1, <3>2
  <2>2. CASE s[i] = ASpace
    <3>1. Bit(s[i], X) = << >>  BY <2>2 DEF Bit
    <3>2. << >> \in Seq(S) /\ Unbracketed(<< >>) = << >>  BY EmptySeq, KeptIs
    <3>3. P(i) \in {<< >>, <<s[i]>>}
      <4>1. ASpace # "include"  BY Zenon DEF ASpace
      <4> QED  BY <2>2, <4>1
    <3> HIDE DEF P
    <3> QED  BY <2>1, <3>1, <3>2, <3>3
  <2>3. CASE s[i] # ASpace
    <3>1. P(i) \in {<<s[i]>>, <<s[i], ASpace>>}  BY <2>3
    <3>2. <<s[i], ASpace>> \in Seq(S) /\ Unbracketed(<<s[i], ASpace>>) = Bit(s[i], X)
      <4>1. <<s[i], ASpace>> = Append(<<s[i]>>, ASpace)  BY PairIs
      <4>2. Unbracketed(Append(<<s[i]>>, ASpace)) = Unbracketed(<<s[i]>>) \o Unbracketed(<<ASpace>>)
            /\ Append(<<s[i]>>, ASpace) \in Seq(S)
        BY <2>1, KeptAppend
      <4>3. Unbracketed(<<ASpace>>) = << >>  BY KeptMark
      <4>4. Bit(s[i], X) \in Seq(S)  BY <2>1, BitIs
      <4>5. Bit(s[i], X) \o << >> = Bit(s[i], X)  BY <4>4, ConcatEmptySeq
      <4> QED  BY <2>1, <4>1, <4>2, <4>3, <4>5
    <3> HIDE DEF P
    <3> QED  BY <2>1, <3>1, <3>2
  <2> QED  BY <2>2, <2>3
<1>5. \A k \in 0..n - 1: f[k] \in Seq(S) /\ g[k] = Unbracketed(f[k])
  <2> HIDE DEF P
  <2> QED  BY <1>3, <1>4
<1>6. \A k \in 0..n - 1: g[k] = Bit(s[k + 1], X)  OBVIOUS
<1> HIDE DEF f, g
<1>7. Joined(f, n) \in Seq(S)
  <2>1. \A k \in 0..n - 1: f[k] \in Seq(S)  BY <1>5
  <2> QED  BY <1>1, <2>1, JoinedIs
<1>8. Unbracketed(Joined(f, n)) = Joined(g, n)
  <2>1. KeepsOf(S, f, g, n)  BY <1>5 DEF KeepsOf
  <2> QED  BY <1>1, <2>1, KeptParts
<1>9. Without(s, X) = Joined(g, n)  BY <1>6, WithoutJoins
<1> QED  BY <1>2, <1>7, <1>8, <1>9 DEF Unbracketed

(* What the tokens of an array keep. *)
ValueOf(ts) == Unbracketed(Joined(ts, Cells))

(* An array of make_tokens, filled from the first token on. *)
IsArray(ts) ==
  /\ DOMAIN ts = 0..Len(text) + 1 /\ ts[Len(text) + 1] = << >>
  /\ \A k \in 0..Len(text) + 1: ts[k] \in Seq(TextUnits)
  /\ \A k \in 0..Len(text) + 1: \A j \in 0..k - 1: ts[k] # << >> => ts[j] # << >>

LEMMA AloneIs ==
  ASSUME RoomInv, NEW t \in Seq(TextUnits)
  PROVE  IsArray(Alone(t)) /\ ValueOf(Alone(t)) = Unbracketed(t)
<1> DEFINE f == Alone(t)
<1>1. Len(text) \in Nat \ {0} /\ DOMAIN tokens = 0..Len(text) + 1  BY TextLen DEF RoomInv
<1>2. DOMAIN f = 0..Len(text) + 1 /\ \A k \in 0..Len(text) + 1: f[k] = IF k = 0 THEN t ELSE << >>
  BY <1>1 DEF Alone
<1> HIDE DEF f
<1>3. f[0] = t /\ \A k \in 1..Len(text) + 1: f[k] = << >>  BY <1>1, <1>2
<1>4. << >> \in Seq(TextUnits)  BY EmptySeq
<1>5. IsArray(f)
  <2>1. \A k \in 0..Len(text) + 1: f[k] \in Seq(TextUnits)  BY <1>2, <1>4
  <2>2. \A k \in 0..Len(text) + 1: \A j \in 0..k - 1: f[k] # << >> => f[j] # << >>
    <3>1. \A k \in 0..Len(text) + 1: \A j \in 0..k - 1: k # 0  OBVIOUS
    <3> QED  BY <1>2, <3>1
  <2>3. f[Len(text) + 1] = << >>  BY <1>1, <1>3
  <2> QED  BY <1>2, <2>1, <2>2, <2>3 DEF IsArray
<1>6. Joined(f, Cells) = t
  <2>1. /\ Cells \in Nat /\ Cells >= 1 /\ 1 \in Nat
        /\ \A k \in 0..Cells - 1: k \in 0..Len(text) + 1
        /\ \A k \in 1..Cells - 1: k \in 1..Len(text) + 1
    BY <1>1 DEF Cells
  <2>2. \A k \in 0..Cells - 1: f[k] \in Seq(TextUnits)  BY <1>2, <1>4, <2>1
  <2>3. \A k \in 1..Cells - 1: f[k] = << >>  BY <1>3, <2>1
  <2>4. Joined(f, Cells) = Joined(f, 1)  BY <2>1, <2>2, <2>3, JoinedNothing
  <2>5. 0 \in Nat /\ (\A k \in 0..0: f[k] \in Seq(TextUnits)) /\ 0 + 1 = 1  BY <1>3
  <2>6. Joined(f, 0) = << >> /\ (Joined(f, 0) \in Seq(TextUnits) => Joined(f, 0 + 1) = Joined(f, 0) \o f[0])
    BY <2>5, JoinedStep
  <2>7. Joined(f, 1) = << >> \o t  BY <1>3, <1>4, <2>5, <2>6
  <2>8. << >> \o t = t  BY ConcatEmptySeq
  <2> QED  BY <2>4, <2>7, <2>8
<1> QED  BY <1>5, <1>6 DEF ValueOf, f

LEMMA ListIs ==
  ASSUME RoomInv, NEW ts, IsArray(ts)
  PROVE  \E n \in 0..Len(text) + 1: /\ List(ts) = [k \in 1..n |-> ts[k - 1]]
                                    /\ \A k \in n..Len(text) + 1: ts[k] = << >>
<1>1. Len(text) \in Nat  BY TextLen DEF RoomInv
<1>2. DOMAIN ts = 0..Len(text) + 1 /\ ts[Len(text) + 1] = << >>  BY DEF IsArray
<1> DEFINE T == {n \in 0..Len(text) + 1: ts[n] = << >>}
<1>3. T \in SUBSET Nat /\ Len(text) + 1 \in T  BY <1>1, <1>2
<1>4. PICK m \in T: \A y \in T: m <= y  BY <1>3, LeastNat
<1>5. m \in 0..Len(text) + 1 /\ ts[m] = << >>  BY <1>4
<1>6. \A k \in 0..m - 1: ts[k] # << >>
  <2>1. \A k \in 0..m - 1: k \in 0..Len(text) + 1 /\ ~(m <= k)  BY <1>1, <1>5
  <2> QED  BY <1>4, <2>1
<1> DEFINE Q(y) == Of(ts, y) = << >> /\ \A k \in 0..y - 1: ts[k] # << >>
           n == CHOOSE y \in 0..Len(text) + 2: Q(y)
<1>7. m \in 0..Len(text) + 2 /\ Q(m)
  <2>1. m \in 0..Len(text) + 2 /\ m \in DOMAIN ts  BY <1>1, <1>2, <1>5
  <2>2. Of(ts, m) = << >>  BY <1>5, <2>1, Zenon DEF Of
  <2> QED  BY <1>6, <2>1, <2>2
<1>8. n \in 0..Len(text) + 2 /\ Q(n)  BY <1>7
<1>9. List(ts) = [k \in 1..n |-> ts[k - 1]]  BY DEF List
<1> HIDE DEF n
<1>10. n \in 0..Len(text) + 1
  <2>1. ~(m \in 0..n - 1)  BY <1>5, <1>8
  <2> QED  BY <1>1, <1>5, <1>8, <2>1
<1>11. ts[n] = << >>  BY <1>2, <1>8, <1>10 DEF Of
<1>12. \A k \in n..Len(text) + 1: ts[k] = << >>
  <2> SUFFICES ASSUME NEW k \in n..Len(text) + 1, ts[k] # << >> PROVE FALSE  OBVIOUS
  <2>1. k # n  BY <1>11
  <2>2. k \in 0..Len(text) + 1 /\ n \in 0..k - 1  BY <1>1, <1>10, <2>1
  <2> QED  BY <1>11, <2>2 DEF IsArray
<1> QED  BY <1>9, <1>10, <1>12

LEMMA GatheredKept ==
  ASSUME RoomInv, NEW ts, IsArray(ts), NEW list, list = List(ts), NEW t,
         t = FlattenSeq([k \in DOMAIN list |-> IF k = 1 THEN list[k] ELSE <<ASpace>> \o list[k]])
  PROVE  t \in Seq(TextUnits) /\ Unbracketed(t) = ValueOf(ts)
<1>1. Len(text) \in Nat  BY TextLen DEF RoomInv
<1>2. PICK n \in 0..Len(text) + 1: /\ List(ts) = [k \in 1..n |-> ts[k - 1]]
                                   /\ \A k \in n..Len(text) + 1: ts[k] = << >>
  BY ListIs
<1>3. /\ n \in Nat /\ n <= Cells /\ Cells \in Nat
      /\ \A k \in 0..Cells - 1: k \in 0..Len(text) + 1
      /\ \A k \in n..Cells - 1: k \in n..Len(text) + 1
      /\ \A k \in 0..n - 1: k \in 0..Cells - 1
  BY <1>1 DEF Cells
<1>4. \A k \in 0..Cells - 1: ts[k] \in Seq(TextUnits)  BY <1>3 DEF IsArray
<1> DEFINE f == [k \in 0..n - 1 |-> IF k = 0 THEN ts[k] ELSE <<ASpace>> \o ts[k]]
           g == [k \in 0..n - 1 |-> Unbracketed(ts[k])]
<1>5. t = Joined(f, n)
  <2>1. DOMAIN list = 1..n /\ \A k \in 1..n: list[k] = ts[k - 1]  BY <1>2
  <2>2. \A k \in 1..n: k - 1 \in 0..n - 1 /\ (k = 1 <=> k - 1 = 0)  BY <1>3
  <2>3. \A k \in 1..n: f[k - 1] = IF k = 1 THEN list[k] ELSE <<ASpace>> \o list[k]  BY <2>1, <2>2
  <2> HIDE DEF f
  <2>4. [k \in DOMAIN list |-> IF k = 1 THEN list[k] ELSE <<ASpace>> \o list[k]] = [k \in 1..n |-> f[k - 1]]
    BY <2>1, <2>3
  <2> QED  BY <2>4 DEF Joined
<1>6. \A k \in 0..n - 1: f[k] \in Seq(TextUnits) /\ g[k] = Unbracketed(f[k])
  <2> SUFFICES ASSUME NEW k \in 0..n - 1 PROVE f[k] \in Seq(TextUnits) /\ g[k] = Unbracketed(f[k])  OBVIOUS
  <2>1. ts[k] \in Seq(TextUnits) /\ g[k] = Unbracketed(ts[k])  BY <1>3, <1>4
  <2>2. f[k] = ts[k] \/ f[k] = <<ASpace>> \o ts[k]  OBVIOUS
  <2> HIDE DEF f, g
  <2>3. <<ASpace>> \in Seq(TextUnits) /\ Unbracketed(<<ASpace>>) = << >>
    <3>1. ASpace \in TextUnits  BY DEF TextUnits
    <3> QED  BY <3>1, KeptMark
  <2>4. \A x, y \in Seq(TextUnits): Unbracketed(x \o y) = Unbracketed(x) \o Unbracketed(y)  BY KeptConcat
  <2>5. Unbracketed(<<ASpace>> \o ts[k]) = << >> \o Unbracketed(ts[k])  BY <2>1, <2>3, <2>4
  <2>6. Unbracketed(ts[k]) \in Seq(TextUnits)  BY <2>1, KeptIs
  <2>7. << >> \o Unbracketed(ts[k]) = Unbracketed(ts[k])  BY <2>6, ConcatEmptySeq
  <2>8. <<ASpace>> \o ts[k] \in Seq(TextUnits)  BY <2>1, <2>3, ConcatParts
  <2> QED  BY <2>1, <2>2, <2>5, <2>7, <2>8
<1>7. \A k \in 0..n - 1: ts[k] \in Seq(TextUnits) /\ g[k] = Unbracketed(ts[k])  BY <1>3, <1>4
<1> HIDE DEF f, g
<1>8. Joined(f, n) \in Seq(TextUnits)
  <2>1. \A k \in 0..n - 1: f[k] \in Seq(TextUnits)  BY <1>6
  <2> QED  BY <1>3, <2>1, JoinedIs
<1>9. Unbracketed(Joined(f, n)) = Joined(g, n) /\ Unbracketed(Joined(ts, n)) = Joined(g, n)
  <2>1. KeepsOf(TextUnits, f, g, n)  BY <1>6 DEF KeepsOf
  <2>2. KeepsOf(TextUnits, ts, g, n)  BY <1>7 DEF KeepsOf
  <2>3. Unbracketed(Joined(f, n)) = Joined(g, n)  BY <1>3, <2>1, KeptParts
  <2>4. Unbracketed(Joined(ts, n)) = Joined(g, n)  BY <1>3, <2>2, KeptParts
  <2> QED  BY <2>3, <2>4
<1>10. Joined(ts, Cells) = Joined(ts, n)
  <2>1. \A k \in n..Cells - 1: ts[k] = << >>  BY <1>2, <1>3
  <2> QED  BY <1>3, <1>4, <2>1, JoinedNothing
<1> QED  BY <1>5, <1>8, <1>9, <1>10 DEF ValueOf

LEMMA WholeKeeps ==
  ASSUME Going, Whole
  PROVE  KeptInv'
<1>1. RoomInv /\ RoomInv' /\ Sound /\ lexed = "last" /\ start > Len(text)
  BY DEF Going, KeptInv, Working, Whole
<1>2. /\ TextIs /\ Len(text) \in Nat /\ start = Len(text) + 1 /\ start \in 1..Len(text) + 1
      /\ DOMAIN tokens = 0..Len(text) + 1 /\ tokens[Len(text) + 1] = << >> /\ text \in Seq(Range(text))
  <2>1. start \in 1..Len(text) + 1  BY <1>1 DEF RoomInv
  <2>2. Len(text) \in Nat  BY <1>1, TextLen DEF RoomInv
  <2> QED  BY <1>1, <2>1, <2>2 DEF RoomInv, Working, TextIs
<1> DEFINE ts   == IF row > 0 /\ Tok(0) \in {<<"#", "include">>, <<"include">>, <<"struct">>}
                     THEN Alone(Tidied(text)) ELSE tokens
           list == List(ts)
           t    == FlattenSeq([k \in DOMAIN list |-> IF k = 1 THEN list[k] ELSE <<ASpace>> \o list[k]])
<1>3. /\ lexed' = "casts" /\ text' = text /\ start' = start
      /\ tokens' = Alone(t) \/ tokens' = ts
  BY DEF Whole
<1>4. IsArray(ts) /\ ValueOf(ts) = Unbracketed(Span(1, start))
  <2>1. IsArray(tokens) /\ ValueOf(tokens) = Unbracketed(Span(1, start))
    BY <1>1, <1>2 DEF IsArray, ValueOf, Sound, TokensType, NoHoles, ReadStands
  <2>2. IsArray(Alone(Tidied(text))) /\ ValueOf(Alone(Tidied(text))) = Unbracketed(Span(1, start))
    <3>1. ASpace \in TextUnits /\ text \in Seq(TextUnits)  BY <1>2 DEF TextUnits
    <3>2. Tidied(text) \in Seq(TextUnits) /\ Unbracketed(Tidied(text)) = Unbracketed(text)
      BY <3>1, TidiedKept
    <3>3. Span(1, start) = text
      <4>1. Span(1, start) = SubSeq(text, 1, Len(text))
        <5>1. start - 1 = Len(text)  BY <1>2
        <5> QED  BY <5>1, Zenon DEF Span
      <4>2. SubSeq(text, 1, Len(text)) = text  BY <1>2, SubSeqFull
      <4> QED  BY <4>1, <4>2
    <3> QED  BY <1>1, <3>2, <3>3, AloneIs
  <2> QED  BY <2>1, <2>2
<1> HIDE DEF ts
<1>5. t \in Seq(TextUnits) /\ Unbracketed(t) = ValueOf(ts)  BY <1>1, <1>4, GatheredKept
<1> HIDE DEF t
<1>6. IsArray(Alone(t)) /\ ValueOf(Alone(t)) = Unbracketed(Span(1, start))  BY <1>1, <1>4, <1>5, AloneIs
<1>7. IsArray(tokens') /\ ValueOf(tokens') = Unbracketed(Span(1, start))  BY <1>3, <1>4, <1>6
<1>8. TokensType'  BY <1>3, <1>7 DEF TokensType, IsArray, TextUnits
<1>9. ReadStands'  BY <1>3, <1>7 DEF ReadStands, ValueOf, Cells, Span
<1>10. NoHoles' /\ NoneBehind' /\ WordBefore' /\ AtEnd'
  BY <1>2, <1>3 DEF NoHoles, NoneBehind, WordBefore, AtEnd
<1> QED  BY <1>1, <1>8, <1>9, <1>10 DEF Sound, KeptInv
-----------------------------------------------------------------------------
(* Casts *)

(* Parts from p on up to b have become one part, and those behind it move up. *)
MergedAt(S, f, g, n, p, b) ==
  /\ \A k \in Nat: f[k] \in Seq(S) /\ g[k] \in Seq(S)
  /\ \A k \in Nat: k >= n => f[k] = << >>
  /\ \A k \in 0..p - 1: g[k] = f[k]
  /\ \A k \in p + 1..n - 1: g[k] = f[k + (b - p - 1)]
  /\ Joined(f, p) \o g[p] = Joined(f, b)

LEMMA PartsMerged ==
  ASSUME NEW S, NEW f, NEW g, NEW n \in Nat, NEW p \in Nat, NEW b \in Nat, p < n, p < b,
         MergedAt(S, f, g, n, p, b)
  PROVE  Joined(g, n) = Joined(f, n)
<1>0. /\ \A k \in Nat: f[k] \in Seq(S) /\ g[k] \in Seq(S)
      /\ \A k \in Nat: k >= n => f[k] = << >>
      /\ \A k \in 0..p - 1: g[k] = f[k]
      /\ \A k \in p + 1..n - 1: g[k] = f[k + (b - p - 1)]
      /\ Joined(f, p) \o g[p] = Joined(f, b)
  BY DEF MergedAt
<1> DEFINE a == p + 1
           c == n - p - 1
           d == b + c
<1>1. a \in Nat /\ c \in Nat /\ d \in Nat /\ a + c = n /\ d >= n  OBVIOUS
<1>2. Joined(g, p) = Joined(f, p)  BY <1>0, JoinedSame
<1>3. \A k \in 0..p: k \in Nat  OBVIOUS
<1>4. \A k \in 0..p: g[k] \in Seq(S) /\ f[k] \in Seq(S)  BY <1>0, <1>3
<1>5. Joined(f, p) \in Seq(S)
  <2>1. \A k \in 0..p - 1: k \in Nat  OBVIOUS
  <2>2. \A k \in 0..p - 1: f[k] \in Seq(S)  BY <1>0, <2>1
  <2> QED  BY <2>2, JoinedIs
<1>6. Joined(g, p) \in Seq(S) => Joined(g, p + 1) = Joined(g, p) \o g[p]  BY <1>4, JoinedStep
<1>7. Joined(g, a) = Joined(f, b)  BY <1>0, <1>2, <1>5, <1>6
<1>9. \A k \in 0..c - 1: a + k \in p + 1..n - 1 /\ a + k + (b - p - 1) = b + k  OBVIOUS
<1>10. \A k \in 0..c - 1: g[a + k] = f[b + k]  BY <1>0, <1>9
<1> HIDE DEF a, c
<1>11. Joined(g, a + c) = Joined(f, b + c)
  <2>1. \A k \in 0..a + c - 1: k \in Nat  BY <1>1
  <2>2. \A k \in 0..b + c - 1: k \in Nat  BY <1>1
  <2>3. SameParts(S, g, f, a, b, c)  BY <1>0, <1>10, <2>1, <2>2 DEF SameParts
  <2> QED  BY <1>1, <1>7, <2>3, JoinedShift
<1>12. Joined(g, n) = Joined(f, d)  BY <1>1, <1>11
<1> HIDE DEF d
<1>13. Joined(f, d) = Joined(f, n)
  <2>1. \A k \in 0..d - 1: k \in Nat  BY <1>1
  <2>2. \A k \in n..d - 1: k \in Nat /\ k >= n  BY <1>1
  <2>3. \A k \in 0..d - 1: f[k] \in Seq(S)  BY <1>0, <2>1
  <2>4. \A k \in n..d - 1: f[k] = << >>  BY <1>0, <2>2
  <2>5. n \in Nat /\ d \in Nat /\ d >= n  BY <1>1
  <2> QED  BY <2>3, <2>4, <2>5, JoinedNothing
<1> QED  BY <1>12, <1>13

(* What each token of an array keeps. *)
HasTokens(V) == DOMAIN V = 0..Len(text) + 1 /\ \A k \in 0..Len(text) + 1: V[k] \in Seq(TextUnits)
KeptIn(V) == [k \in Nat |-> Unbracketed(Of(V, k))]

LEMMA OfIs ==
  ASSUME RoomInv, NEW V, HasTokens(V)
  PROVE  /\ \A k \in Int: Of(V, k) \in Seq(TextUnits)
         /\ \A k \in Int: k > Len(text) + 1 \/ k < 0 => Of(V, k) = << >>
         /\ \A k \in 0..Len(text) + 1: Of(V, k) = V[k]
         /\ \A k \in Int: Of(V, k) # << >> => k \in 0..Len(text) + 1
<1>1. DOMAIN V = 0..Len(text) + 1 /\ \A k \in 0..Len(text) + 1: V[k] \in Seq(TextUnits)
  BY DEF HasTokens
<1>2. Len(text) \in Nat  BY TextLen DEF RoomInv
<1>3. << >> \in Seq(TextUnits)  BY EmptySeq
<1>4. \A k \in 0..Len(text) + 1: Of(V, k) = V[k]  BY <1>1, Zenon DEF Of
<1>5. \A k: k \notin 0..Len(text) + 1 => Of(V, k) = << >>  BY <1>1, Zenon DEF Of
<1>6. \A k \in Int: k > Len(text) + 1 \/ k < 0 => k \notin 0..Len(text) + 1  BY <1>2
<1>7. \A k \in Int: Of(V, k) \in Seq(TextUnits)  BY <1>1, <1>3, <1>4, <1>5
<1>8. \A k \in Int: k > Len(text) + 1 \/ k < 0 => Of(V, k) = << >>  BY <1>5, <1>6
<1> QED  BY <1>4, <1>5, <1>7, <1>8

LEMMA KeptOf ==
  ASSUME RoomInv, NEW V, HasTokens(V)
  PROVE  /\ \A k \in Nat: KeptIn(V)[k] \in Seq(TextUnits) /\ KeptIn(V)[k] = Unbracketed(Of(V, k))
         /\ \A k \in Nat: k >= Cells => KeptIn(V)[k] = << >>
         /\ ValueOf(V) = Joined(KeptIn(V), Cells)
<1>1. Len(text) \in Nat /\ Cells \in Nat /\ Cells = Len(text) + 2  BY TextLen DEF RoomInv, Cells
<1>2. \A k \in Nat: k \in Int  OBVIOUS
<1> DEFINE F == KeptIn(V)
<1>3. \A k \in Nat: F[k] = Unbracketed(Of(V, k))  BY DEF KeptIn
<1> HIDE DEF F
<1>4. \A k \in Nat: Of(V, k) \in Seq(TextUnits)  BY <1>2, OfIs
<1>5. \A S: \A x \in Seq(S): Unbracketed(x) \in Seq(S) /\ Unbracketed(<< >>) = << >>  BY KeptIs
<1>6. \A k \in Nat: F[k] \in Seq(TextUnits)  BY <1>3, <1>4, <1>5
<1>7. \A k \in Nat: k >= Cells => F[k] = << >>
  <2>1. \A k \in Nat: k >= Cells => k > Len(text) + 1  BY <1>1
  <2>2. \A k \in Nat: k >= Cells => Of(V, k) = << >>  BY <1>2, <2>1, OfIs
  <2>3. Unbracketed(<< >>) = << >>  BY <1>5, EmptySeq
  <2> QED  BY <1>3, <2>2, <2>3
<1>8. ValueOf(V) = Joined(F, Cells)
  <2>1. \A k \in 0..Cells - 1: k \in Nat /\ k \in 0..Len(text) + 1  BY <1>1
  <2>2. \A k \in 0..Cells - 1: V[k] \in Seq(TextUnits) /\ F[k] = Unbracketed(V[k])
    BY <1>3, <2>1, OfIs DEF HasTokens
  <2>3. KeepsOf(TextUnits, V, F, Cells)  BY <2>2 DEF KeepsOf
  <2>4. Unbracketed(Joined(V, Cells)) = Joined(F, Cells)  BY <1>1, <2>3, KeptParts
  <2> QED  BY <2>4 DEF ValueOf
<1> QED  BY <1>3, <1>6, <1>7, <1>8 DEF F

TokensMergedAt(V, W, p, b) ==
  /\ \A k \in 0..p - 1: W[k] = V[k]
  /\ \A k \in p + 1..Len(text) + 1: W[k] = Of(V, k + (b - p - 1))
  /\ Joined(KeptIn(V), p) \o Unbracketed(W[p]) = Joined(KeptIn(V), b)

LEMMA TokensMerged ==
  ASSUME RoomInv, NEW V, HasTokens(V), NEW W, HasTokens(W),
         NEW p \in 0..Len(text) + 1, NEW b \in Nat, p < b, TokensMergedAt(V, W, p, b)
  PROVE  ValueOf(W) = ValueOf(V)
<1>0. /\ \A k \in 0..p - 1: W[k] = V[k]
      /\ \A k \in p + 1..Len(text) + 1: W[k] = Of(V, k + (b - p - 1))
      /\ Joined(KeptIn(V), p) \o Unbracketed(W[p]) = Joined(KeptIn(V), b)
  BY DEF TokensMergedAt
<1>1. Len(text) \in Nat /\ Cells \in Nat /\ Cells = Len(text) + 2 /\ p \in Nat /\ p < Cells
  BY TextLen DEF RoomInv, Cells
<1> DEFINE F == KeptIn(V)
           G == KeptIn(W)
<1>2. /\ \A k \in Nat: F[k] \in Seq(TextUnits) /\ F[k] = Unbracketed(Of(V, k))
      /\ \A k \in Nat: k >= Cells => F[k] = << >>
      /\ ValueOf(V) = Joined(F, Cells)
  BY KeptOf
<1>3. /\ \A k \in Nat: G[k] \in Seq(TextUnits) /\ G[k] = Unbracketed(Of(W, k))
      /\ ValueOf(W) = Joined(G, Cells)
  BY KeptOf
<1> HIDE DEF F, G
<1>4. /\ \A k \in 0..Len(text) + 1: Of(V, k) = V[k]
      /\ \A k \in 0..Len(text) + 1: Of(W, k) = W[k]
  BY OfIs
<1>5. \A k \in 0..p - 1: G[k] = F[k]
  <2> SUFFICES ASSUME NEW k \in 0..p - 1 PROVE G[k] = F[k]  OBVIOUS
  <2>1. k \in 0..Len(text) + 1 /\ k \in Nat  BY <1>1
  <2>2. G[k] = Unbracketed(W[k])  BY <1>3, <1>4, <2>1
  <2>3. F[k] = Unbracketed(V[k])  BY <1>2, <1>4, <2>1
  <2> QED  BY <1>0, <2>2, <2>3
<1>6. \A k \in p + 1..Cells - 1: G[k] = F[k + (b - p - 1)]
  <2> SUFFICES ASSUME NEW k \in p + 1..Cells - 1 PROVE G[k] = F[k + (b - p - 1)]  OBVIOUS
  <2> DEFINE l == k + (b - p - 1)
  <2>1. k \in p + 1..Len(text) + 1 /\ k \in 0..Len(text) + 1 /\ k \in Nat /\ l \in Nat  BY <1>1
  <2>2. G[k] = Unbracketed(W[k])  BY <1>3, <1>4, <2>1
  <2>3. W[k] = Of(V, l)  BY <1>0, <2>1
  <2> HIDE DEF l
  <2>4. F[l] = Unbracketed(Of(V, l))  BY <1>2, <2>1
  <2> QED  BY <2>2, <2>3, <2>4 DEF l
<1>7. Joined(F, p) \o G[p] = Joined(F, b)
  <2>1. G[p] = Unbracketed(W[p])  BY <1>1, <1>3, <1>4
  <2> QED  BY <1>0, <2>1 DEF F
<1>8. MergedAt(TextUnits, F, G, Cells, p, b)  BY <1>2, <1>3, <1>5, <1>6, <1>7 DEF MergedAt
<1>9. Joined(G, Cells) = Joined(F, Cells)  BY <1>1, <1>8, PartsMerged
<1> QED  BY <1>2, <1>3, <1>9

(* "struct" and the name behind it. *)
LEMMA NamedKept ==
  ASSUME RoomInv, TokensType, NEW i \in 0..Len(text)
  PROVE  HasTokens(StructNamed(i)) /\ ValueOf(StructNamed(i)) = ValueOf(tokens)
<1>1. Len(text) \in Nat /\ DOMAIN tokens = 0..Len(text) + 1  BY TextLen DEF RoomInv
<1>2. HasTokens(tokens)  BY <1>1 DEF HasTokens, TokensType
<1>3. CASE tokens[i] # <<"struct">>
  <2>1. StructNamed(i) = tokens  BY <1>3 DEF StructNamed
  <2> QED  BY <1>2, <2>1
<1>4. CASE tokens[i] = <<"struct">>
  <2> DEFINE W == [k \in DOMAIN tokens |->
                IF k < i THEN tokens[k] ELSE IF k = i THEN <<"struct", ASpace>> \o Tok(i + 1) ELSE Tok(k + 1)]
             x == Tok(i + 1)
             y == <<"struct", ASpace>>
  <2>1. StructNamed(i) = W  BY <1>4 DEF StructNamed
  <2>2. DOMAIN W = 0..Len(text) + 1  BY <1>1
  <2>3. /\ \A k \in 0..Len(text) + 1: k < i => W[k] = tokens[k]
        /\ W[i] = y \o x
        /\ \A k \in 0..Len(text) + 1: k > i => W[k] = Tok(k + 1)
    BY <1>1
  <2> HIDE DEF W
  <2>4. \A k \in Int: Tok(k) \in Seq(TextUnits)  BY <1>2, OfIs DEF Tok
  <2>5. x \in Seq(TextUnits)
    <3>1. i + 1 \in Int  OBVIOUS
    <3> QED  BY <2>4, <3>1
  <2> HIDE DEF x
  <2>6. y \in Seq(TextUnits) /\ Unbracketed(y) = Unbracketed(<<"struct">>)
        /\ <<"struct">> \in Seq(TextUnits)
    <3>1. "struct" \in TextUnits /\ ASpace \in TextUnits  BY DEF TextUnits
    <3>2. <<"struct">> \in Seq(TextUnits) /\ <<ASpace>> \in Seq(TextUnits)  BY <3>1
    <3>3. y = <<"struct">> \o <<ASpace>>  BY PairIs, <3>1, <3>2, AppendIsConcat
    <3>4. Unbracketed(y) = Unbracketed(<<"struct">>) \o Unbracketed(<<ASpace>>)  BY <3>2, <3>3, KeptConcat
    <3>5. Unbracketed(<<ASpace>>) = << >>  BY KeptMark
    <3>6. Unbracketed(<<"struct">>) \in Seq(TextUnits)  BY <3>2, KeptIs
    <3>7. Unbracketed(<<"struct">>) \o << >> = Unbracketed(<<"struct">>)  BY <3>6, ConcatEmptySeq
    <3>8. y \in Seq(TextUnits)  BY <3>2, <3>3, ConcatParts
    <3> QED  BY <3>2, <3>4, <3>5, <3>7, <3>8
  <2> HIDE DEF y
  <2>7. HasTokens(W)
    <3>1. \A k \in 0..Len(text) + 1: k < i \/ k = i \/ k > i  OBVIOUS
    <3>2. \A k \in 0..Len(text) + 1: k + 1 \in Int  OBVIOUS
    <3>3. y \o x \in Seq(TextUnits)  BY <2>5, <2>6, ConcatParts
    <3>4. \A k \in 0..Len(text) + 1: W[k] \in Seq(TextUnits)
      BY <2>3, <2>4, <3>1, <3>2, <3>3 DEF TokensType
    <3> QED  BY <2>2, <3>4 DEF HasTokens
  <2> DEFINE F == KeptIn(tokens)
  <2>8. \A k \in Nat: F[k] \in Seq(TextUnits) /\ F[k] = Unbracketed(Of(tokens, k))  BY <1>2, KeptOf
  <2> HIDE DEF F
  <2>9. i \in Nat /\ i + 1 \in Nat /\ i \in 0..Len(text) + 1 /\ i \in Int  BY <1>1
  <2>10. F[i] = Unbracketed(<<"struct">>) /\ F[i + 1] = Unbracketed(x)
    <3>1. Of(tokens, i) = <<"struct">>  BY <1>2, <1>4, <2>9, OfIs
    <3> QED  BY <2>8, <2>9, <3>1 DEF x, Tok
  <2>11. Unbracketed(W[i]) = F[i] \o F[i + 1]
    <3>1. Unbracketed(y \o x) = Unbracketed(y) \o Unbracketed(x)  BY <2>5, <2>6, KeptConcat
    <3> QED  BY <2>3, <2>6, <2>10, <3>1
  <2>12. Joined(F, i) \in Seq(TextUnits) /\ Joined(F, i + 1) = Joined(F, i) \o F[i]
         /\ Joined(F, i + 1 + 1) = Joined(F, i + 1) \o F[i + 1]
    <3>1. \A k \in 0..i: k \in Nat  OBVIOUS
    <3>2. \A k \in 0..i + 1: k \in Nat  OBVIOUS
    <3>3. \A k \in 0..i - 1: k \in Nat  OBVIOUS
    <3>4. \A k \in 0..i - 1: F[k] \in Seq(TextUnits)  BY <2>8, <3>3
    <3>5. \A k \in 0..i: F[k] \in Seq(TextUnits)  BY <2>8, <3>1
    <3>6. \A k \in 0..i + 1: F[k] \in Seq(TextUnits)  BY <2>8, <3>2
    <3>7. Joined(F, i) \in Seq(TextUnits)  BY <2>9, <3>4, JoinedIs
    <3>8. Joined(F, i + 1) = Joined(F, i) \o F[i]  BY <2>9, <3>5, <3>7, JoinedStep
    <3>9. Joined(F, i + 1) \in Seq(TextUnits)  BY <2>8, <2>9, <3>7, <3>8, ConcatParts
    <3> DEFINE j == i + 1
    <3>10. j \in Nat /\ (\A k \in 0..j: F[k] \in Seq(TextUnits)) /\ Joined(F, j) \in Seq(TextUnits)
      BY <2>9, <3>6, <3>9
    <3> HIDE DEF j
    <3>11. Joined(F, j + 1) = Joined(F, j) \o F[j]  BY <3>10, JoinedStep
    <3> QED  BY <3>7, <3>8, <3>11 DEF j
  <2>13. Joined(F, i) \o (F[i] \o F[i + 1]) = Joined(F, i + 1 + 1)
    <3>1. F[i] \in Seq(TextUnits) /\ F[i + 1] \in Seq(TextUnits)  BY <2>8, <2>9
    <3>2. Associates(TextUnits)  BY Reassociate
    <3>3. (Joined(F, i) \o F[i]) \o F[i + 1] = Joined(F, i) \o (F[i] \o F[i + 1])
      BY <2>12, <3>1, <3>2 DEF Associates
    <3> QED  BY <2>12, <3>3
  <2>14. TokensMergedAt(tokens, W, i, i + 2)
    <3>1. \A k \in 0..i - 1: k \in 0..Len(text) + 1 /\ k < i  BY <1>1
    <3>2. \A k \in 0..i - 1: W[k] = tokens[k]  BY <2>3, <3>1
    <3>3. \A k \in i + 1..Len(text) + 1: k \in 0..Len(text) + 1 /\ k > i /\ k + (i + 2 - i - 1) = k + 1
      BY <1>1
    <3>4. \A k \in i + 1..Len(text) + 1: W[k] = Of(tokens, k + (i + 2 - i - 1))
      BY <2>3, <3>3 DEF Tok
    <3>5. i + 2 = i + 1 + 1  OBVIOUS
    <3>6. Joined(F, i) \o Unbracketed(W[i]) = Joined(F, i + 2)  BY <2>11, <2>13, <3>5
    <3> QED  BY <3>2, <3>4, <3>6 DEF TokensMergedAt, F
  <2>15. i + 2 \in Nat /\ i < i + 2  OBVIOUS
  <2>16. ValueOf(W) = ValueOf(tokens)  BY <1>2, <2>7, <2>9, <2>14, <2>15, TokensMerged
  <2> QED  BY <2>1, <2>7, <2>16
<1> QED  BY <1>3, <1>4

(* As RunRightIs, to the left. *)
LEMMA RunLeftIs ==
  ASSUME NEW n \in Nat, n = Len(text), NEW ts, DOMAIN ts = 0..n + 1, NEW k \in -1..n, NEW t, t # << >>
  PROVE  /\ Run(ts, k, -1, t) \in 0..n + 2
         /\ \A m \in 0..Run(ts, k, -1, t) - 1: Of(ts, k - m) = t
<1> DEFINE T == {m \in 0..n + 2: Of(ts, k + (-1) * m) # t}
<1>1. k + (-1) * (n + 2) \notin DOMAIN ts /\ n + 2 \in 0..n + 2  OBVIOUS
<1>2. n + 2 \in T /\ T \in SUBSET Nat
  <2>1. Of(ts, k + (-1) * (n + 2)) # t  BY <1>1, Zenon DEF Of
  <2> QED  BY <1>1, <2>1
<1>3. PICK m \in T: \A y \in T: m <= y  BY <1>2, LeastNat
<1>4. \A y \in 0..m - 1: Of(ts, k + (-1) * y) = t
  <2>1. \A y \in 0..m - 1: y \in 0..n + 2 /\ ~(m <= y)  BY <1>3
  <2> QED  BY <1>3, <2>1
<1>5. \E y \in 0..n + 2: Of(ts, k + (-1) * y) # t /\ \A z \in 0..y - 1: Of(ts, k + (-1) * z) = t
  <2>1. m \in 0..n + 2 /\ Of(ts, k + (-1) * m) # t  BY <1>3
  <2> QED  BY <1>4, <2>1
<1> DEFINE r == Run(ts, k, -1, t)
<1>6. r \in 0..n + 2 /\ \A z \in 0..r - 1: Of(ts, k + (-1) * z) = t
  BY <1>5 DEF Run
<1> HIDE DEF r
<1>7. \A z \in 0..r - 1: k + (-1) * z = k - z  BY <1>6
<1>8. r \in 0..n + 2 /\ \A z \in 0..r - 1: Of(ts, k - z) = t  BY <1>6, <1>7
<1> QED  BY <1>8 DEF r

(* m brackets before token i, as many behind it, and the token after them. *)
Bracketed(V, W, i, m) ==
  /\ \A j \in i - m..i - 1: V[j] = <<"(">>
  /\ \A j \in i + 1..i + m: Of(V, j) = <<")">>
  /\ \A k \in 0..i - m - 1: W[k] = V[k]
  /\ \A k \in i - m + 1..Len(text) + 1: W[k] = Of(V, k + m + m + 1)
  /\ W[i - m] = V[i - m] \o V[i] \o Of(V, i + 1) \o Of(V, i + m + 1)

LEMMA BracketsKept ==
  ASSUME RoomInv, NEW V, HasTokens(V), NEW W, HasTokens(W), NEW i \in 0..Len(text) + 1,
         NEW m \in Nat \ {0}, m <= i, Bracketed(V, W, i, m)
  PROVE  ValueOf(W) = ValueOf(V)
<1>0. /\ \A j \in i - m..i - 1: V[j] = <<"(">>
      /\ \A j \in i + 1..i + m: Of(V, j) = <<")">>
      /\ \A k \in 0..i - m - 1: W[k] = V[k]
      /\ \A k \in i - m + 1..Len(text) + 1: W[k] = Of(V, k + m + m + 1)
      /\ W[i - m] = V[i - m] \o V[i] \o Of(V, i + 1) \o Of(V, i + m + 1)
  BY DEF Bracketed
<1>1. Len(text) \in Nat  BY TextLen DEF RoomInv
<1> DEFINE p == i - m
           a == i + 1
           c == i + m + 1
           b == i + m + 2
           F == KeptIn(V)
<1>2. /\ p \in Nat /\ a \in Nat /\ c \in Nat /\ b \in Nat /\ i \in Nat /\ p < i /\ p < b
      /\ a <= c /\ p \in 0..Len(text) + 1
      /\ c + 1 = b /\ i + 1 = a
  BY <1>1
<1>3. \A k \in Nat: F[k] \in Seq(TextUnits) /\ F[k] = Unbracketed(Of(V, k))  BY KeptOf
<1>4. \A j \in p..i - 1: j \in Nat /\ j \in 0..Len(text) + 1 /\ j \in i - m..i - 1  BY <1>1
<1>5. \A j \in a..c - 1: j \in Nat /\ j \in i + 1..i + m  BY <1>1
<1>6. /\ \A k \in 0..Len(text) + 1: Of(V, k) = V[k]
      /\ \A k \in Int: Of(V, k) \in Seq(TextUnits)
  BY OfIs
<1>7. Unbracketed(<<"(">>) = << >> /\ Unbracketed(<<")">>) = << >>  BY KeptMark
<1> HIDE DEF F
<1>8. \A j \in p..i - 1: F[j] = << >>
  <2> SUFFICES ASSUME NEW j \in p..i - 1 PROVE F[j] = << >>  OBVIOUS
  <2>1. V[j] = <<"(">> /\ Of(V, j) = V[j] /\ j \in Nat  BY <1>0, <1>4, <1>6
  <2>2. F[j] = Unbracketed(Of(V, j))  BY <1>3, <2>1
  <2> QED  BY <1>7, <2>1, <2>2
<1>9. \A j \in a..c - 1: F[j] = << >>
  <2> SUFFICES ASSUME NEW j \in a..c - 1 PROVE F[j] = << >>  OBVIOUS
  <2>1. Of(V, j) = <<")">> /\ j \in Nat  BY <1>0, <1>5
  <2>2. F[j] = Unbracketed(Of(V, j))  BY <1>3, <2>1
  <2> QED  BY <1>7, <2>1, <2>2
<1>10. W[p] = V[p] \o V[i] \o Of(V, a) \o Of(V, c)  BY <1>0
<1>11. V[p] = <<"(">> /\ Of(V, a) = <<")">>
  <2>1. i - m \in i - m..i - 1 /\ i + 1 \in i + 1..i + m  BY <1>2
  <2> QED  BY <1>0, <2>1
<1>12. \A k \in p + 1..Len(text) + 1: k \in i - m + 1..Len(text) + 1 /\ k + m + m + 1 = k + (b - p - 1)
  BY <1>1
<1>13. \A k \in 0..p - 1: W[k] = V[k]  BY <1>0
<1>14. \A k \in p + 1..Len(text) + 1: W[k] = Of(V, k + (b - p - 1))  BY <1>0, <1>12
<1> HIDE DEF p, a, b, c
<1>15. Unbracketed(W[p]) = F[i] \o F[c]
  <2> DEFINE x == V[i]
             y == Of(V, c)
             l == <<"(">>
             r == <<")">>
  <2>1. x \in Seq(TextUnits) /\ y \in Seq(TextUnits)
        /\ l \in Seq(TextUnits) /\ r \in Seq(TextUnits)
    <3>1. i \in 0..Len(text) + 1 /\ p \in Int /\ a \in Int /\ c \in Int  BY <1>2
    <3>2. Of(V, p) = V[p]  BY <1>2, <1>6
    <3>3. Of(V, p) \in Seq(TextUnits) /\ Of(V, a) \in Seq(TextUnits) /\ y \in Seq(TextUnits)
      BY <1>6, <3>1
    <3> QED  BY <1>11, <3>1, <3>2, <3>3 DEF HasTokens
  <2>2. F[i] = Unbracketed(x) /\ F[c] = Unbracketed(y)  BY <1>2, <1>3, <1>6
  <2>3. W[p] = l \o x \o r \o y  BY <1>10, <1>11
  <2>4. Unbracketed(l) = << >> /\ Unbracketed(r) = << >>  BY <1>7
  <2> HIDE DEF x, y, l, r
  <2>5. \A u, v \in Seq(TextUnits): u \o v \in Seq(TextUnits) /\ Unbracketed(u \o v) = Unbracketed(u) \o Unbracketed(v)
    <3>1. \A u, v \in Seq(TextUnits): u \o v \in Seq(TextUnits)  BY ConcatParts
    <3> QED  BY <3>1, KeptConcat
  <2>6. l \o x \in Seq(TextUnits) /\ l \o x \o r \in Seq(TextUnits)  BY <2>1, <2>5
  <2>7. Unbracketed(l \o x \o r \o y) = ((<< >> \o Unbracketed(x)) \o << >>) \o Unbracketed(y)
    <3>1. Unbracketed(l \o x) = Unbracketed(l) \o Unbracketed(x)  BY <2>1, <2>5
    <3>2. Unbracketed(l \o x \o r) = Unbracketed(l \o x) \o Unbracketed(r)  BY <2>1, <2>5, <2>6
    <3>3. Unbracketed(l \o x \o r \o y) = Unbracketed(l \o x \o r) \o Unbracketed(y)  BY <2>1, <2>5, <2>6
    <3> QED  BY <2>4, <3>1, <3>2, <3>3
  <2>8. Unbracketed(x) \in Seq(TextUnits)  BY <2>1, KeptIs
  <2>9. << >> \o Unbracketed(x) = Unbracketed(x) /\ Unbracketed(x) \o << >> = Unbracketed(x)
    BY <2>8, ConcatEmptySeq
  <2> QED  BY <2>2, <2>3, <2>7, <2>9
<1>16. Joined(F, i) = Joined(F, p)
  <2>1. \A k \in 0..i - 1: k \in Nat  BY <1>2
  <2>2. \A k \in 0..i - 1: F[k] \in Seq(TextUnits)  BY <1>3, <2>1
  <2> QED  BY <1>2, <1>8, <2>2, JoinedNothing
<1>17. \A k \in Nat: Joined(F, k) \in Seq(TextUnits) /\ Joined(F, k + 1) = Joined(F, k) \o F[k]
  <2> SUFFICES ASSUME NEW k \in Nat
               PROVE  Joined(F, k) \in Seq(TextUnits) /\ Joined(F, k + 1) = Joined(F, k) \o F[k]
    OBVIOUS
  <2>1. (\A j \in 0..k - 1: j \in Nat) /\ (\A j \in 0..k: j \in Nat)  OBVIOUS
  <2>2. \A j \in 0..k - 1: F[j] \in Seq(TextUnits)  BY <1>3, <2>1
  <2>3. \A j \in 0..k: F[j] \in Seq(TextUnits)  BY <1>3, <2>1
  <2>4. Joined(F, k) \in Seq(TextUnits)  BY <2>2, JoinedIs
  <2> QED  BY <2>3, <2>4, JoinedStep
<1>18. Joined(F, c) = Joined(F, a)
  <2>1. \A k \in 0..c - 1: k \in Nat  BY <1>2
  <2>2. \A k \in 0..c - 1: F[k] \in Seq(TextUnits)  BY <1>3, <2>1
  <2> QED  BY <1>2, <1>9, <2>2, JoinedNothing, SMTT(60)
<1>19. Joined(F, b) = (Joined(F, p) \o F[i]) \o F[c]
  <2>1. Joined(F, c + 1) = Joined(F, c) \o F[c]  BY <1>2, <1>17
  <2>2. Joined(F, i + 1) = Joined(F, i) \o F[i]  BY <1>2, <1>17
  <2> QED  BY <1>2, <1>16, <1>18, <2>1, <2>2
<1>20. Joined(F, p) \o (F[i] \o F[c]) = Joined(F, b)
  <2>1. Associates(TextUnits)  BY Reassociate
  <2>2. Joined(F, p) \in Seq(TextUnits) /\ F[i] \in Seq(TextUnits) /\ F[c] \in Seq(TextUnits)
    BY <1>2, <1>3, <1>17
  <2> QED  BY <1>19, <2>1, <2>2 DEF Associates
<1>21. Joined(F, p) \o Unbracketed(W[p]) = Joined(F, b)  BY <1>15, <1>20
<1>22. TokensMergedAt(V, W, p, b)  BY <1>13, <1>14, <1>21 DEF TokensMergedAt, F
<1> QED  BY <1>2, <1>22, TokensMerged

LEMMA ResetKeeps ==
  ASSUME Going, lexed \in {"casts", "structs"}, NEW i \in Nat, i \in Filled, i + 1 \in Filled,
         PlainCast(i), ResetTokens(i)
  PROVE  KeptInv'
<1>1. RoomInv /\ RoomInv' /\ Sound  BY DEF Going, KeptInv, Working
<1>2. Len(text) \in Nat /\ DOMAIN tokens = 0..Len(text) + 1  BY <1>1, TextLen DEF RoomInv
<1>3. i \in 0..Len(text) /\ i \in 0..Len(text) + 1  BY <1>2 DEF Filled
<1>4. ASSUME UNCHANGED <<text, start, row, lexed, made>>, HasTokens(tokens'), ValueOf(tokens') = ValueOf(tokens)
      PROVE  KeptInv'
  <2>1. TokensType'  BY <1>4 DEF HasTokens, TokensType, TextUnits
  <2>2. ValueOf(tokens) = Unbracketed(Span(1, start))  BY <1>1 DEF Sound, ReadStands, ValueOf
  <2>3. ReadStands'  BY <1>4, <2>2 DEF ReadStands, ValueOf, Cells, Span
  <2>4. AtEnd'  BY <1>1, <1>4 DEF Sound, AtEnd
  <2>5. NoHoles' /\ NoneBehind' /\ WordBefore'  BY <1>4 DEF NoHoles, NoneBehind, WordBefore
  <2> QED  BY <1>1, <2>1, <2>3, <2>4, <2>5 DEF Sound, KeptInv
<1>5. ASSUME Returns("refused") \/ Returns("loops") PROVE KeptInv'
  <2>1. ~Working'  BY <1>5 DEF Returns, Working
  <2> QED  BY <1>1, <2>1 DEF KeptInv
<1> DEFINE V     == StructNamed(i)
           right == Run(V, i + 1, 1, <<")">>)
           run   == Run(V, i - 1, -1, <<"(">>)
           left  == IF i - 1 - run <= 0 \/ EndsInWord(Of(V, i - 1 - run)) THEN right ELSE run
           next  == Of(V, i + 2)
           opens == next # << >> /\ next[1] = "("
           inner == Run(V, i + 2, 1, <<"(">>)
           ts    == [k \in DOMAIN V |-> IF ~opens \/ k < i + 2 THEN V[k]
                                        ELSE IF k = i + 2 THEN Of(V, i + 2 + inner) ELSE << >>]
           W     == [k \in DOMAIN ts |->
                IF k < i - left THEN ts[k]
                ELSE IF k > i - left THEN Of(ts, k + left + right + 1)
                ELSE ts[k] \o ts[i] \o Of(ts, i + 1) \o Of(ts, i + right + 1)]
<1>6. HasTokens(V) /\ ValueOf(V) = ValueOf(tokens)  BY <1>1, <1>3, NamedKept, SMTT(60) DEF Sound
<1>7. \/ Returns("refused") \/ Returns("loops")
      \/ tokens' = V /\ UNCHANGED <<text, start, row, lexed, made>>
      \/ left = right /\ tokens' = W /\ UNCHANGED <<text, start, row, lexed, made>>
  BY DEF ResetTokens
<1>8. right \in 1..run /\ ~opens  BY DEF PlainCast
<1>9. DOMAIN V = 0..Len(text) + 1 /\ \A k \in 0..Len(text) + 1: V[k] \in Seq(TextUnits)
  BY <1>6 DEF HasTokens
<1> HIDE DEF V
<1>10. DOMAIN ts = 0..Len(text) + 1 /\ \A k \in 0..Len(text) + 1: ts[k] = V[k]
  <2> HIDE DEF opens, inner
  <2> QED  BY <1>8, <1>9
<1> HIDE DEF ts
<1>11. \A k: Of(ts, k) = Of(V, k)  BY <1>9, <1>10, Zenon DEF Of
<1>12. /\ \A k \in 0..Len(text) + 1: Of(V, k) = V[k]
       /\ \A k \in Int: Of(V, k) \in Seq(TextUnits)
       /\ \A k \in Int: Of(V, k) # << >> => k \in 0..Len(text) + 1
  BY <1>1, <1>6, OfIs
<1>13. right \in Nat /\ \A j \in 0..right - 1: Of(V, i + 1 + j) = <<")">>
  <2>1. i + 1 \in Nat /\ <<")">> # << >>  OBVIOUS
  <2> QED  BY <1>2, <1>9, <2>1, RunRightIs, SMTT(60)
<1>14. run \in Nat /\ \A j \in 0..run - 1: Of(V, i - 1 - j) = <<"(">>
  <2> DEFINE h == i - 1
             t == <<"(">>
             r == Run(V, h, -1, t)
  <2>1. h \in -1..Len(text) /\ t # << >>  BY <1>3
  <2> HIDE DEF h, t
  <2>2. r \in 0..Len(text) + 2 /\ \A j \in 0..r - 1: Of(V, h - j) = t
    BY <1>2, <1>9, <2>1, RunLeftIs
  <2> QED  BY <2>2 DEF h, t
<1> HIDE DEF right, run
<1>15. right \in Nat \ {0} /\ right <= run /\ right - 1 \in 0..run - 1
  BY <1>8, <1>13, <1>14
<1>16. right <= i
  <2>1. i - 1 - (right - 1) = i - right /\ i - right \in Int  BY <1>15
  <2> DEFINE j == right - 1
             t == <<"(">>
             h == i - right
  <2>2. Of(V, i - 1 - j) = t  BY <1>14, <1>15
  <2>3. Of(V, h) # << >> /\ h \in Int
    <3>1. i - 1 - j = h /\ h \in Int  BY <1>15
    <3>2. t # << >>  OBVIOUS
    <3> HIDE DEF j, h, t
    <3>3. Of(V, h) = t  BY <2>2, <3>1
    <3> QED  BY <3>1, <3>2, <3>3
  <2> HIDE DEF h
  <2>4. h \in 0..Len(text) + 1  BY <1>12, <2>3
  <2> QED  BY <1>15, <2>4 DEF h
<1>17. CASE left = right /\ tokens' = W /\ UNCHANGED <<text, start, row, lexed, made>>
  <2> DEFINE m == right
             p == i - m
  <2>1. p \in 0..Len(text) + 1 /\ p < i /\ p \in Int  BY <1>2, <1>3, <1>15, <1>16
  <2>2. DOMAIN W = 0..Len(text) + 1  BY <1>10
  <2>3. W[p] = V[p] \o V[i] \o Of(V, i + 1) \o Of(V, i + m + 1)
    <3>1. ~(p < i - left) /\ ~(p > i - left)  BY <1>17, <2>1
    <3>2. W[p] = ts[p] \o ts[i] \o Of(ts, i + 1) \o Of(ts, i + right + 1)  BY <1>10, <2>1, <3>1
    <3> HIDE DEF W
    <3>3. ts[p] = V[p] /\ ts[i] = V[i]  BY <1>3, <1>10, <2>1
    <3>4. Of(ts, i + 1) = Of(V, i + 1) /\ Of(ts, i + right + 1) = Of(V, i + right + 1)  BY <1>11
    <3> QED  BY <3>2, <3>3, <3>4
  <2>4. \A k \in 0..p - 1: W[k] = V[k]
    <3>1. \A k \in 0..p - 1: k \in 0..Len(text) + 1 /\ k < i - left  BY <1>2, <1>17, <2>1
    <3> QED  BY <1>10, <3>1
  <2>5. \A k \in p + 1..Len(text) + 1: W[k] = Of(V, k + m + m + 1)
    <3>1. \A k \in p + 1..Len(text) + 1: k \in 0..Len(text) + 1 /\ ~(k < i - left) /\ k > i - left
      BY <1>2, <1>17, <2>1
    <3>2. \A k \in p + 1..Len(text) + 1: W[k] = Of(ts, k + left + right + 1)  BY <1>10, <3>1
    <3> HIDE DEF W
    <3>3. \A k \in p + 1..Len(text) + 1: k + left + right + 1 = k + m + m + 1  BY <1>17
    <3> HIDE DEF left
    <3>4. \A k \in p + 1..Len(text) + 1: W[k] = Of(ts, k + m + m + 1)  BY <3>2, <3>3
    <3> QED  BY <1>11, <3>4
  <2> HIDE DEF W, left
  <2>6. \A j \in p..i - 1: V[j] = <<"(">>
    <3> SUFFICES ASSUME NEW j \in p..i - 1 PROVE V[j] = <<"(">>  OBVIOUS
    <3>1. i - 1 - j \in 0..run - 1 /\ i - 1 - (i - 1 - j) = j /\ j \in 0..Len(text) + 1
      BY <1>2, <1>3, <1>14, <1>15, <2>1
    <3>2. Of(V, j) = <<"(">>  BY <1>14, <3>1
    <3> QED  BY <1>12, <3>1, <3>2
  <2>7. \A j \in i + 1..i + m: Of(V, j) = <<")">>
    <3> SUFFICES ASSUME NEW j \in i + 1..i + m PROVE Of(V, j) = <<")">>  OBVIOUS
    <3>1. j - i - 1 \in 0..right - 1 /\ i + 1 + (j - i - 1) = j  BY <1>15
    <3> QED  BY <1>13, <3>1
  <2>8. HasTokens(W)
    <3>1. \A k \in 0..Len(text) + 1: k \in 0..p - 1 \/ k = p \/ k \in p + 1..Len(text) + 1
      BY <2>1
    <3>2. \A k \in 0..p - 1: k \in 0..Len(text) + 1  BY <1>2, <2>1
    <3>3. \A k \in p + 1..Len(text) + 1: k + m + m + 1 \in Int  BY <1>15, <2>1
    <3>4. W[p] \in Seq(TextUnits)
      <4> DEFINE x == V[p]
                 y == V[i]
                 u == Of(V, i + 1)
                 v == Of(V, i + m + 1)
      <4>1. i + 1 \in Int /\ i + m + 1 \in Int  BY <1>15
      <4>2. x \in Seq(TextUnits) /\ y \in Seq(TextUnits) /\ u \in Seq(TextUnits) /\ v \in Seq(TextUnits)
        BY <1>3, <1>9, <1>12, <2>1, <4>1
      <4>3. W[p] = x \o y \o u \o v  BY <2>3
      <4> HIDE DEF x, y, u, v
      <4>4. \A r, t \in Seq(TextUnits): r \o t \in Seq(TextUnits)  BY ConcatParts
      <4>5. x \o y \in Seq(TextUnits)  BY <4>2, <4>4
      <4>6. x \o y \o u \in Seq(TextUnits)  BY <4>2, <4>4, <4>5
      <4>7. x \o y \o u \o v \in Seq(TextUnits)  BY <4>2, <4>4, <4>6
      <4> QED  BY <4>3, <4>7
    <3>5. \A k \in 0..Len(text) + 1: W[k] \in Seq(TextUnits)
      BY <1>9, <1>12, <2>4, <2>5, <3>1, <3>2, <3>3, <3>4
    <3> QED  BY <2>2, <3>5 DEF HasTokens
  <2>9. Bracketed(V, W, i, m)  BY <2>3, <2>4, <2>5, <2>6, <2>7 DEF Bracketed
  <2>10. ValueOf(W) = ValueOf(V)  BY <1>1, <1>3, <1>6, <1>15, <1>16, <2>8, <2>9, BracketsKept
  <2> QED  BY <1>4, <1>6, <1>17, <2>8, <2>10
<1>18. CASE tokens' = V /\ UNCHANGED <<text, start, row, lexed, made>>
  BY <1>4, <1>6, <1>18
<1> QED  BY <1>5, <1>7, <1>17, <1>18
-----------------------------------------------------------------------------
(* What has been read stands in the tokens *)

LEMMA TextStays == ASSUME MakeTokens PROVE text' = text
<1>1. \A r: Returns(r) => text' = text  BY DEF Returns
<1>2. \A r, t, i: PassEnds(r, t, i) => text' = text  BY <1>1, Zenon DEF PassEnds
<1>3. CASE Twice \/ StepBefore \/ StepAfter \/ Double \/ Arrow \/ Ampersand
  BY <1>1, <1>2, <1>3, Zenon DEF Twice, StepBefore, StepAfter, Double, Arrow, Ampersand
<1>4. CASE PointerType \/ LastStar \/ BeyondArray \/ Star \/ FirstStar
  BY <1>1, <1>2, <1>4, Zenon DEF PointerType, LastStar, BeyondArray, Star, FirstStar
<1>5. CASE PrefixedBracket \/ Bracket \/ Quoted \/ OtherOp
  BY <1>1, <1>2, <1>5, Zenon DEF PrefixedBracket, Bracket, Quoted, OtherOp
<1>6. CASE Spaces \/ Name
  BY <1>1, <1>2, <1>6, Zenon DEF Spaces, Name
<1>7. CASE LastWords \/ NextWord \/ LastWord \/ Whole
  BY <1>7, Zenon DEF LastWords, NextWord, LastWord, Whole
<1>8. \A i: ResetTokens(i) => text' = text  BY <1>1, Zenon DEF ResetTokens
<1>9. CASE Cast \/ Casts \/ Struct \/ Done
  BY <1>1, <1>8, <1>9, Zenon DEF Cast, Casts, Struct, Done
<1> QED  BY <1>3, <1>4, <1>5, <1>6, <1>7, <1>9, Zenon DEF MakeTokens, Pass

LEMMA CastsKeep ==
  ASSUME Going, Cast \/ Casts \/ Struct \/ Done
  PROVE  KeptInv'
<1>1. RoomInv /\ RoomInv' /\ Orderly  BY DEF Going, KeptInv
<1>2. CASE Cast
  <2>1. lexed = "casts" /\ TypeSpecifier # -1 /\ ResetTokens(TypeSpecifier)  BY <1>2 DEF Cast
  <2>2. PlainCast(TypeSpecifier)  BY <1>1, <2>1 DEF Orderly
  <2>3. TypeSpecifier \in Nat /\ TypeSpecifier \in Filled /\ TypeSpecifier + 1 \in Filled
    BY <1>1, <2>1, TypeSpecifierIs
  <2> QED  BY <2>1, <2>2, <2>3, ResetKeeps
<1>3. CASE Struct
  <2>1. lexed = "structs" /\ StructSpecifier # -1 /\ ResetTokens(StructSpecifier)  BY <1>3 DEF Struct
  <2>2. PlainCast(StructSpecifier)  BY <1>1, <2>1 DEF Orderly
  <2>3. StructSpecifier \in Nat /\ StructSpecifier \in Filled /\ StructSpecifier + 1 \in Filled
    BY <1>1, <2>1, StructSpecifierIs
  <2> QED  BY <2>1, <2>2, <2>3, ResetKeeps
<1>4. CASE Casts
  <2>1. lexed = "casts" /\ lexed' = "structs" /\ UNCHANGED <<text, start, row, tokens, made>>
    BY <1>4 DEF Casts, Returns
  <2>2. Sound  BY <2>1 DEF Going, KeptInv, Working
  <2>3. TokensType' /\ ReadStands' /\ AtEnd'
    BY <2>1, <2>2 DEF Sound, TokensType, ReadStands, AtEnd, TextUnits, Cells, Span
  <2>4. NoHoles' /\ NoneBehind' /\ WordBefore'  BY <2>1 DEF NoHoles, NoneBehind, WordBefore
  <2> QED  BY <1>1, <2>3, <2>4 DEF KeptInv, Sound
<1>5. CASE Done
  <2>1. ~Working'  BY <1>5 DEF Done, Working
  <2> QED  BY <1>1, <2>1 DEF KeptInv
<1> QED  BY <1>2, <1>3, <1>4, <1>5

LEMMA StepKeeps ==
  ASSUME TextInv, Orderly, MakeTokens
  PROVE  TextInv'
<1>1. LexInv /\ LexInv' /\ text' = text  BY LexOnward, TextStays DEF TextInv, KeptInv, LexInv
<1>2. CASE Undefined(text)
  <2>1. Undefined(text')  BY <1>1, <1>2
  <2> QED  BY <1>1, <2>1 DEF TextInv, KeptInv, LexInv
<1>3. CASE ~Undefined(text)
  <2>1. KeptInv /\ RoomInv  BY <1>3 DEF TextInv, KeptInv, Again
  <2>2. ~LastStar  BY <1>3, <2>1, LastStarAgain DEF Again
  <2>3. Going  BY <1>3, <2>1, <2>2, StepOnward DEF Going
  <2>4. ~BeyondArray  BY <2>1, WithinArray DEF BeyondArray
  <2>5. KeptInv'
    BY <2>2, <2>3, <2>4, StepsKeep, StarsKeep, PrefixedBracketKeeps, OthersKeep, WordsKeep, NameKeeps,
       LastWordKeeps, WholeKeeps, CastsKeep
    DEF MakeTokens, Pass
  <2> QED  BY <2>5 DEF TextInv
<1> QED  BY <1>2, <1>3

LEMMA StartsKept == ASSUME LexInit PROVE KeptInv
<1>1. RoomInv  BY StartsWithRoom
<1>2. Len(text) \in Nat \ {0} /\ Cells \in Nat /\ Cells = Len(text) + 2
  BY <1>1, TextLen DEF RoomInv, Cells
<1>3. start = 1 /\ row = 0 /\ \A k \in 0..Len(text) + 1: tokens[k] = << >>  BY DEF LexInit
<1>4. << >> \in Seq(TextUnits)  BY EmptySeq
<1>5. TokensType  BY <1>3, <1>4 DEF TokensType
<1>6. ReadStands
  <2>1. \A k \in 0..Cells - 1: k \in 0..Len(text) + 1  BY <1>2
  <2>2. \A k \in 0..Cells - 1: tokens[k] = << >> /\ tokens[k] \in Seq(TextUnits)  BY <1>3, <1>4, <2>1
  <2>3. 0 \in Nat /\ Cells >= 0  BY <1>2
  <2>4. Joined(tokens, Cells) = Joined(tokens, 0)  BY <1>2, <2>2, <2>3, JoinedNothing
  <2>5. \A k \in 0..0 - 1: tokens[k] \in Seq(TextUnits)  OBVIOUS
  <2>6. Joined(tokens, 0) = << >>  BY <2>3, <2>5, JoinedIs
  <2>7. Span(1, start) = << >>
    <3>1. Span(1, start) = SubSeq(text, 1, 0)  BY <1>3 DEF Span
    <3>2. text \in Seq(Range(text))  BY <1>1 DEF RoomInv, TextIs
    <3> QED  BY <3>1, <3>2
  <2> QED  BY <2>4, <2>6, <2>7 DEF ReadStands
<1>7. NoHoles /\ NoneBehind
  <2>1. \A k \in row + 1..Len(text) + 1: k \in 0..Len(text) + 1  BY <1>2, <1>3
  <2> QED  BY <1>2, <1>3, <2>1 DEF NoHoles, NoneBehind
<1>8. WordBefore /\ AtEnd  BY DEF LexInit, WordBefore, AtEnd
<1> QED  BY <1>1, <1>5, <1>6, <1>7, <1>8 DEF KeptInv, Sound

LEMMA SameText ==
  ASSUME TextInv, UNCHANGED lexVars
  PROVE  TextInv'
<1>1. CASE KeptInv
  <2>1. KeptInv'
    BY <1>1 DEF lexVars, KeptInv, RoomInv, TextIs, Working, Sound, TokensType, ReadStands, NoHoles, NoneBehind,
                WordBefore, AtEnd, TextUnits, Cells, Span, Cur, Tok
  <2> QED  BY <2>1 DEF TextInv
<1>2. CASE Again
  <2>1. Again'  BY <1>2 DEF lexVars, Again, TextIs
  <2> QED  BY <2>1 DEF TextInv
<1> QED  BY <1>1, <1>2 DEF TextInv

LEMMA TextInvShows == TextInv => TextKept
<1>1. KeptInv => TextKept  BY DEF KeptInv, Sound, ReadStands, TextKept, Joined, Span, Cells
<1>2. Again => TextKept  BY DEF Again, TextKept
<1> QED  BY <1>1, <1>2 DEF TextInv

(* Of a text that is read in its order, make_tokens loses nothing: what it *)
(* has read stands in the tokens, in the order it was written, but for the *)
(* spaces and brackets it takes away.                                      *)
THEOREM TextKeptCorrect == LexSpec /\ []Orderly => []TextKept
<1>1. LexInit => TextInv  BY StartsKept DEF TextInv
<1>2. TextInv /\ Orderly /\ [MakeTokens]_lexVars => TextInv'
  <2> SUFFICES ASSUME TextInv, Orderly, [MakeTokens]_lexVars PROVE TextInv'  OBVIOUS
  <2>1. CASE MakeTokens  BY <2>1, StepKeeps
  <2>2. CASE UNCHANGED lexVars  BY <2>2, SameText
  <2> QED  BY <2>1, <2>2
<1>3. TextInv => TextKept  BY TextInvShows
<1> QED  BY <1>1, <1>2, <1>3, PTL DEF LexSpec

-----------------------------------------------------------------------------
(* A text becomes a tree. *)

LEMMA ListEnds ==
  ASSUME RoomInv, Working
  PROVE  \E n \in Nat: DOMAIN List(tokens) = 1..n
<1>1. Len(text) \in Nat  BY TextLen DEF RoomInv
<1>2. DOMAIN tokens = 0..Len(text) + 1 /\ tokens[Len(text) + 1] = << >>  BY DEF RoomInv
<1> DEFINE T == {n \in 0..Len(text) + 1: tokens[n] = << >>}
           P(n) == Of(tokens, n) = << >> /\ \A k \in 0..n - 1: tokens[k] # << >>
           N == CHOOSE n \in 0..Len(text) + 2: P(n)
<1>3. T \in SUBSET Nat /\ Len(text) + 1 \in T  BY <1>1, <1>2
<1>4. PICK m \in T: \A y \in T: m <= y  BY <1>3, LeastNat
<1>5. m \in 0..Len(text) + 1 /\ tokens[m] = << >> /\ m \in 0..Len(text) + 2  BY <1>1, <1>4
<1>6. P(m)
  <2>1. Of(tokens, m) = << >>  BY <1>2, <1>5 DEF Of
  <2>2. ASSUME NEW k \in 0..m - 1 PROVE tokens[k] # << >>
    <3>1. k \in 0..Len(text) + 1 /\ ~(m <= k)  BY <1>1, <1>5
    <3> QED  BY <1>4, <3>1
  <2> QED  BY <2>1, <2>2
<1>7. N \in 0..Len(text) + 2
  <2> HIDE DEF P
  <2> QED  BY <1>5, <1>6
<1>8. List(tokens) = [k \in 1..N |-> tokens[k - 1]]  BY Zenon DEF List
<1> HIDE DEF N
<1>9. N \in Nat /\ DOMAIN List(tokens) = 1..N  BY <1>1, <1>7, <1>8
<1> QED  BY <1>9

LEMMA OnlyDoneEnds ==
  ASSUME MakeTokens, ~Name, ~Done
  PROVE  lexed' \in {lexed, "refused", "crash", "loops", "last", "casts", "structs"}
<1> DEFINE Goes == lexed' \in {lexed, "refused", "crash", "loops", "last", "casts", "structs"}
<1>1. \A r: Returns(r) => lexed' = r  BY DEF Returns
<1>2. \A r, t, i: PassEnds(r, t, i) => Goes
  <2>1. \A r, t, i: PassEnds(r, t, i) => lexed' = "refused" \/ lexed' = lexed
    BY <1>1, Zenon DEF PassEnds
  <2> QED  BY <2>1
<1>3. /\ Returns("refused") => Goes
      /\ Returns("crash") => Goes
      /\ Returns("loops") => Goes
      /\ Returns("structs") => Goes
      /\ lexed' = lexed => Goes
      /\ lexed' = "last" => Goes
      /\ lexed' = "casts" => Goes
      /\ lexed' = "refused" => Goes
  BY <1>1
<1> SUFFICES Goes  OBVIOUS
<1> HIDE DEF Goes
<1>4. CASE Twice \/ StepBefore \/ StepAfter \/ Double \/ Arrow \/ Ampersand
  BY <1>2, <1>3, <1>4, Zenon DEF Twice, StepBefore, StepAfter, Double, Arrow, Ampersand
<1>5. CASE PointerType \/ LastStar \/ BeyondArray \/ Star \/ FirstStar
  BY <1>2, <1>3, <1>5, Zenon DEF PointerType, LastStar, BeyondArray, Star, FirstStar
<1>6. CASE PrefixedBracket \/ Bracket \/ Quoted \/ OtherOp \/ Spaces
  BY <1>2, <1>3, <1>6, Zenon DEF PrefixedBracket, Bracket, Quoted, OtherOp, Spaces
<1>7. CASE LastWords \/ NextWord \/ LastWord \/ Whole
  BY <1>3, <1>7, Zenon DEF LastWords, NextWord, LastWord, Whole
<1>8. \A i: ResetTokens(i) => Goes  BY <1>3, Zenon DEF ResetTokens
<1>9. CASE Cast \/ Casts \/ Struct
  BY <1>3, <1>8, <1>9, Zenon DEF Cast, Casts, Struct
<1> QED  BY <1>4, <1>5, <1>6, <1>7, <1>9, Zenon DEF MakeTokens, Pass

(* The tokens that make_tokens returns are a sequence. *)
LEMMA MadeIs ==
  ASSUME LexInv, MakeTokens, lexed # "done", lexed' = "done"
  PROVE  made' \in Seq(Range(made'))
<1>1. PICK n \in Nat: DOMAIN made' = 1..n /\ made' = [k \in 1..n |-> made'[k]]
  <2>1. CASE Name
    <3>1. made' = <<FlattenSeq(text)>>
      <4>1. \A r, t, i: PassEnds(r, t, i) => lexed' = "refused" \/ lexed' = lexed
        BY Zenon DEF PassEnds, Returns
      <4>2. ~\E r, t, i: PassEnds(r, t, i)  BY <4>1
      <4> QED  BY <2>1, <4>2, Zenon DEF Name
    <3> DEFINE u == FlattenSeq(text)
    <3>2. made' = <<u>>  BY <3>1
    <3> HIDE DEF u
    <3>3. DOMAIN <<u>> = 1..1 /\ <<u>> = [k \in 1..1 |-> <<u>>[k]] /\ 1 \in Nat  OBVIOUS
    <3> QED  BY <3>2, <3>3
  <2>2. CASE Done
    <3>1. Working  BY <2>2 DEF Done, Working
    <3>0. RoomInv  BY <2>2 DEF Done, LexInv, Again
    <3>2. PICK n \in Nat: DOMAIN List(tokens) = 1..n  BY <3>0, <3>1, ListEnds
    <3>3. made' = [k \in DOMAIN List(tokens) |-> FlattenSeq(List(tokens)[k])]  BY <2>2, Zenon DEF Done
    <3> DEFINE F(k) == FlattenSeq(List(tokens)[k])
    <3>4. made' = [k \in 1..n |-> F(k)]  BY <3>2, <3>3
    <3> HIDE DEF F
    <3> QED  BY <3>4
  <2> QED  BY <2>1, <2>2, OnlyDoneEnds
<1>2. \A k \in 1..n: made'[k] \in Range(made')  BY <1>1 DEF Range
<1>3. [k \in 1..n |-> made'[k]] \in Seq(Range(made'))  BY <1>2
<1> QED  BY <1>1, <1>3

(* A text of which nothing is lost yet: it becomes tokens, then a tree.    *)
BuildInv ==
  /\ TextInv
  /\ ~Building => NoTree
  /\ Building => /\ made \in Seq(Range(made))
                 /\ \E G: Stands(Range(made), G, heap, cur, idx, stack)

LEMMA TreeBegins ==
  made \in Seq(Range(made)) /\ NoTree => \E G: Stands(Range(made), G, heap, cur, idx, stack)
BY NoTreeKept

LEMMA TokensBuild ==
  ASSUME BuildInv, Orderly, MakeTokens, UNCHANGED treeVars
  PROVE  BuildInv'
<1>1. TextInv'  BY StepKeeps DEF BuildInv
<1>2. ~Building
  <2>1. MakeTokens => lexed \in {"reading", "last", "casts", "structs"}
    BY Zenon DEF MakeTokens, Pass, Twice, StepBefore, StepAfter, Double, Arrow, Ampersand, PointerType,
                 LastStar, BeyondArray, Star, FirstStar, PrefixedBracket, Bracket, Quoted, OtherOp, Spaces, Name,
                 LastWords, NextWord, LastWord, Whole, Cast, Casts, Struct, Done, AtOp
  <2> QED  BY <2>1 DEF Building
<1>3. NoTree'  BY <1>2 DEF BuildInv, NoTree, treeVars
<1>4. ASSUME Building'
      PROVE  made' \in Seq(Range(made')) /\ \E G: Stands(Range(made), G, heap, cur, idx, stack)'
  <2>1. lexed # "done" /\ lexed' = "done"  BY <1>2, <1>4 DEF Building
  <2>2. made' \in Seq(Range(made'))  BY <2>1, MadeIs DEF BuildInv, TextInv, KeptInv, LexInv
  <2>3. (made \in Seq(Range(made)) /\ NoTree => \E G: Stands(Range(made), G, heap, cur, idx, stack))'
    BY TreeBegins, PTL
  <2> QED  BY <1>3, <2>2, <2>3
<1> QED  BY <1>1, <1>3, <1>4 DEF BuildInv

LEMMA TreeBuilds ==
  ASSUME BuildInv, InPlace, MakeTree
  PROVE  BuildInv'
<1>1. Building /\ UNCHANGED lexVars
  BY Zenon DEF MakeTree, Operand, CommutativeOperator, OtherOperator, OpenCall, OpenGroup,
               CallReturns, GroupReturns, Returning
<1>2. TextInv'  BY <1>1, SameText DEF BuildInv
<1>3. Building' /\ made' = made  BY <1>1 DEF Building, lexVars
<1>4. PICK G: made \in Seq(Range(made)) /\ Stands(Range(made), G, heap, cur, idx, stack)
  BY <1>1 DEF BuildInv
<1>5. PICK G2: Stands(Range(made), G2, heap', cur', idx', stack')  BY <1>4, MakeTreeKept
<1>6. Stands(Range(made), G2, heap, cur, idx, stack)'
  BY <1>3, <1>5 DEF Stands, AllKept
<1> QED  BY <1>2, <1>3, <1>4, <1>6 DEF BuildInv

LEMMA SameTree ==
  ASSUME BuildInv, UNCHANGED <<lexVars, treeVars>>
  PROVE  BuildInv'
<1>1. UNCHANGED lexVars /\ UNCHANGED treeVars  BY Zenon
<1>2. TextInv'  BY <1>1, SameText DEF BuildInv
<1>3. /\ Building' = Building /\ made' = made
      /\ heap' = heap /\ cur' = cur /\ idx' = idx /\ stack' = stack
  BY <1>1, Zenon DEF Building, lexVars, treeVars
<1>4. ~Building => NoTree'  BY <1>3 DEF BuildInv, NoTree
<1>5. Building => made \in Seq(Range(made)) /\ \E G: Stands(Range(made), G, heap, cur, idx, stack)'
  <2> HAVE Building
  <2>1. PICK G: made \in Seq(Range(made)) /\ Stands(Range(made), G, heap, cur, idx, stack)  BY DEF BuildInv
  <2>2. Stands(Range(made), G, heap, cur, idx, stack)'  BY <1>3, <2>1 DEF Stands, AllKept
  <2> QED  BY <2>1, <2>2
<1> QED  BY <1>2, <1>3, <1>4, <1>5 DEF BuildInv

LEMMA TreeInvShows == BuildInv => TreeKept
<1> SUFFICES ASSUME BuildInv, Building PROVE TreeKept  BY DEF TreeKept
<1>1. PICK G: made \in Seq(Range(made)) /\ Stands(Range(made), G, heap, cur, idx, stack)  BY DEF BuildInv
<1> QED  BY <1>1, KeptShows

(* Of a text that is read in its order, and whose operands are put where   *)
(* they are read, nothing is lost on its way into a tree: neither by       *)
(* make_tokens nor by make_tree, which goes up the tree to find where an   *)
(* operator goes, puts it above whole subtrees, and hangs the tree of a    *)
(* bracket or an argument into that of the call it returns to.             *)
THEOREM NothingLostCorrect == BuildSpec /\ []Orderly /\ []InPlace => []NothingLost
<1>1. BuildInit => BuildInv
  <2> SUFFICES ASSUME BuildInit PROVE BuildInv  OBVIOUS
  <2>1. LexInit /\ NoTree  BY DEF BuildInit
  <2>2. TextInv  BY <2>1, StartsKept DEF TextInv
  <2>3. ~Building  BY <2>1 DEF LexInit, Building
  <2> QED  BY <2>1, <2>2, <2>3 DEF BuildInv
<1>2. BuildInv /\ Orderly /\ InPlace
      /\ [(MakeTokens /\ UNCHANGED treeVars) \/ MakeTree]_<<lexVars, treeVars>> => BuildInv'
  <2> SUFFICES ASSUME BuildInv, Orderly, InPlace,
                      [(MakeTokens /\ UNCHANGED treeVars) \/ MakeTree]_<<lexVars, treeVars>>
               PROVE  BuildInv'
    OBVIOUS
  <2>1. CASE MakeTokens /\ UNCHANGED treeVars  BY <2>1, TokensBuild
  <2>2. CASE MakeTree  BY <2>2, TreeBuilds
  <2>3. CASE UNCHANGED <<lexVars, treeVars>>  BY <2>3, SameTree
  <2> QED  BY <2>1, <2>2, <2>3
<1>3. BuildInv => NothingLost
  BY TextInvShows, TreeInvShows DEF BuildInv, NothingLost
<1> QED  BY <1>1, <1>2, <1>3, PTL DEF BuildSpec
=============================================================================
