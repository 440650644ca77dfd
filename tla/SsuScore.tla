------------------------------ MODULE SsuScore -------------------------------
(***************************************************************************)
(* ssu_score (P2): runs of the grader over one directory of answers.  A    *)
(* run reads or makes score_table.csv, may change points in it (-m),       *)
(* grades every student into score.csv and may sort that file (-s).        *)
(*                                                                         *)
(* Points are integers, in thousandths; the files keep two decimals.  What *)
(* one answer earns is chosen freely (see ScoreRun for programs).  The     *)
(* same path of score.csv is computed in all places, with or without -n.   *)
(***************************************************************************)
EXTENDS Integers, SequencesExt

CONSTANTS
  Students,    \* ids, as a sequence in the order of strcmp
  Questions,   \* files of the answers' directory, named by number
  Number,      \* per question, its number (the name up to the ".")
  StartsWith,  \* the pairs of ids <<a, b>> where b starts with a
  Type,        \* per question, "text" or "c"
  Points,      \* the points that are given to questions, in thousandths
  MaxWarnings, \* bound: warnings of one student's program
  NoFile, Null

Ids == ToSet(Students)

Place(s) == CHOOSE k \in DOMAIN Students: Students[k] = s

ASSUME IdsAssumption ==
  /\ Students \in Seq(Ids) /\ IsInjective(Students) /\ Null \notin Ids
  /\ StartsWith \subseteq Ids \X Ids
  /\ \A s \in Ids: <<s, s>> \in StartsWith
  /\ \A p \in StartsWith: Place(p[1]) <= Place(p[2])
ASSUME QuestionsAssumption == /\ IsFiniteSet(Questions)
                              /\ Number \in [Questions -> Nat]
                              /\ Type \in [Questions -> {"text", "c"}]
ASSUME PointsAssumption    == Points \subseteq Nat /\ MaxWarnings \in Nat

VARIABLES
  tableFile, csv,     \* score_table.csv and score.csv, or NoFile
  pc,                 \* the run's next step; "idle" when there is none
  opts,               \* its options: [m, s], s = "none" or the order of -s
  table, i,           \* score_table, and the index of the loops over it
  ids, num,           \* id_table, and score_students' index into it
  score,              \* score_student's sum for one student
  total,              \* per student, totalScore of its scoreList node
  scoreRoot, next,    \* the linked list of the students graded
  cp, prev, ep,       \* the pointers of the bubble sort
  scoreArr,           \* the lines of score.csv that are to be sorted
  sorted              \* the lines fprintf has buffered for the sorted file

fileVars == <<tableFile, csv>>
listVars == <<total, scoreRoot, next>>
sortVars == <<cp, prev, ep, scoreArr, sorted>>
gradeVars == <<i, num, score>>
vars == <<fileVars, pc, opts, table, ids, gradeVars, listVars, sortVars>>

Warning == -100                    \* WARNING
Rounded(p) == ((p + 5) \div 10) * 10    \* what "%.2f" keeps

Orders == {"stdid", "stdid-1", "score", "score-1"}
EmptyCsv == [head |-> << >>, rows |-> << >>]

(* A process that is not there has the values of the next one's start. *)
Fresh ==
  /\ opts' = [m |-> FALSE, s |-> "none"]
  /\ table' = << >> /\ ids' = << >>
  /\ i' = 0 /\ num' = 0 /\ score' = 0
  /\ total' = [s \in Ids |-> 0]
  /\ scoreRoot' = Null /\ next' = [s \in Ids |-> Null]
  /\ cp' = Null /\ prev' = Null /\ ep' = Null
  /\ scoreArr' = EmptyCsv /\ sorted' = EmptyCsv

Init ==
  /\ tableFile = NoFile /\ csv = NoFile
  /\ pc = "idle"
  /\ opts = [m |-> FALSE, s |-> "none"]
  /\ table = << >> /\ ids = << >>
  /\ i = 0 /\ num = 0 /\ score = 0
  /\ total = [s \in Ids |-> 0]
  /\ scoreRoot = Null /\ next = [s \in Ids |-> Null]
  /\ cp = Null /\ prev = Null /\ ep = Null
  /\ scoreArr = EmptyCsv /\ sorted = EmptyCsv

Goto(at) == pc' = at

(* The process ends, wherever it is. *)
End == Goto("idle") /\ Fresh

-----------------------------------------------------------------------------
(* The table of questions *)

Start == /\ pc = "idle"
         /\ \E m \in BOOLEAN, s \in Orders \cup {"none"}: opts' = [m |-> m, s |-> s]
         /\ Goto("table")
         /\ UNCHANGED <<fileVars, table, ids, gradeVars, listVars, sortVars>>

(* set_scoreTable: the table there is, ... *)
ReadTable ==
  /\ pc = "table" /\ tableFile # NoFile
  /\ table' = tableFile
  /\ Goto("ids")
  /\ UNCHANGED <<fileVars, opts, ids, gradeVars, listVars, sortVars>>

(* ... none to modify (exit 1), ... *)
NoTable == pc = "table" /\ tableFile = NoFile /\ opts.m /\ End /\ UNCHANGED fileVars

(* ... or a new one: readdir's order, sorted by number, each question with *)
(* points of its own or with those of its type.                            *)
ByNumber(qs) == \A j, k \in DOMAIN qs: j < k => Number[qs[j]] <= Number[qs[k]]

MakeTable ==
  /\ pc = "table" /\ tableFile = NoFile /\ ~opts.m
  /\ \E qs \in {t \in SetToSeqs(Questions): ByNumber(t)}, points \in [Questions -> Points]:
       table' = [k \in DOMAIN qs |-> [q |-> qs[k], points |-> points[qs[k]]]]
  /\ Goto("write")
  /\ UNCHANGED <<fileVars, opts, ids, gradeVars, listVars, sortVars>>

(* creat empties the file; each line is a write of its own. *)
Creat == /\ pc = "write" /\ i = 0
         /\ tableFile' = << >>
         /\ i' = 1
         /\ UNCHANGED <<csv, pc, opts, table, ids, num, score, listVars, sortVars>>

(* score == 0 is the end of the table. *)
AtEnd == i <= Len(table) => table[i].points = 0

WriteLine ==
  /\ pc = "write" /\ i > 0 /\ ~AtEnd
  /\ tableFile' = Append(tableFile, [table[i] EXCEPT !.points = Rounded(@)])
  /\ i' = i + 1
  /\ UNCHANGED <<csv, pc, opts, table, ids, num, score, listVars, sortVars>>

Written ==
  /\ pc = "write" /\ i > 0 /\ AtEnd
  /\ i' = 0
  /\ Goto(IF opts.m THEN "header" ELSE "ids")
  /\ UNCHANGED <<fileVars, opts, table, ids, num, score, listVars, sortVars>>

ByName(ss) == \A j, k \in DOMAIN ss: j < k => Place(ss[j]) < Place(ss[k])

(* A slip: sort_idTable is not called. *)
SetIdsUnsorted ==
  /\ pc = "ids"
  /\ \E S \in SUBSET Ids: ids' \in SetToSeqs(S)
  /\ Goto(IF opts.m THEN "modify" ELSE "header")
  /\ UNCHANGED <<fileVars, opts, table, gradeVars, listVars, sortVars>>

(* set_idTable: the students' directories there are, sorted. *)
SetIds ==
  /\ pc = "ids"
  /\ \E S \in SUBSET Ids: ids' \in {t \in SetToSeqs(S): ByName(t)}
  /\ Goto(IF opts.m THEN "modify" ELSE "header")
  /\ UNCHANGED <<fileVars, opts, table, gradeVars, listVars, sortVars>>

-----------------------------------------------------------------------------
(* do_mOption *)

(* The first question of the number the user enters gets new points. *)
Modify ==
  /\ pc = "modify"
  /\ \E k \in DOMAIN table, p \in Points:
       /\ \A j \in 1..(k - 1): Number[table[j].q] # Number[table[k].q]
       /\ table[k].points # p
       /\ table' = [table EXCEPT ![k].points = p]
  /\ UNCHANGED <<fileVars, pc, opts, ids, gradeVars, listVars, sortVars>>

(* No question has it: the loop reaches an empty name, strtok returns NULL *)
(* and strcmp crashes.                                                     *)
ModifyCrash ==
  /\ pc = "modify"
  /\ End /\ UNCHANGED fileVars

(* A slip: the new points are not written. *)
ModifyDoneUnsaved ==
  /\ pc = "modify"
  /\ Goto("header")
  /\ UNCHANGED <<fileVars, opts, table, ids, gradeVars, listVars, sortVars>>

(* "no" *)
ModifyDone ==
  /\ pc = "modify"
  /\ Goto("write")
  /\ UNCHANGED <<fileVars, opts, table, ids, gradeVars, listVars, sortVars>>

-----------------------------------------------------------------------------
(* score_students *)

(* The questions up to the first one without points. *)
Graded(t) ==
  LET zeros == {k \in DOMAIN t: t[k].points = 0}
  IN IF zeros = {} THEN t ELSE SubSeq(t, 1, Min(zeros) - 1)

(* A slip: the first row has every question of the table. *)
WriteFirstRowAll ==
  /\ pc = "header"
  /\ csv' = [head |-> [k \in DOMAIN table |-> table[k].q], rows |-> << >>]
  /\ num' = 1
  /\ Goto("row")
  /\ UNCHANGED <<tableFile, opts, table, ids, i, score, listVars, sortVars>>

WriteFirstRow ==
  /\ pc = "header"
  /\ csv' = [head |-> [k \in DOMAIN Graded(table) |-> table[k].q], rows |-> << >>]
  /\ num' = 1
  /\ Goto("row")
  /\ UNCHANGED <<tableFile, opts, table, ids, i, score, listVars, sortVars>>

Student == ids[num]
LastRow == Len(csv.rows)

NextStudent ==
  /\ pc = "row" /\ num <= Len(ids)
  /\ csv' = [csv EXCEPT !.rows = Append(@, [id |-> Student, cells |-> << >>, sum |-> 0])]
  /\ i' = 1 /\ score' = 0
  /\ Goto("cells")
  /\ UNCHANGED <<tableFile, opts, table, ids, num, listVars, sortVars>>

(* What an answer is worth: false (also without a file), true, or the sum  *)
(* of a program's warnings.                                                *)
Results(q) ==
  {0, 1} \cup (IF Type[q] = "c" THEN {w * Warning: w \in 1..MaxWarnings} ELSE {})

ScoreQuestion ==
  /\ pc = "cells" /\ ~AtEnd
  /\ \E result \in Results(table[i].q):
       LET earned == CASE result = 0 -> 0
                       [] result = 1 -> table[i].points
                       [] OTHER      -> table[i].points + result
       IN /\ csv' = [csv EXCEPT !.rows[LastRow].cells = Append(@, Rounded(earned))]
          /\ score' = score + earned
  /\ i' = i + 1
  /\ UNCHANGED <<tableFile, pc, opts, table, ids, num, listVars, sortVars>>

(* appendScoreList: behind the node that has no next one. *)
AppendNode(s) ==
  IF scoreRoot = Null
    THEN scoreRoot' = s /\ UNCHANGED next
    ELSE /\ \E k \in 1..(num - 1): /\ next[ids[k]] = Null
                                   /\ next' = [next EXCEPT ![ids[k]] = s]
         /\ UNCHANGED scoreRoot

StudentDone ==
  /\ pc = "cells" /\ AtEnd
  /\ csv' = [csv EXCEPT !.rows[LastRow].sum = Rounded(score)]
  /\ IF opts.s # "none"
       THEN total' = [total EXCEPT ![Student] = score] /\ AppendNode(Student)
       ELSE UNCHANGED listVars
  /\ num' = num + 1 /\ i' = 0 /\ score' = 0
  /\ Goto("row")
  /\ UNCHANGED <<tableFile, opts, table, ids, sortVars>>

(* To the sort, which returns at once from a list of one node or none. *)
AllDone ==
  /\ pc = "row" /\ num > Len(ids)
  /\ Goto(IF opts.s = "none" THEN "exit"
          ELSE IF scoreRoot = Null \/ next[scoreRoot] = Null THEN "read"
          ELSE "sort")
  /\ UNCHANGED <<fileVars, opts, table, ids, gradeVars, listVars, sortVars>>

-----------------------------------------------------------------------------
(* do_sOption.  bubbleSortStdid, bubbleSortScore and their reverses differ *)
(* in the comparison only.                                                 *)
OutOfOrder(a, b) ==
  CASE opts.s = "stdid"   -> Place(a) > Place(b)
    [] opts.s = "stdid-1" -> Place(a) < Place(b)
    [] opts.s = "score"   -> total[a] > total[b]
    [] opts.s = "score-1" -> total[a] < total[b]

(* Passes go on until ep is the second node. *)
PassStart ==
  /\ pc = "sort" /\ ep # next[scoreRoot]
  /\ cp' = scoreRoot /\ prev' = Null
  /\ Goto("pass")
  /\ UNCHANGED <<fileVars, opts, table, ids, gradeVars, listVars, ep, scoreArr, sorted>>

Sorted == /\ pc = "sort" /\ ep = next[scoreRoot]
          /\ Goto("read")
          /\ UNCHANGED <<fileVars, opts, table, ids, gradeVars, listVars, sortVars>>

Keep ==
  /\ pc = "pass" /\ next[cp] # ep
  /\ ~OutOfOrder(cp, next[cp])
  /\ prev' = cp /\ cp' = next[cp]
  /\ UNCHANGED <<fileVars, pc, opts, table, ids, gradeVars, listVars, ep, scoreArr, sorted>>

(* The pair changes places; cp stays the node that moved up. *)
Swap ==
  /\ pc = "pass" /\ next[cp] # ep
  /\ OutOfOrder(cp, next[cp])
  /\ LET n == next[cp]
         relinked == [next EXCEPT ![cp] = next[n], ![n] = cp]
     IN /\ IF prev = Null
             THEN scoreRoot' = n /\ next' = relinked
             ELSE next' = [relinked EXCEPT ![prev] = n] /\ UNCHANGED scoreRoot
        /\ prev' = n
  /\ UNCHANGED <<fileVars, pc, opts, table, ids, gradeVars, total, cp, ep, scoreArr, sorted>>

(* A slip: every pass goes to the end of the list. *)
PassEndWhole ==
  /\ pc = "pass" /\ next[cp] = ep
  /\ Goto("sort")
  /\ UNCHANGED <<fileVars, opts, table, ids, gradeVars, listVars, sortVars>>

PassEnd ==
  /\ pc = "pass" /\ next[cp] = ep
  /\ ep' = cp
  /\ Goto("sort")
  /\ UNCHANGED <<fileVars, opts, table, ids, gradeVars, listVars, cp, prev, scoreArr, sorted>>

(* readScoreFile, and the creat of writeSortedFile. *)
ReadScoreFile ==
  /\ pc = "read"
  /\ scoreArr' = csv
  /\ csv' = EmptyCsv
  /\ cp' = scoreRoot
  /\ sorted' = [head |-> csv.head, rows |-> << >>]
  /\ Goto("print")
  /\ UNCHANGED <<tableFile, opts, table, ids, gradeVars, listVars, prev, ep>>

(* Per node the first line that starts with its id. *)
PrintRow ==
  /\ pc = "print" /\ cp # Null
  /\ LET found == {k \in DOMAIN scoreArr.rows: <<cp, scoreArr.rows[k].id>> \in StartsWith}
     IN sorted' = IF found = {} THEN sorted
                  ELSE [sorted EXCEPT !.rows = Append(@, scoreArr.rows[Min(found)])]
  /\ cp' = next[cp]
  /\ UNCHANGED <<fileVars, pc, opts, table, ids, gradeVars, listVars, prev, ep, scoreArr>>

Printed == /\ pc = "print" /\ cp = Null
           /\ Goto("exit")
           /\ UNCHANGED <<fileVars, opts, table, ids, gradeVars, listVars, sortVars>>

(* exit() flushes the sorted file. *)
Exit == /\ pc = "exit"
        /\ csv' = IF opts.s = "none" THEN csv ELSE sorted
        /\ End /\ UNCHANGED tableFile

-----------------------------------------------------------------------------
(* The user: kills the run at any step, removes the table between runs. *)
Interrupt == pc # "idle" /\ End /\ UNCHANGED fileVars

RemoveTable ==
  /\ pc = "idle" /\ tableFile # NoFile
  /\ tableFile' = NoFile
  /\ UNCHANGED <<csv, pc, opts, table, ids, gradeVars, listVars, sortVars>>

Step ==
  \/ ReadTable \/ NoTable \/ MakeTable \/ Creat \/ WriteLine \/ Written \/ SetIds
  \/ WriteFirstRow \/ NextStudent \/ ScoreQuestion \/ StudentDone \/ AllDone
  \/ PassStart \/ Sorted \/ Keep \/ Swap \/ PassEnd
  \/ ReadScoreFile \/ PrintRow \/ Printed \/ Exit

User == Start \/ Modify \/ ModifyCrash \/ ModifyDone \/ Interrupt \/ RemoveTable

Next == Step \/ User

Spec == Init /\ [][Next]_vars

(* A run that is not asking is running. *)
FairSpec == Spec /\ WF_vars(Step)

-----------------------------------------------------------------------------
(* Properties *)

Grading == {"header", "row", "cells", "sort", "pass", "read", "print", "exit"}

(* What students are graded with, -m's changes included, is what the next  *)
(* run will read: the same questions in the same order, and their points   *)
(* to two decimals.                                                        *)
AsFiled ==
  LET graded == Graded(table) IN
    /\ Len(graded) <= Len(tableFile)
    /\ \A k \in DOMAIN graded: tableFile[k] = [graded[k] EXCEPT !.points = Rounded(@)]

GradedAsFiled == pc \in Grading => AsFiled

(* score.csv lines up when all are graded: a row for every student in the  *)
(* order of ids, and a cell for every question of the first row.           *)
RowsAlign ==
  pc \in {"sort", "pass", "read"} \/ (pc = "exit" /\ opts.s = "none") =>
    /\ [k \in DOMAIN csv.rows |-> csv.rows[k].id] = ids
    /\ \A k \in DOMAIN csv.rows: Len(csv.rows[k].cells) = Len(csv.head)

(* -s writes every student's own row once, in the order asked for (equal   *)
(* scores in any order).                                                   *)
SortedRows ==
  pc = "exit" /\ opts.s # "none" =>
    LET rows == sorted.rows IN
      /\ Len(rows) = Len(ids) /\ {rows[k].id: k \in DOMAIN rows} = ToSet(ids)
      /\ \A k \in DOMAIN rows: rows[k].sum = Rounded(total[rows[k].id])
      /\ \A j, k \in DOMAIN rows: j < k => ~OutOfOrder(rows[j].id, rows[k].id)

(* Why the three hold.  The file agrees with the table when it is read, and *)
(* again when it has been written up to the first question without points. *)
Lines == [q: Questions, points: Nat]
Filed == {line \in Lines: Rounded(line.points) = line.points}

FiledInv ==
  /\ pc \in {"idle", "table", "write", "ids", "modify"} \cup Grading
  /\ opts \in [m: BOOLEAN, s: Orders \cup {"none"}]
  /\ table \in Seq(Lines) /\ i \in Nat
  /\ tableFile = NoFile \/ tableFile \in Seq(Filed)
  /\ pc \notin {"write", "cells"} => i = 0
  /\ pc = "write" /\ i > 0 =>
       /\ tableFile \in Seq(Filed) /\ Len(tableFile) = i - 1 /\ i <= Len(table) + 1
       /\ \A k \in 1..(i - 1): /\ table[k].points # 0
                              /\ tableFile[k] = [table[k] EXCEPT !.points = Rounded(@)]
  /\ pc \in Grading \cup {"ids"} => AsFiled

(* A row is complete before the next one is begun. *)
Rows     == [id: Ids, cells: Seq(Int), sum: Int]
CsvFiles == [head: Seq(Questions), rows: Seq(Rows)]

Complete(file, n) ==
  \A k \in 1..n: /\ file.rows[k].id = ids[k]
                 /\ Len(file.rows[k].cells) = Len(file.head)
                 /\ opts.s # "none" => file.rows[k].sum = Rounded(total[ids[k]])

Gradeds == {"sort", "pass", "read"}    \* all students are graded

RowsInv ==
  /\ ids \in Seq(Ids) /\ ByName(ids)
  /\ num \in Nat /\ score \in Int /\ total \in [Ids -> Int]
  /\ pc \in Gradeds \cup {"print"} => opts.s # "none"
  /\ pc \in {"row", "cells"} =>
       /\ csv \in CsvFiles /\ Len(csv.head) = Len(Graded(table))
       /\ num \in 1..(Len(ids) + 1) /\ Complete(csv, num - 1)
  /\ pc = "row" => Len(csv.rows) = num - 1
  /\ pc = "cells" =>
       /\ num <= Len(ids) /\ Len(csv.rows) = num /\ csv.rows[num].id = ids[num]
       /\ i > 0 /\ Len(csv.rows[num].cells) = i - 1 /\ i <= Len(table) + 1
       /\ \A k \in 1..(i - 1): table[k].points # 0
  /\ pc \in Gradeds \/ (pc = "exit" /\ opts.s = "none") =>
       csv \in CsvFiles /\ Len(csv.rows) = Len(ids) /\ Complete(csv, Len(ids))
  /\ pc = "print" =>
       scoreArr \in CsvFiles /\ Len(scoreArr.rows) = Len(ids) /\ Complete(scoreArr, Len(ids))

(* The linked list is always one of the students graded, in some order.    *)
(* From ep on it is sorted and nothing before ep belongs behind it; cp is  *)
(* the last of those the pass has been over.                               *)
At(l, k)     == IF k \in DOMAIN l THEN l[k] ELSE Null
Linked(l)    == scoreRoot = At(l, 1) /\ \A k \in DOMAIN l: next[l[k]] = At(l, k + 1)
Listed       == {l \in [DOMAIN ids -> ToSet(ids)]: IsInjective(l) /\ ToSet(l) = ToSet(ids)}
InOrder(l, m) == \A j, k \in DOMAIN l: j < k /\ k > m => ~OutOfOrder(l[j], l[k])
Highest(l, c) == \A j \in 1..(c - 1): ~OutOfOrder(l[j], l[c])

Copied(l, n) == /\ sorted \in CsvFiles /\ Len(sorted.rows) = n
                /\ \A k \in 1..n: /\ sorted.rows[k].id = l[k]
                                  /\ sorted.rows[k].sum = Rounded(total[l[k]])

ListInv ==
  /\ next \in [Ids -> Ids \cup {Null}]
  /\ pc \notin Gradeds \cup {"print", "exit"} => ep = Null
  /\ pc \notin Gradeds \cup {"row", "cells", "print", "exit"} =>
       scoreRoot = Null /\ next = [s \in Ids |-> Null]
  /\ pc \in {"row", "cells"} /\ opts.s # "none" =>
       /\ Linked([k \in 1..(num - 1) |-> ids[k]])
       /\ \A s \in Ids: (\A k \in 1..(num - 1): ids[k] # s) => next[s] = Null
  /\ pc = "sort" =>
       /\ Len(ids) > 1
       /\ \E l \in Listed: Linked(l) /\ \E m \in DOMAIN l: ep = At(l, m + 1) /\ InOrder(l, m)
  /\ pc = "pass" =>
       /\ Len(ids) > 1
       /\ \E l \in Listed: Linked(l) /\ \E m \in DOMAIN l:
            /\ m > 1 /\ ep = At(l, m + 1) /\ InOrder(l, m)
            /\ \E c \in 1..m: cp = l[c] /\ prev = At(l, c - 1) /\ Highest(l, c)
  /\ pc = "read" => \E l \in Listed: Linked(l) /\ InOrder(l, 0)
  /\ pc = "print" =>
       \E l \in Listed: /\ Linked(l) /\ InOrder(l, 0)
                        /\ \E p \in 1..(Len(ids) + 1): cp = At(l, p) /\ Copied(l, p - 1)
  /\ pc = "exit" /\ opts.s # "none" => \E l \in Listed: InOrder(l, 0) /\ Copied(l, Len(ids))

(* Every run ends, or waits for the user of -m: the loops over the linked  *)
(* list never run in a circle.                                             *)
RunsEnd == pc # "idle" ~> pc \in {"idle", "modify"}
=============================================================================
