---------------------------- MODULE SsuScoreProofs -----------------------------
(***************************************************************************)
(* What students are graded with is what the table's file says, score.csv  *)
(* lines up, and -s writes every row once and in order: for any number of  *)
(* students and questions, any points and any changes of them.             *)
(***************************************************************************)
EXTENDS SsuScore, DataLemmas, TLAPS

(***************************************************************************)
(* The operators                                                           *)
(***************************************************************************)

LEMMA RoundedIs ==
  ASSUME NEW p \in Int
  PROVE  Rounded(p) \in Int /\ Rounded(Rounded(p)) = Rounded(p) /\ (p \in Nat => Rounded(p) \in Nat)
<1>1. PICK d \in Int: d = (p + 5) \div 10 /\ 10 * d <= p + 5 /\ p + 5 < 10 * d + 10
  OBVIOUS
<1>2. (10 * d + 5) \div 10 = d  BY <1>1
<1> QED  BY <1>1, <1>2 DEF Rounded

(* Graded(t) is what comes before the first question without points. *)
LEMMA GradedIs ==
  ASSUME NEW t \in Seq(Lines)
  PROVE  /\ Graded(t) \in Seq(Lines) /\ Len(Graded(t)) \in 0..Len(t)
         /\ \A k \in 1..Len(Graded(t)): Graded(t)[k] = t[k] /\ t[k].points # 0
         /\ Len(Graded(t)) < Len(t) => t[Len(Graded(t)) + 1].points = 0
<1> DEFINE zeros == {k \in DOMAIN t: t[k].points = 0}
<1>1. Len(t) \in Nat /\ DOMAIN t = 1..Len(t)  OBVIOUS
<1>2. CASE zeros = {}
  <2>1. Graded(t) = t  BY <1>2 DEF Graded
  <2> QED  BY <1>1, <1>2, <2>1
<1>3. CASE zeros # {}
  <2>1. zeros \in SUBSET Nat  BY <1>1
  <2>2. \E x \in zeros: \A y \in zeros: x <= y  BY <1>3, <2>1, LeastNat
  <2>3. Min(zeros) \in zeros /\ \A y \in zeros: Min(zeros) <= y  BY <2>2 DEF Min
  <2> DEFINE n == Min(zeros) - 1
  <2>4. n \in 0..Len(t) /\ Min(zeros) = n + 1 /\ n < Len(t) /\ t[n + 1].points = 0
    BY <1>1, <2>3
  <2>5. Graded(t) = SubSeq(t, 1, n)  BY <1>3 DEF Graded
  <2> HIDE DEF n
  <2>6. /\ Graded(t) \in Seq(Lines) /\ Len(Graded(t)) = n
        /\ \A k \in 1..n: Graded(t)[k] = t[k]
    BY <2>4, <2>5, UptoIs
  <2>7. \A k \in 1..n: t[k].points # 0
    <3> SUFFICES ASSUME NEW k \in 1..n, t[k].points = 0 PROVE FALSE
      OBVIOUS
    <3>1. k \in Nat /\ k <= n /\ n \in Nat  BY <1>1, <2>4
    <3>2. k \in zeros  BY <1>1, <2>4
    <3> HIDE DEF zeros
    <3>3. Min(zeros) <= k  BY <2>3, <3>2
    <3> QED  BY <2>4, <3>1, <3>3
  <2> QED  BY <1>1, <2>4, <2>6, <2>7
<1> QED  BY <1>2, <1>3

(* At the end of the loop over a table its index is one past that. *)
LEMMA EndIs ==
  ASSUME NEW t \in Seq(Lines), NEW n \in 1..(Len(t) + 1), \A k \in 1..(n - 1): t[k].points # 0,
         n <= Len(t) => t[n].points = 0
  PROVE  Len(Graded(t)) = n - 1
<1> DEFINE g == Len(Graded(t))
<1>1. Len(t) \in Nat /\ g \in 0..Len(t)  BY GradedIs
<1>2. \A k \in 1..g: t[k].points # 0  BY GradedIs
<1>3. g < Len(t) => t[g + 1].points = 0  BY GradedIs
<1> HIDE DEF g
<1>4. ~(g < n - 1)
  <2> SUFFICES ASSUME g < n - 1 PROVE FALSE
    OBVIOUS
  <2>1. g + 1 \in 1..(n - 1) /\ g < Len(t)  BY <1>1
  <2> QED  BY <1>3, <2>1
<1>5. ~(g > n - 1)
  <2> SUFFICES ASSUME g > n - 1 PROVE FALSE
    OBVIOUS
  <2>1. n \in 1..g /\ n <= Len(t)  BY <1>1
  <2> QED  BY <1>2, <2>1
<1> QED  BY <1>1, <1>4, <1>5 DEF g

(***************************************************************************)
(* The table and its file                                                  *)
(***************************************************************************)

LEMMA LineKept ==
  ASSUME NEW line \in Lines
  PROVE  /\ [line EXCEPT !.points = Rounded(@)] \in Filed
         /\ Rounded(line.points) = line.points => [line EXCEPT !.points = Rounded(@)] = line
<1>1. line.points \in Nat /\ line.q \in Questions /\ line = [q |-> line.q, points |-> line.points]
  BY DEF Lines
<1>2. Rounded(line.points) \in Nat /\ Rounded(Rounded(line.points)) = Rounded(line.points)
  BY <1>1, RoundedIs
<1>3. [line EXCEPT !.points = Rounded(@)] = [q |-> line.q, points |-> Rounded(line.points)]
  BY <1>1
<1> QED  BY <1>1, <1>2, <1>3 DEF Filed, Lines

(* A table that has been read is as it is filed. *)
LEMMA ReadIsFiled ==
  ASSUME NEW t \in Seq(Filed)
  PROVE  /\ t \in Seq(Lines) /\ Len(Graded(t)) <= Len(t)
         /\ \A k \in DOMAIN Graded(t): t[k] = [Graded(t)[k] EXCEPT !.points = Rounded(@)]
<1>1. t \in Seq(Lines) /\ Len(t) \in Nat  BY DEF Filed
<1>2. /\ Graded(t) \in Seq(Lines) /\ Len(Graded(t)) \in 0..Len(t)
      /\ \A k \in 1..Len(Graded(t)): Graded(t)[k] = t[k]
  BY <1>1, GradedIs
<1>3. \A k \in 1..Len(t): t[k] \in Lines /\ Rounded(t[k].points) = t[k].points
  BY DEF Filed
<1>4. \A k \in 1..Len(Graded(t)): t[k] = [t[k] EXCEPT !.points = Rounded(@)]
  BY <1>1, <1>2, <1>3, LineKept
<1> QED  BY <1>1, <1>2, <1>4

(* A file written up to the end of the loop agrees with its table. *)
LEMMA WrittenIsFiled ==
  ASSUME FiledInv, Written
  PROVE  AsFiled
<1> DEFINE g == Graded(table)
<1>1. /\ tableFile \in Seq(Filed) /\ Len(tableFile) = i - 1 /\ i <= Len(table) + 1
      /\ \A k \in 1..(i - 1): /\ table[k].points # 0
                              /\ tableFile[k] = [table[k] EXCEPT !.points = Rounded(@)]
  BY DEF FiledInv, Written
<1>2. table \in Seq(Lines) /\ i \in Nat /\ i > 0  BY DEF FiledInv, Written
<1>3. Len(table) \in Nat /\ i \in 1..(Len(table) + 1)  BY <1>1, <1>2
<1>4. i <= Len(table) => table[i].points = 0  BY DEF Written, AtEnd
<1>5. Len(g) = i - 1  BY <1>1, <1>2, <1>3, <1>4, EndIs
<1>6. g \in Seq(Lines) /\ \A k \in 1..Len(g): g[k] = table[k]  BY <1>2, GradedIs
<1> HIDE DEF g
<1>7. \A k \in DOMAIN g: tableFile[k] = [g[k] EXCEPT !.points = Rounded(@)]
  BY <1>1, <1>5, <1>6
<1> QED  BY <1>1, <1>5, <1>7 DEF AsFiled, g

(* The conjuncts that most actions leave alone. *)
LEMMA FiledStart ==
  ASSUME FiledInv, End, tableFile' = tableFile
  PROVE  FiledInv'
<1>1. pc' = "idle" /\ opts' = [m |-> FALSE, s |-> "none"] /\ table' = << >> /\ i' = 0
  BY DEF End, Goto, Fresh
<1>2. "idle" \notin Grading \cup {"ids", "write"}  BY DEF Grading
<1>3. table' \in Seq(Lines)  BY <1>1
<1> QED  BY <1>1, <1>2, <1>3 DEF FiledInv

LEMMA FiledSame ==
  ASSUME FiledInv, UNCHANGED <<tableFile, opts, table>>,
         pc' \in {"idle", "table", "ids", "modify"} \cup Grading, i' \in Nat,
         pc' # "cells" => i' = 0,
         pc' \in Grading \cup {"ids"} => pc \in Grading \cup {"ids"}
  PROVE  FiledInv'
<1>1. AsFiled => AsFiled'  BY DEF AsFiled, Graded
<1>2. pc' # "write"  BY DEF Grading
<1> QED  BY <1>1, <1>2 DEF FiledInv

LEMMA InitFiled == Init => FiledInv
<1> SUFFICES ASSUME Init PROVE FiledInv
  OBVIOUS
<1>1. pc = "idle" /\ opts = [m |-> FALSE, s |-> "none"] /\ table = << >> /\ i = 0 /\ tableFile = NoFile
  BY DEF Init
<1>2. "idle" \notin Grading \cup {"ids", "write"}  BY DEF Grading
<1>3. table \in Seq(Lines)  BY <1>1
<1> QED  BY <1>1, <1>2, <1>3 DEF FiledInv

LEMMA MakeTableFiled == ASSUME FiledInv, MakeTable PROVE FiledInv'
<1>1. PICK qs \in {t \in SetToSeqs(Questions): ByNumber(t)}, points \in [Questions -> Points]:
        table' = [k \in DOMAIN qs |-> [q |-> qs[k], points |-> points[qs[k]]]]
  BY DEF MakeTable
<1>2. qs \in Seq(Questions)  BY QuestionsAssumption, OrderIsSeq
<1>3. table' \in Seq(Lines)
  <2>1. \A q \in Questions: points[q] \in Nat  BY PointsAssumption
  <2>2. Len(qs) \in Nat /\ DOMAIN qs = 1..Len(qs) /\ \A k \in 1..Len(qs): qs[k] \in Questions
    BY <1>2
  <2>3. \A k \in 1..Len(qs): [q |-> qs[k], points |-> points[qs[k]]] \in Lines
    BY <2>1, <2>2 DEF Lines
  <2>4. table' \in [1..Len(qs) -> Lines]  BY <1>1, <2>2, <2>3
  <2> QED  BY <2>2, <2>4
<1>4. pc' = "write" /\ UNCHANGED <<tableFile, opts, i>> /\ i = 0 /\ "write" \notin Grading
  BY DEF MakeTable, Goto, fileVars, gradeVars, FiledInv, Grading
<1> QED  BY <1>3, <1>4 DEF FiledInv

LEMMA CreatFiled == ASSUME FiledInv, Creat PROVE FiledInv'
<1>1. pc = "write" /\ tableFile' = << >> /\ i' = 1 /\ UNCHANGED <<pc, opts, table>> /\ "write" \notin Grading
  BY DEF Creat, Grading
<1>2. tableFile' \in Seq(Filed) /\ Len(tableFile') = 0  BY <1>1
<1>3. Len(table) \in Nat  BY DEF FiledInv
<1> QED  BY <1>1, <1>2, <1>3 DEF FiledInv

LEMMA WriteLineFiled == ASSUME FiledInv, WriteLine PROVE FiledInv'
<1> DEFINE line == [table[i] EXCEPT !.points = Rounded(@)]
<1>1. /\ pc = "write" /\ i > 0 /\ tableFile' = Append(tableFile, line) /\ i' = i + 1
      /\ UNCHANGED <<pc, opts, table>> /\ "write" \notin Grading
      /\ i <= Len(table) /\ table[i].points # 0
  BY DEF WriteLine, AtEnd, Grading
<1>2. /\ tableFile \in Seq(Filed) /\ Len(tableFile) = i - 1 /\ i \in Nat /\ table \in Seq(Lines)
      /\ \A k \in 1..(i - 1): /\ table[k].points # 0
                              /\ tableFile[k] = [table[k] EXCEPT !.points = Rounded(@)]
  BY <1>1 DEF FiledInv
<1>3. Len(table) \in Nat /\ i \in 1..Len(table) /\ table[i] \in Lines  BY <1>1, <1>2
<1>4. line \in Filed  BY <1>3, LineKept
<1>5. tableFile' \in Seq(Filed) /\ Len(tableFile') = i
  BY <1>1, <1>2, <1>4
<1>6. \A k \in 1..i: tableFile'[k] = IF k = i THEN line ELSE tableFile[k]
  BY <1>1, <1>2, <1>3, <1>4
<1> HIDE DEF line
<1>7. \A k \in 1..i: table[k].points # 0 /\ tableFile'[k] = [table[k] EXCEPT !.points = Rounded(@)]
  <2> SUFFICES ASSUME NEW k \in 1..i
               PROVE  table[k].points # 0 /\ tableFile'[k] = [table[k] EXCEPT !.points = Rounded(@)]
    OBVIOUS
  <2>1. CASE k = i  BY <1>1, <1>6, <2>1 DEF line
  <2>2. CASE k # i
    <3>1. k \in 1..(i - 1) /\ tableFile'[k] = tableFile[k]  BY <1>2, <1>6, <2>2
    <3> QED  BY <1>2, <3>1
  <2> QED  BY <2>1, <2>2
<1>8. i' - 1 = i /\ i' \in Nat /\ i' > 0 /\ i' <= Len(table) + 1  BY <1>1, <1>3
<1> QED  BY <1>1, <1>2, <1>5, <1>7, <1>8 DEF FiledInv

LEMMA WrittenFiled == ASSUME FiledInv, Written PROVE FiledInv'
<1>1. AsFiled  BY WrittenIsFiled
<1>2. pc' \in {"header", "ids"} /\ i' = 0 /\ UNCHANGED <<tableFile, opts, table>> /\ "header" \in Grading
  BY DEF Written, Goto, fileVars, Grading
<1>3. AsFiled'  BY <1>1, <1>2 DEF AsFiled, Graded
<1> QED  BY <1>2, <1>3 DEF FiledInv

LEMMA ReadTableFiled == ASSUME FiledInv, ReadTable PROVE FiledInv'
<1>1. /\ tableFile \in Seq(Filed) /\ table' = tableFile /\ UNCHANGED <<tableFile, opts, i>>
      /\ pc' = "ids" /\ i = 0 /\ "ids" \notin Grading
  BY DEF FiledInv, ReadTable, Goto, fileVars, gradeVars, Grading
<1>2. table' \in Seq(Lines) /\ AsFiled'  BY <1>1, ReadIsFiled DEF AsFiled
<1> QED  BY <1>1, <1>2 DEF FiledInv

LEMMA ModifyFiled == ASSUME FiledInv, Modify PROVE FiledInv'
<1>1. PICK k \in DOMAIN table, p \in Points: table' = [table EXCEPT ![k].points = p]
  BY DEF Modify
<1>2. table \in Seq(Lines) /\ p \in Nat  BY PointsAssumption DEF FiledInv
<1>3. table[k] \in Lines /\ [table[k] EXCEPT !.points = p] \in Lines
  <2>1. table[k] \in Lines  BY <1>2
  <2>2. table[k].q \in Questions /\ table[k] = [q |-> table[k].q, points |-> table[k].points]
    BY <2>1 DEF Lines
  <2>3. [table[k] EXCEPT !.points = p] = [q |-> table[k].q, points |-> p]  BY <2>2
  <2> QED  BY <1>2, <2>1, <2>2, <2>3 DEF Lines
<1>4. table' \in Seq(Lines)  BY <1>1, <1>2, <1>3
<1>5. pc = "modify" /\ UNCHANGED <<tableFile, pc, opts, i>> /\ "modify" \notin Grading
  BY DEF Modify, fileVars, gradeVars, Grading
<1> QED  BY <1>4, <1>5 DEF FiledInv

LEMMA NextFiled == FiledInv /\ [Next]_vars => FiledInv'
<1> SUFFICES ASSUME FiledInv, [Next]_vars PROVE FiledInv'
  OBVIOUS
<1> USE DEF Goto, fileVars, gradeVars, Grading
<1>i. i \in Nat /\ i + 1 \in Nat /\ (pc \notin {"write", "cells"} => i = 0)  BY DEF FiledInv
<1>1. CASE ReadTable  BY <1>1, ReadTableFiled
<1>2. CASE MakeTable  BY <1>2, MakeTableFiled
<1>3. CASE Creat  BY <1>3, CreatFiled
<1>4. CASE WriteLine  BY <1>4, WriteLineFiled
<1>5. CASE Written  BY <1>5, WrittenFiled
<1>6. CASE Modify  BY <1>6, ModifyFiled
<1>7. CASE NoTable \/ ModifyCrash \/ Interrupt
  BY <1>7, FiledStart DEF NoTable, ModifyCrash, Interrupt
<1>8. CASE Exit  BY <1>8, FiledStart DEF Exit
<1>9. CASE SetIds
  <2>1. pc' \in {"modify", "header"} /\ pc = "ids" /\ UNCHANGED <<tableFile, opts, table, i>>
    BY <1>9 DEF SetIds
  <2> QED  BY <1>i, <2>1, FiledSame
<1>10. CASE WriteFirstRow  BY <1>i, <1>10, FiledSame DEF WriteFirstRow
<1>11. CASE NextStudent  BY <1>i, <1>11, FiledSame DEF NextStudent
<1>12. CASE ScoreQuestion
  <2>1. pc = "cells" /\ i' = i + 1 /\ UNCHANGED <<tableFile, pc, opts, table>>
    BY <1>12 DEF ScoreQuestion
  <2> QED  BY <1>i, <2>1, FiledSame
<1>13. CASE StudentDone
  <2>1. pc = "cells" /\ pc' = "row" /\ i' = 0 /\ UNCHANGED <<tableFile, opts, table>>
    BY <1>13 DEF StudentDone
  <2> QED  BY <1>i, <2>1, FiledSame
<1>14. CASE AllDone  BY <1>i, <1>14, FiledSame DEF AllDone
<1>15. CASE PassStart \/ Sorted \/ Keep \/ PassEnd
  BY <1>i, <1>15, FiledSame DEF PassStart, Sorted, Keep, PassEnd
<1>16. CASE Swap
  <2>1. pc = "pass" /\ UNCHANGED <<tableFile, pc, opts, table, i>>  BY <1>16 DEF Swap
  <2> QED  BY <1>i, <2>1, FiledSame
<1>17. CASE ReadScoreFile \/ PrintRow \/ Printed
  BY <1>i, <1>17, FiledSame DEF ReadScoreFile, PrintRow, Printed
<1>18. CASE Start
  <2>1. /\ pc = "idle" /\ pc' = "table" /\ opts' \in [m: BOOLEAN, s: Orders \cup {"none"}]
        /\ UNCHANGED <<tableFile, table, i>>
    BY <1>18 DEF Start
  <2> QED  BY <1>i, <2>1 DEF FiledInv
<1>19. CASE ModifyDone
  <2>1. pc = "modify" /\ pc' = "write" /\ UNCHANGED <<tableFile, opts, table, i>>
    BY <1>19 DEF ModifyDone
  <2> QED  BY <1>i, <2>1 DEF FiledInv
<1>20. CASE RemoveTable
  <2>1. pc = "idle" /\ tableFile' = NoFile /\ UNCHANGED <<pc, opts, table, i>>
    BY <1>20 DEF RemoveTable
  <2> QED  BY <1>i, <2>1 DEF FiledInv
<1>21. CASE UNCHANGED vars
  <2>1. UNCHANGED <<tableFile, pc, opts, table, i>>  BY <1>21 DEF vars
  <2>2. AsFiled => AsFiled'  BY <2>1 DEF AsFiled, Graded
  <2> QED  BY <2>1, <2>2 DEF FiledInv
<1> QED
  BY <1>1, <1>2, <1>3, <1>4, <1>5, <1>6, <1>7, <1>8, <1>9, <1>10, <1>11, <1>12, <1>13, <1>14,
     <1>15, <1>16, <1>17, <1>18, <1>19, <1>20, <1>21 DEF Next, Step, User

LEMMA FiledHolds == Spec => []FiledInv
<1>1. Init => FiledInv  BY InitFiled
<1>2. FiledInv /\ [Next]_vars => FiledInv'  BY NextFiled
<1> QED  BY <1>1, <1>2, PTL DEF Spec

(* What students are graded with is what the next run will read from       *)
(* score_table.csv, up to the two decimals it keeps, after -m's changes    *)
(* and whenever runs are killed or the table is removed.                   *)
THEOREM GradedAsFiledCorrect == Spec => []GradedAsFiled
<1>1. FiledInv => GradedAsFiled  BY DEF FiledInv, GradedAsFiled
<1> QED  BY <1>1, FiledHolds, PTL

(***************************************************************************)
(* The rows of score.csv                                                   *)
(***************************************************************************)

(* The place of an id in the order of strcmp. *)
LEMMA PlaceIs == \A s \in Ids: Place(s) \in Nat
<1> SUFFICES ASSUME NEW s \in Ids PROVE Place(s) \in Nat
  OBVIOUS
<1>1. DOMAIN Students = 1..Len(Students) /\ Len(Students) \in Nat  BY IdsAssumption
<1>2. \E k \in DOMAIN Students: Students[k] = s  BY DEF Ids, ToSet
<1>3. Place(s) \in DOMAIN Students  BY <1>2 DEF Place
<1> QED  BY <1>1, <1>3

LEMMA CsvFileIs ==
  ASSUME NEW h \in Seq(Questions), NEW rs \in Seq(Rows)
  PROVE  [head |-> h, rows |-> rs] \in CsvFiles
  BY DEF CsvFiles

LEMMA RowIs ==
  ASSUME NEW r \in Rows, NEW x \in Int
  PROVE  LET longer == [r EXCEPT !.cells = Append(@, x)]
             summed == [r EXCEPT !.sum = x]
         IN /\ longer \in Rows /\ longer.id = r.id /\ Len(longer.cells) = Len(r.cells) + 1
            /\ summed \in Rows /\ summed.id = r.id /\ summed.cells = r.cells /\ summed.sum = x
<1>1. r.id \in Ids /\ r.cells \in Seq(Int) /\ r.sum \in Int
  BY DEF Rows
<1>2. r = [id |-> r.id, cells |-> r.cells, sum |-> r.sum]
  BY DEF Rows
<1> DEFINE cells == Append(r.cells, x)
<1>3. cells \in Seq(Int) /\ Len(cells) = Len(r.cells) + 1  BY <1>1
<1> HIDE DEF cells
<1>4. [r EXCEPT !.cells = cells] = [id |-> r.id, cells |-> cells, sum |-> r.sum]
  BY <1>2
<1>5. [r EXCEPT !.cells = Append(@, x)] = [r EXCEPT !.cells = cells]
  BY DEF cells
<1>6. [r EXCEPT !.sum = x] = [id |-> r.id, cells |-> r.cells, sum |-> x]
  BY <1>2
<1>7. /\ [id |-> r.id, cells |-> cells, sum |-> r.sum] \in Rows
      /\ [id |-> r.id, cells |-> r.cells, sum |-> x] \in Rows
  BY <1>1, <1>3 DEF Rows
<1> QED  BY <1>3, <1>4, <1>5, <1>6, <1>7

LEMMA RowAdded ==
  ASSUME NEW f \in CsvFiles, NEW r \in Rows, NEW g, g = [f EXCEPT !.rows = Append(@, r)]
  PROVE  /\ g \in CsvFiles /\ g.head = f.head /\ Len(g.rows) = Len(f.rows) + 1
         /\ \A k \in 1..Len(f.rows): g.rows[k] = f.rows[k]
         /\ g.rows[Len(f.rows) + 1] = r
<1>1. f.head \in Seq(Questions) /\ f.rows \in Seq(Rows) /\ f = [head |-> f.head, rows |-> f.rows]
  BY DEF CsvFiles
<1>2. g = [head |-> f.head, rows |-> Append(f.rows, r)]  BY <1>1
<1> DEFINE rows == Append(f.rows, r)
<1>3. /\ rows \in Seq(Rows) /\ Len(rows) = Len(f.rows) + 1
      /\ \A k \in 1..Len(f.rows): rows[k] = f.rows[k]
      /\ rows[Len(f.rows) + 1] = r
  BY <1>1
<1> HIDE DEF rows
<1>4. g = [head |-> f.head, rows |-> rows]  BY <1>2 DEF rows
<1>5. g.head = f.head /\ g.rows = rows  BY <1>4
<1>6. g \in CsvFiles  BY <1>1, <1>3, <1>4, CsvFileIs
<1> QED  BY <1>3, <1>5, <1>6

(* What is changed in the last row leaves the others alone. *)
LEMMA RowChanged ==
  ASSUME NEW f \in CsvFiles, NEW r \in Rows, f.rows # << >>,
         NEW g, g = [f EXCEPT !.rows[Len(f.rows)] = r]
  PROVE  /\ g \in CsvFiles /\ g.head = f.head /\ Len(g.rows) = Len(f.rows)
         /\ \A k \in 1..(Len(f.rows) - 1): g.rows[k] = f.rows[k]
         /\ g.rows[Len(f.rows)] = r
<1>1. f.head \in Seq(Questions) /\ f.rows \in Seq(Rows) /\ f = [head |-> f.head, rows |-> f.rows]
  BY DEF CsvFiles
<1> DEFINE n == Len(f.rows)
           rows == [f.rows EXCEPT ![n] = r]
<1>2. n \in Nat /\ n # 0 /\ n \in DOMAIN f.rows  BY <1>1
<1>3. g = [head |-> f.head, rows |-> rows]  BY <1>1
<1>4. rows \in Seq(Rows) /\ Len(rows) = n /\ \A k \in 1..n: rows[k] = IF k = n THEN r ELSE f.rows[k]
  BY <1>1, <1>2
<1> HIDE DEF rows
<1>5. g.head = f.head /\ g.rows = rows /\ g \in CsvFiles
  <2>1. g.head = f.head /\ g.rows = rows  BY <1>3
  <2>2. g \in CsvFiles  BY <1>1, <1>3, <1>4, CsvFileIs
  <2> QED  BY <2>1, <2>2
<1> HIDE DEF n
<1>6. /\ \A k \in 1..(n - 1): rows[k] = f.rows[k]
      /\ rows[n] = r
  BY <1>2, <1>4
<1> QED  BY <1>4, <1>5, <1>6 DEF n

LEMMA InitRows == Init => RowsInv
<1> SUFFICES ASSUME Init PROVE RowsInv
  OBVIOUS
<1>1. /\ pc = "idle" /\ ids = << >> /\ num = 0 /\ score = 0
      /\ total = [s \in Ids |-> 0]
  BY DEF Init
<1>2. ids \in Seq(Ids) /\ ByName(ids) /\ total \in [Ids -> Int]  BY <1>1 DEF ByName
<1> QED  BY <1>1, <1>2 DEF RowsInv, Gradeds

LEMMA EndRows == ASSUME RowsInv, End PROVE RowsInv'
<1>1. /\ pc' = "idle" /\ ids' = << >> /\ num' = 0 /\ score' = 0
      /\ total' = [s \in Ids |-> 0]
  BY DEF End, Goto, Fresh
<1>2. ids' \in Seq(Ids) /\ ByName(ids)' /\ total' \in [Ids -> Int]  BY <1>1 DEF ByName
<1> QED  BY <1>1, <1>2 DEF RowsInv, Gradeds

(* Before the first row. *)
LEMMA EarlyRows ==
  ASSUME RowsInv, UNCHANGED <<ids, num, score, total>>,
         pc' \in {"idle", "table", "write", "ids", "modify", "header"}
  PROVE  RowsInv'
<1>1. ByName(ids)'  BY DEF RowsInv, ByName
<1> QED  BY <1>1 DEF RowsInv, Gradeds

LEMMA SetIdsRows == ASSUME RowsInv, SetIds PROVE RowsInv'
<1>1. PICK S \in SUBSET Ids: ids' \in SetToSeqs(S) /\ ByName(ids')
  BY DEF SetIds
<1>2. IsFiniteSet(Ids)
  <2>1. Len(Students) \in Nat /\ DOMAIN Students = 1..Len(Students)  BY IdsAssumption
  <2>2. IsFiniteSet(DOMAIN Students)  BY <2>1, FS_Interval
  <2> QED  BY <2>2, ImageFinite DEF Ids, ToSet
<1>3. IsFiniteSet(S)  BY <1>2, FS_Subset
<1>4. ids' \in Seq(Ids)  BY <1>1, <1>3, OrderIsSeq
<1>5. ByName(ids)'  BY <1>1 DEF ByName
<1>6. pc' \in {"modify", "header"} /\ UNCHANGED <<num, score, total>>
  BY DEF SetIds, Goto, gradeVars, listVars
<1> QED  BY <1>4, <1>5, <1>6 DEF RowsInv, Gradeds

LEMMA FirstRowRows == ASSUME FiledInv, RowsInv, WriteFirstRow PROVE RowsInv'
<1> DEFINE g == Graded(table)
<1>1. /\ csv' = [head |-> [k \in DOMAIN g |-> table[k].q], rows |-> << >>]
      /\ num' = 1 /\ pc' = "row" /\ UNCHANGED <<opts, table, ids, score, total>>
  BY DEF WriteFirstRow, Goto, listVars
<1>2. table \in Seq(Lines) /\ g \in Seq(Lines) /\ Len(g) \in 0..Len(table)
  BY GradedIs DEF FiledInv
<1>3. DOMAIN g = 1..Len(g) /\ Len(g) \in Nat /\ Len(table) \in Nat  BY <1>2
<1> HIDE DEF g
<1>4. \A k \in DOMAIN g: table[k].q \in Questions
  <2> SUFFICES ASSUME NEW k \in DOMAIN g PROVE table[k].q \in Questions
    OBVIOUS
  <2>1. table[k] \in Lines  BY <1>2, <1>3
  <2> QED  BY <2>1 DEF Lines
<1> DEFINE head == [k \in DOMAIN g |-> table[k].q]
<1>5. head \in [1..Len(g) -> Questions]  BY <1>3, <1>4
<1>6. head \in Seq(Questions) /\ Len(head) = Len(g)  BY <1>3, <1>5
<1> HIDE DEF head
<1>7. csv' = [head |-> head, rows |-> << >>]  BY <1>1 DEF head
<1>8. csv' \in CsvFiles /\ Len(csv'.head) = Len(g) /\ Len(csv'.rows) = 0
  BY <1>6, <1>7 DEF CsvFiles
<1>9. ByName(ids)' /\ g = Graded(table)'  BY <1>1 DEF RowsInv, ByName, g, Graded
<1>10. Complete(csv, num - 1)'  BY <1>1 DEF Complete
<1>11. ids' \in Seq(Ids) /\ num' \in 1..(Len(ids') + 1) /\ Len(csv'.rows) = num' - 1
  BY <1>1, <1>8 DEF RowsInv
<1> QED  BY <1>1, <1>8, <1>9, <1>10, <1>11 DEF RowsInv, Gradeds

LEMMA NextStudentRows == ASSUME FiledInv, RowsInv, NextStudent PROVE RowsInv'
<1> DEFINE r == [id |-> Student, cells |-> << >>, sum |-> 0]
<1>1. /\ pc = "row" /\ num <= Len(ids) /\ csv' = [csv EXCEPT !.rows = Append(@, r)]
      /\ i' = 1 /\ score' = 0 /\ pc' = "cells"
      /\ UNCHANGED <<opts, table, ids, num, total>>
  BY DEF NextStudent, Goto, listVars
<1>2. /\ csv \in CsvFiles /\ Len(csv.head) = Len(Graded(table))
      /\ num \in 1..(Len(ids) + 1) /\ Complete(csv, num - 1) /\ Len(csv.rows) = num - 1
      /\ ids \in Seq(Ids) /\ ByName(ids)
  BY <1>1 DEF RowsInv
<1>3. num \in 1..Len(ids) /\ Student \in Ids  BY <1>1, <1>2 DEF Student
<1>4. r \in Rows  BY <1>3 DEF Rows
<1>5. /\ csv' \in CsvFiles /\ csv'.head = csv.head /\ Len(csv'.rows) = num
      /\ \A k \in 1..(num - 1): csv'.rows[k] = csv.rows[k]
      /\ csv'.rows[num] = r
  BY <1>1, <1>2, <1>3, <1>4, RowAdded
<1>6. r.id = ids[num] /\ Len(r.cells) = 0  BY DEF Student
<1> HIDE DEF r
<1>7. Complete(csv, num - 1)'  BY <1>1, <1>2, <1>5 DEF Complete
<1>8. ByName(ids)' /\ Graded(table)' = Graded(table)  BY <1>1, <1>2 DEF ByName, Graded
<1>9. Len(table) \in Nat /\ table' = table  BY <1>1 DEF FiledInv
<1>10. /\ num' <= Len(ids') /\ Len(csv'.rows) = num' /\ csv'.rows[num'].id = ids'[num']
       /\ i' > 0 /\ Len(csv'.rows[num'].cells) = i' - 1 /\ i' <= Len(table') + 1
       /\ \A k \in 1..(i' - 1): table'[k].points # 0
  BY <1>1, <1>2, <1>3, <1>5, <1>6, <1>9
<1> QED  BY <1>1, <1>2, <1>5, <1>7, <1>8, <1>10 DEF RowsInv, Gradeds

LEMMA QuestionRows == ASSUME FiledInv, RowsInv, ScoreQuestion PROVE RowsInv'
<1>1. PICK result \in Results(table[i].q):
        LET earned == CASE result = 0 -> 0
                        [] result = 1 -> table[i].points
                        [] OTHER      -> table[i].points + result
        IN /\ csv' = [csv EXCEPT !.rows[LastRow].cells = Append(@, Rounded(earned))]
           /\ score' = score + earned
  BY DEF ScoreQuestion
<1> DEFINE earned == CASE result = 0 -> 0
                       [] result = 1 -> table[i].points
                       [] OTHER      -> table[i].points + result
<1>2. /\ csv' = [csv EXCEPT !.rows[LastRow].cells = Append(@, Rounded(earned))]
      /\ score' = score + earned
  BY <1>1
<1>3. /\ pc = "cells" /\ i <= Len(table) /\ table[i].points # 0 /\ i' = i + 1
      /\ UNCHANGED <<pc, opts, table, ids, num, total>>
  BY DEF ScoreQuestion, AtEnd, listVars
<1>4. /\ csv \in CsvFiles /\ Len(csv.head) = Len(Graded(table))
      /\ num \in 1..(Len(ids) + 1) /\ Complete(csv, num - 1)
      /\ num <= Len(ids) /\ Len(csv.rows) = num /\ csv.rows[num].id = ids[num]
      /\ i > 0 /\ Len(csv.rows[num].cells) = i - 1
      /\ \A k \in 1..(i - 1): table[k].points # 0
      /\ ids \in Seq(Ids) /\ ByName(ids) /\ score \in Int
  BY <1>3 DEF RowsInv
<1>5. i \in Nat /\ table \in Seq(Lines)  BY DEF FiledInv
<1>6. Len(table) \in Nat /\ i \in 1..Len(table) /\ table[i] \in Lines  BY <1>3, <1>4, <1>5
<1>7. table[i].points \in Nat /\ table[i].q \in Questions  BY <1>6 DEF Lines
<1>8. result \in Int  BY <1>7, PointsAssumption DEF Results, Warning
<1>9. earned \in Int  BY <1>7, <1>8
<1> HIDE DEF earned
<1>10. Rounded(earned) \in Int /\ score' \in Int  BY <1>2, <1>4, <1>9, RoundedIs
<1> DEFINE old == csv.rows[num]
           r == [old EXCEPT !.cells = Append(@, Rounded(earned))]
<1>11. num \in Nat /\ num # 0 /\ Len(ids) \in Nat /\ csv.rows \in Seq(Rows)  BY <1>4 DEF CsvFiles
<1>12. old \in Rows  BY <1>4, <1>11
<1>13. r \in Rows /\ r.id = old.id /\ Len(r.cells) = Len(old.cells) + 1
  BY <1>10, <1>12, RowIs
<1>14. csv' = [csv EXCEPT !.rows[Len(csv.rows)] = r]
  BY <1>2, <1>4, <1>11 DEF LastRow, CsvFiles
<1>15. old.id = ids[num] /\ Len(old.cells) = i - 1 /\ csv.rows # << >>  BY <1>4, <1>11
<1> HIDE DEF r, old
<1>16. /\ csv' \in CsvFiles /\ csv'.head = csv.head /\ Len(csv'.rows) = num
       /\ \A k \in 1..(num - 1): csv'.rows[k] = csv.rows[k]
       /\ csv'.rows[num] = r
  BY <1>4, <1>13, <1>14, <1>15, RowChanged
<1>17. Complete(csv, num - 1)'  BY <1>3, <1>4, <1>16 DEF Complete
<1>18. ByName(ids)' /\ Graded(table)' = Graded(table)  BY <1>3, <1>4 DEF ByName, Graded
<1>19. \A k \in 1..(i' - 1): table'[k].points # 0  BY <1>3, <1>4, <1>5
<1>20. /\ num' <= Len(ids') /\ Len(csv'.rows) = num' /\ csv'.rows[num'].id = ids'[num']
       /\ i' > 0 /\ Len(csv'.rows[num'].cells) = i' - 1 /\ i' <= Len(table') + 1
  <2>1. i' > 0 /\ i' <= Len(table') + 1 /\ i' - 1 = i  BY <1>3, <1>6
  <2>2. csv'.rows[num'] = r /\ r.id = ids[num] /\ Len(r.cells) = i
    BY <1>3, <1>6, <1>13, <1>15, <1>16
  <2>3. num' <= Len(ids') /\ Len(csv'.rows) = num' /\ ids' = ids /\ num' = num
    BY <1>3, <1>4, <1>16
  <2> QED  BY <2>1, <2>2, <2>3
<1>21. total' \in [Ids -> Int]  BY <1>3 DEF RowsInv
<1> QED  BY <1>3, <1>4, <1>10, <1>11, <1>16, <1>17, <1>18, <1>19, <1>20, <1>21 DEF RowsInv, Gradeds

LEMMA StudentDoneRows == ASSUME FiledInv, RowsInv, StudentDone PROVE RowsInv'
<1>1. /\ pc = "cells" /\ (i <= Len(table) => table[i].points = 0)
      /\ csv' = [csv EXCEPT !.rows[LastRow].sum = Rounded(score)]
      /\ num' = num + 1 /\ score' = 0 /\ pc' = "row"
      /\ UNCHANGED <<opts, table, ids>>
  BY DEF StudentDone, AtEnd, Goto
<1>2. total' = IF opts.s # "none" THEN [total EXCEPT ![Student] = score] ELSE total
  BY DEF StudentDone, listVars
<1>3. /\ csv \in CsvFiles /\ Len(csv.head) = Len(Graded(table))
      /\ num \in 1..(Len(ids) + 1) /\ Complete(csv, num - 1)
      /\ num <= Len(ids) /\ Len(csv.rows) = num /\ csv.rows[num].id = ids[num]
      /\ i > 0 /\ Len(csv.rows[num].cells) = i - 1 /\ i <= Len(table) + 1
      /\ \A k \in 1..(i - 1): table[k].points # 0
      /\ ids \in Seq(Ids) /\ ByName(ids) /\ score \in Int /\ total \in [Ids -> Int]
  BY <1>1 DEF RowsInv
<1>4. i \in Nat /\ table \in Seq(Lines)  BY DEF FiledInv
<1>5. Len(table) \in Nat /\ i \in 1..(Len(table) + 1)  BY <1>3, <1>4
<1>6. Len(csv.head) = i - 1  BY <1>1, <1>3, <1>4, <1>5, EndIs
<1>7. /\ num \in Nat /\ num # 0 /\ Len(ids) \in Nat /\ csv.rows \in Seq(Rows)
      /\ DOMAIN ids = 1..Len(ids) /\ \A k \in 1..Len(ids): ids[k] \in Ids
  BY <1>3 DEF CsvFiles
<1> DEFINE old == csv.rows[num]
           r == [old EXCEPT !.sum = Rounded(score)]
<1>8. old \in Rows  BY <1>3, <1>7
<1>9. Rounded(score) \in Int  BY <1>3, RoundedIs
<1>10. r \in Rows /\ r.id = old.id /\ r.cells = old.cells /\ r.sum = Rounded(score)
  BY <1>8, <1>9, RowIs
<1>11. csv' = [csv EXCEPT !.rows[Len(csv.rows)] = r]
  BY <1>1, <1>3, <1>7 DEF LastRow, CsvFiles
<1>12. old.id = ids[num] /\ Len(old.cells) = i - 1 /\ csv.rows # << >>  BY <1>3, <1>7
<1> HIDE DEF r, old
<1>13. /\ csv' \in CsvFiles /\ csv'.head = csv.head /\ Len(csv'.rows) = num
       /\ \A k \in 1..(num - 1): csv'.rows[k] = csv.rows[k]
       /\ csv'.rows[num] = r
  <2>1. csv \in CsvFiles /\ Len(csv.rows) = num  BY <1>3
  <2>2. r \in Rows /\ csv.rows # << >>  BY <1>10, <1>12
  <2> QED  BY <1>11, <2>1, <2>2, RowChanged
<1>14. \A k \in 1..(num - 1): ids[k] # ids[num]
  <2> SUFFICES ASSUME NEW k \in 1..(num - 1) PROVE ids[k] # ids[num]
    OBVIOUS
  <2>1. k \in DOMAIN ids /\ num \in DOMAIN ids /\ k < num  BY <1>3, <1>7
  <2>2. Place(ids[k]) < Place(ids[num])  BY <1>3, <2>1 DEF ByName
  <2>3. Place(ids[num]) < Place(ids[num]) => FALSE
    <3>1. ids[num] \in Ids  BY <1>3, <1>7
    <3>2. Place(ids[num]) \in Int  BY <3>1, PlaceIs
    <3> QED  BY <3>2
  <2> QED  BY <2>2, <2>3
<1>15. Student = ids[num] /\ Student \in Ids  BY <1>3, <1>7 DEF Student
<1>16. total' \in [Ids -> Int]  BY <1>2, <1>3, <1>15
<1>17. \A k \in 1..(num - 1): total'[ids[k]] = total[ids[k]]
  <2> SUFFICES ASSUME NEW k \in 1..(num - 1) PROVE total'[ids[k]] = total[ids[k]]
    OBVIOUS
  <2>1. k \in 1..Len(ids) /\ ids[k] \in Ids  BY <1>3, <1>7
  <2> QED  BY <1>2, <1>3, <1>14, <1>15, <2>1
<1>18. Complete(csv, num - 1)'
  <2> SUFFICES ASSUME NEW k \in 1..num
               PROVE  /\ csv'.rows[k].id = ids[k]
                      /\ Len(csv'.rows[k].cells) = Len(csv'.head)
                      /\ opts.s # "none" => csv'.rows[k].sum = Rounded(total'[ids[k]])
    <3>1. num' - 1 = num /\ ids' = ids /\ opts' = opts  BY <1>1, <1>7
    <3> QED  BY <3>1 DEF Complete
  <2>1. CASE k = num
    <3>1. csv'.rows[k] = r  BY <1>13, <2>1
    <3>2. opts.s # "none" => total'[ids[k]] = score  BY <1>2, <1>3, <1>15, <2>1
    <3> QED  BY <1>6, <1>10, <1>12, <1>13, <2>1, <3>1, <3>2
  <2>2. CASE k # num
    <3>1. k \in 1..(num - 1)  BY <1>7, <2>2
    <3>2. csv'.rows[k] = csv.rows[k] /\ csv'.head = csv.head /\ total'[ids[k]] = total[ids[k]]
      BY <1>13, <1>17, <3>1
    <3>3. /\ csv.rows[k].id = ids[k]
          /\ Len(csv.rows[k].cells) = Len(csv.head)
          /\ opts.s # "none" => csv.rows[k].sum = Rounded(total[ids[k]])
      BY <1>3, <3>1 DEF Complete
    <3> QED  BY <3>2, <3>3
  <2> QED  BY <2>1, <2>2
<1>19. ByName(ids)' /\ Graded(table)' = Graded(table)  BY <1>1, <1>3 DEF ByName, Graded
<1>20. num' \in 1..(Len(ids') + 1) /\ num' \in Nat /\ Len(csv'.rows) = num' - 1
  BY <1>1, <1>3, <1>7, <1>13
<1> QED  BY <1>1, <1>3, <1>13, <1>16, <1>18, <1>19, <1>20 DEF RowsInv, Gradeds

LEMMA AllDoneRows == ASSUME FiledInv, RowsInv, AllDone PROVE RowsInv'
<1>1. /\ pc = "row" /\ num > Len(ids)
      /\ pc' \in Gradeds \cup {"exit"} /\ (pc' = "exit" <=> opts.s = "none")
      /\ UNCHANGED <<csv, opts, table, ids, num, score, total>>
  BY DEF AllDone, Goto, Gradeds, fileVars, gradeVars, listVars
<1>2. /\ csv \in CsvFiles /\ num \in 1..(Len(ids) + 1) /\ Complete(csv, num - 1)
      /\ Len(csv.rows) = num - 1 /\ ids \in Seq(Ids) /\ ByName(ids)
  BY <1>1 DEF RowsInv
<1>3. num - 1 = Len(ids)  BY <1>1, <1>2
<1>4. csv' \in CsvFiles /\ Len(csv'.rows) = Len(ids') /\ Complete(csv, Len(ids))'
  BY <1>1, <1>2, <1>3 DEF Complete
<1>5. ByName(ids)' /\ pc' # "print"  BY <1>1, <1>2 DEF ByName, Gradeds
<1> QED  BY <1>1, <1>4, <1>5 DEF RowsInv, Gradeds

(* The sort changes no rows. *)
LEMMA SortRows ==
  ASSUME RowsInv, PassStart \/ Sorted \/ Keep \/ Swap \/ PassEnd
  PROVE  RowsInv'
<1>1. /\ pc \in {"sort", "pass"} /\ pc' \in Gradeds
      /\ UNCHANGED <<csv, opts, ids, num, score, total>>
  <2>1. CASE PassStart \/ Sorted \/ Keep \/ PassEnd
    BY <2>1 DEF PassStart, Sorted, Keep, PassEnd, Goto, Gradeds, fileVars, gradeVars, listVars
  <2>2. CASE Swap  BY <2>2 DEF Swap, Gradeds, fileVars, gradeVars
  <2> QED  BY <2>1, <2>2
<1>2. /\ csv \in CsvFiles /\ Len(csv.rows) = Len(ids) /\ Complete(csv, Len(ids))
      /\ ByName(ids) /\ opts.s # "none"
  BY <1>1 DEF RowsInv, Gradeds
<1>3. Complete(csv, Len(ids))' /\ ByName(ids)'  BY <1>1, <1>2 DEF Complete, ByName
<1> QED  BY <1>1, <1>2, <1>3 DEF RowsInv, Gradeds

LEMMA ReadRows == ASSUME RowsInv, ReadScoreFile PROVE RowsInv'
<1>1. /\ pc = "read" /\ pc' = "print" /\ scoreArr' = csv
      /\ UNCHANGED <<opts, ids, num, score, total>>
  BY DEF ReadScoreFile, Goto, gradeVars, listVars
<1>2. /\ csv \in CsvFiles /\ Len(csv.rows) = Len(ids) /\ Complete(csv, Len(ids))
      /\ ByName(ids) /\ opts.s # "none"
  BY <1>1 DEF RowsInv, Gradeds
<1>3. Complete(scoreArr, Len(ids))' /\ ByName(ids)'  BY <1>1, <1>2 DEF Complete, ByName
<1> QED  BY <1>1, <1>2, <1>3 DEF RowsInv, Gradeds

LEMMA PrintRows == ASSUME RowsInv, PrintRow \/ Printed PROVE RowsInv'
<1>1. /\ pc = "print" /\ pc' \in {"print", "exit"}
      /\ UNCHANGED <<scoreArr, opts, ids, num, score, total>>
  BY DEF PrintRow, Printed, Goto, gradeVars, listVars, sortVars
<1>2. /\ scoreArr \in CsvFiles /\ Len(scoreArr.rows) = Len(ids) /\ Complete(scoreArr, Len(ids))
      /\ ByName(ids) /\ opts.s # "none"
  BY <1>1 DEF RowsInv
<1>3. Complete(scoreArr, Len(ids))' /\ ByName(ids)'  BY <1>1, <1>2 DEF Complete, ByName
<1> QED  BY <1>1, <1>2, <1>3 DEF RowsInv, Gradeds

LEMMA NextRows == FiledInv /\ RowsInv /\ [Next]_vars => RowsInv'
<1> SUFFICES ASSUME FiledInv, RowsInv, [Next]_vars PROVE RowsInv'
  OBVIOUS
<1>1. CASE SetIds  BY <1>1, SetIdsRows
<1>2. CASE WriteFirstRow  BY <1>2, FirstRowRows
<1>3. CASE NextStudent  BY <1>3, NextStudentRows
<1>4. CASE ScoreQuestion  BY <1>4, QuestionRows
<1>5. CASE StudentDone  BY <1>5, StudentDoneRows
<1>6. CASE AllDone  BY <1>6, AllDoneRows
<1>7. CASE PassStart \/ Sorted \/ Keep \/ Swap \/ PassEnd  BY <1>7, SortRows
<1>8. CASE ReadScoreFile  BY <1>8, ReadRows
<1>9. CASE PrintRow \/ Printed  BY <1>9, PrintRows
<1>10. CASE NoTable \/ ModifyCrash \/ Interrupt \/ Exit
  BY <1>10, EndRows DEF NoTable, ModifyCrash, Interrupt, Exit
<1>11. CASE Start \/ RemoveTable
  BY <1>11, EarlyRows DEF Start, RemoveTable, Goto, gradeVars, listVars
<1>12. CASE ReadTable \/ MakeTable \/ Modify \/ ModifyDone
  BY <1>12, EarlyRows DEF ReadTable, MakeTable, Modify, ModifyDone, Goto, gradeVars, listVars
<1>13. CASE Creat \/ WriteLine
  BY <1>13, EarlyRows DEF Creat, WriteLine, listVars
<1>14. CASE Written
  <2>1. pc' \in {"header", "ids"} /\ UNCHANGED <<ids, num, score, total>>
    BY <1>14 DEF Written, Goto, listVars
  <2> QED  BY <2>1, EarlyRows
<1>15. CASE UNCHANGED vars
  <2>1. UNCHANGED <<csv, pc, opts, table, ids, i, num, score, total, scoreArr>>
    BY <1>15 DEF vars, fileVars, gradeVars, listVars, sortVars
  <2>2. Graded(table)' = Graded(table)  BY <2>1 DEF Graded
  <2> QED  BY <2>1, <2>2 DEF RowsInv, Complete, ByName
<1> QED
  BY <1>1, <1>2, <1>3, <1>4, <1>5, <1>6, <1>7, <1>8, <1>9, <1>10, <1>11, <1>12, <1>13, <1>14,
     <1>15 DEF Next, Step, User

LEMMA RowsHold == Spec => [](FiledInv /\ RowsInv)
<1>1. Init => FiledInv /\ RowsInv  BY InitFiled, InitRows
<1>2. FiledInv /\ RowsInv /\ [Next]_vars => (FiledInv /\ RowsInv)'  BY NextFiled, NextRows
<1> QED  BY <1>1, <1>2, PTL DEF Spec

(* score.csv lines up: for every student that there was when the run began *)
(* a row, in that order, with a cell for every question of the first row.  *)
THEOREM RowsAlignCorrect == Spec => []RowsAlign
<1>1. FiledInv /\ RowsInv => RowsAlign
  <2> SUFFICES ASSUME FiledInv, RowsInv, pc \in {"sort", "pass", "read"} \/ (pc = "exit" /\ opts.s = "none")
               PROVE  /\ [k \in DOMAIN csv.rows |-> csv.rows[k].id] = ids
                      /\ \A k \in DOMAIN csv.rows: Len(csv.rows[k].cells) = Len(csv.head)
    BY DEF RowsAlign
  <2>1. csv \in CsvFiles /\ Len(csv.rows) = Len(ids) /\ Complete(csv, Len(ids)) /\ ids \in Seq(Ids)
    BY DEF RowsInv, Gradeds
  <2>2. /\ csv.rows \in Seq(Rows) /\ DOMAIN csv.rows = 1..Len(ids) /\ DOMAIN ids = 1..Len(ids)
        /\ Len(ids) \in Nat
    BY <2>1 DEF CsvFiles
  <2>3. \A k \in 1..Len(ids): /\ csv.rows[k].id = ids[k]
                              /\ Len(csv.rows[k].cells) = Len(csv.head)
    BY <2>1 DEF Complete
  <2>4. ids = [k \in 1..Len(ids) |-> ids[k]]  BY <2>1, <2>2
  <2>5. [k \in DOMAIN csv.rows |-> csv.rows[k].id] = [k \in 1..Len(ids) |-> ids[k]]
    BY <2>2, <2>3
  <2> QED  BY <2>2, <2>3, <2>4, <2>5
<1> QED  BY <1>1, RowsHold, PTL

(***************************************************************************)
(* The linked list                                                         *)
(***************************************************************************)

LEMMA OrderIs ==
  ASSUME FiledInv, RowsInv, opts.s # "none"
  PROVE  /\ \A a, b, c \in Ids: ~OutOfOrder(a, b) /\ ~OutOfOrder(b, c) => ~OutOfOrder(a, c)
         /\ \A a, b \in Ids: OutOfOrder(a, b) => ~OutOfOrder(b, a)
<1> SUFFICES ASSUME NEW a \in Ids, NEW b \in Ids, NEW c \in Ids
             PROVE  /\ ~OutOfOrder(a, b) /\ ~OutOfOrder(b, c) => ~OutOfOrder(a, c)
                    /\ OutOfOrder(a, b) => ~OutOfOrder(b, a)
  OBVIOUS
<1>1. opts.s \in Orders  BY DEF FiledInv
<1>2. total[a] \in Int /\ total[b] \in Int /\ total[c] \in Int  BY DEF RowsInv
<1>3. Place(a) \in Nat /\ Place(b) \in Nat /\ Place(c) \in Nat  BY PlaceIs
<1>4. CASE opts.s = "stdid"  BY <1>3, <1>4 DEF OutOfOrder
<1>5. CASE opts.s = "stdid-1"  BY <1>3, <1>5 DEF OutOfOrder
<1>6. CASE opts.s = "score"  BY <1>2, <1>6 DEF OutOfOrder
<1>7. CASE opts.s = "score-1"  BY <1>2, <1>7 DEF OutOfOrder
<1> QED  BY <1>1, <1>4, <1>5, <1>6, <1>7 DEF Orders

LEMMA OrderSame ==
  ASSUME UNCHANGED <<opts, total>>
  PROVE  \A a, b: OutOfOrder(a, b)' <=> OutOfOrder(a, b)
  BY DEF OutOfOrder

LEMMA ListedIs ==
  ASSUME ids \in Seq(Ids), NEW l \in Listed
  PROVE  /\ Len(ids) \in Nat /\ DOMAIN l = 1..Len(ids)
         /\ \A k \in 1..Len(ids): l[k] \in Ids /\ l[k] # Null
         /\ \A j, k \in 1..Len(ids): l[j] = l[k] => j = k
<1>1. Len(ids) \in Nat /\ DOMAIN ids = 1..Len(ids) /\ ToSet(ids) \subseteq Ids
  BY DEF ToSet
<1>2. l \in [1..Len(ids) -> ToSet(ids)] /\ IsInjective(l)  BY <1>1 DEF Listed
<1>3. Null \notin Ids  BY IdsAssumption
<1> QED  BY <1>1, <1>2, <1>3 DEF IsInjective

LEMMA IdsApart ==
  ASSUME RowsInv
  PROVE  /\ Len(ids) \in Nat /\ DOMAIN ids = 1..Len(ids)
         /\ \A k \in 1..Len(ids): ids[k] \in Ids /\ ids[k] # Null
         /\ \A j, k \in 1..Len(ids): ids[j] = ids[k] => j = k
<1>1. ids \in Seq(Ids) /\ ByName(ids)  BY DEF RowsInv
<1>2. Len(ids) \in Nat /\ DOMAIN ids = 1..Len(ids) /\ \A k \in 1..Len(ids): ids[k] \in Ids
  BY <1>1
<1>3. Null \notin Ids  BY IdsAssumption
<1>4. ASSUME NEW j \in 1..Len(ids), NEW k \in 1..Len(ids), j < k, ids[j] = ids[k]
      PROVE  FALSE
  <2>1. Place(ids[j]) < Place(ids[j])  BY <1>1, <1>2, <1>4 DEF ByName
  <2>2. Place(ids[j]) \in Nat  BY <1>2, PlaceIs
  <2> QED  BY <2>1, <2>2
<1>5. ASSUME NEW j \in 1..Len(ids), NEW k \in 1..Len(ids), ids[j] = ids[k]
      PROVE  j = k
  BY <1>2, <1>4, <1>5
<1> QED  BY <1>2, <1>3, <1>5

LEMMA IdsListed == RowsInv => ids \in Listed
<1> SUFFICES ASSUME RowsInv PROVE ids \in Listed
  OBVIOUS
<1>1. IsInjective(ids)  BY IdsApart DEF IsInjective
<1>2. ids \in [DOMAIN ids -> ToSet(ids)]
  <2>1. ids \in Seq(Ids)  BY DEF RowsInv
  <2>2. \A k \in DOMAIN ids: ids[k] \in ToSet(ids)  BY DEF ToSet
  <2> QED  BY <2>1, <2>2
<1> QED  BY <1>1, <1>2 DEF Listed

(* The facts about a list that a step which does not relink it keeps. *)
LEMMA SameList ==
  ASSUME UNCHANGED <<ids, scoreRoot, next, opts, total>>
  PROVE  /\ Listed' = Listed
         /\ \A l: Linked(l)' <=> Linked(l)
         /\ \A l, m: InOrder(l, m)' <=> InOrder(l, m)
         /\ \A l, c: Highest(l, c)' <=> Highest(l, c)
<1>1. \A a, b: OutOfOrder(a, b)' <=> OutOfOrder(a, b)  BY OrderSame
<1>2. Listed' = Listed  BY DEF Listed
<1>3. \A l: Linked(l)' <=> Linked(l)  BY DEF Linked
<1>4. \A l, m: InOrder(l, m)' <=> InOrder(l, m)  BY <1>1 DEF InOrder
<1>5. \A l, c: Highest(l, c)' <=> Highest(l, c)  BY <1>1 DEF Highest
<1> QED  BY <1>2, <1>3, <1>4, <1>5

LEMMA InitList == Init => ListInv
<1> SUFFICES ASSUME Init PROVE ListInv
  OBVIOUS
<1>1. pc = "idle" /\ scoreRoot = Null /\ next = [s \in Ids |-> Null] /\ ep = Null
  BY DEF Init
<1> QED  BY <1>1 DEF ListInv, Gradeds

LEMMA EndList == ASSUME End PROVE ListInv'
<1>1. pc' = "idle" /\ scoreRoot' = Null /\ next' = [s \in Ids |-> Null] /\ ep' = Null
  BY DEF End, Goto, Fresh
<1> QED  BY <1>1 DEF ListInv, Gradeds

LEMMA EarlyList ==
  ASSUME ListInv, UNCHANGED <<next, scoreRoot, ep>>,
         pc \in {"idle", "table", "write", "ids", "modify"},
         pc' \in {"idle", "table", "write", "ids", "modify", "header"}
  PROVE  ListInv'
  BY DEF ListInv, Gradeds

LEMMA FirstRowList == ASSUME ListInv, WriteFirstRow PROVE ListInv'
<1>1. pc = "header" /\ pc' = "row" /\ num' = 1 /\ UNCHANGED <<scoreRoot, next, ep, ids>>
  BY DEF WriteFirstRow, Goto, listVars, sortVars
<1>2. scoreRoot = Null /\ next = [s \in Ids |-> Null] /\ ep = Null  BY <1>1 DEF ListInv, Gradeds
<1> DEFINE l == [k \in 1..(num' - 1) |-> ids'[k]]
<1>3. DOMAIN l = {}  BY <1>1
<1>4. scoreRoot' = At(l, 1) /\ \A k \in DOMAIN l: next'[l[k]] = At(l, k + 1)
  BY <1>1, <1>2, <1>3 DEF At
<1>5. Linked([k \in 1..(num - 1) |-> ids[k]])'  BY <1>4 DEF Linked
<1>6. next' \in [Ids -> Ids \cup {Null}] /\ \A s \in Ids: next'[s] = Null  BY <1>1, <1>2
<1> QED  BY <1>1, <1>2, <1>5, <1>6 DEF ListInv, Gradeds

(* Between rows the list is the same. *)
LEMMA CellsList ==
  ASSUME ListInv, UNCHANGED <<scoreRoot, next, ep, ids, num, opts>>,
         pc \in {"row", "cells"}, pc' \in {"row", "cells"}
  PROVE  ListInv'
<1>1. Linked([k \in 1..(num - 1) |-> ids[k]]) => Linked([k \in 1..(num - 1) |-> ids[k]])'
  BY DEF Linked
<1> QED  BY <1>1 DEF ListInv, Gradeds

(* The node is appended behind the last one. *)
LEMMA AppendList ==
  ASSUME RowsInv, ListInv, pc = "cells", opts.s # "none", AppendNode(Student)
  PROVE  /\ next' \in [Ids -> Ids \cup {Null}]
         /\ LET l == [k \in 1..num |-> ids[k]]
            IN scoreRoot' = At(l, 1) /\ \A k \in DOMAIN l: next'[l[k]] = At(l, k + 1)
         /\ \A s \in Ids: (\A k \in 1..num: ids[k] # s) => next'[s] = Null
<1> DEFINE l == [k \in 1..(num - 1) |-> ids[k]]
           longer == [k \in 1..num |-> ids[k]]
<1>1. num \in 1..Len(ids) /\ Student = ids[num]  BY IdsApart DEF RowsInv, Student
<1>2. /\ Len(ids) \in Nat
      /\ \A k \in 1..Len(ids): ids[k] \in Ids /\ ids[k] # Null
      /\ \A j, k \in 1..Len(ids): ids[j] = ids[k] => j = k
  BY IdsApart
<1>3. next \in [Ids -> Ids \cup {Null}] /\ Linked(l)  BY DEF ListInv
<1>4. \A s \in Ids: (\A k \in 1..(num - 1): ids[k] # s) => next[s] = Null  BY DEF ListInv
<1>5. next[ids[num]] = Null  BY <1>1, <1>2, <1>4
<1>6. \A k \in 1..(num - 1): next[ids[k]] = IF k = num - 1 THEN Null ELSE ids[k + 1]
  BY <1>1, <1>2, <1>3 DEF Linked, At
<1>7. scoreRoot = IF num = 1 THEN Null ELSE ids[1]  BY <1>1, <1>2, <1>3 DEF Linked, At
<1>8. CASE num = 1
  <2>1. scoreRoot' = ids[1] /\ next' = next  BY <1>1, <1>7, <1>8 DEF AppendNode
  <2>2. DOMAIN longer = {1} /\ longer[1] = ids[1]  BY <1>8
  <2>3. At(longer, 1) = ids[1] /\ At(longer, 2) = Null  BY <2>2 DEF At
  <2>4. \A k \in DOMAIN longer: next'[longer[k]] = At(longer, k + 1)
    BY <1>5, <1>8, <2>1, <2>2, <2>3
  <2>5. \A s \in Ids: (\A k \in 1..num: ids[k] # s) => next'[s] = Null
    BY <1>4, <1>8, <2>1
  <2> QED  BY <1>3, <2>1, <2>3, <2>4, <2>5
<1>9. CASE num # 1
  <2>1. scoreRoot # Null /\ scoreRoot = ids[1]  BY <1>1, <1>2, <1>7, <1>9
  <2>2. PICK k \in 1..(num - 1): next[ids[k]] = Null /\ next' = [next EXCEPT ![ids[k]] = ids[num]]
    BY <1>1, <2>1 DEF AppendNode
  <2>3. scoreRoot' = ids[1]  BY <2>1 DEF AppendNode
  <2>4. k = num - 1
    <3>1. k # num - 1 => k + 1 \in 1..Len(ids) /\ next[ids[k]] = ids[k + 1]
      BY <1>1, <1>2, <1>6
    <3> QED  BY <1>2, <2>2, <3>1
  <2>5. num - 1 \in 1..Len(ids) /\ num \in 1..Len(ids) /\ num \in Nat  BY <1>1, <1>2, <1>9
  <2>6. ids[num - 1] \in Ids /\ ids[num] \in Ids  BY <1>2, <2>5
  <2>7. \A s \in Ids: next'[s] = IF s = ids[num - 1] THEN ids[num] ELSE next[s]
    BY <1>3, <2>2, <2>4, <2>6
  <2>8. next' \in [Ids -> Ids \cup {Null}]  BY <1>3, <2>2, <2>4, <2>6
  <2>9. \A j \in 1..num: next'[ids[j]] = IF j = num THEN Null ELSE ids[j + 1]
    <3> SUFFICES ASSUME NEW j \in 1..num
                 PROVE  next'[ids[j]] = IF j = num THEN Null ELSE ids[j + 1]
      OBVIOUS
    <3>1. j \in 1..Len(ids) /\ ids[j] \in Ids /\ j \in Nat /\ j <= num  BY <1>1, <1>2
    <3>2. ids[j] = ids[num - 1] => j = num - 1  BY <1>2, <2>5, <3>1
    <3>3. CASE j = num
      <4>1. ids[j] # ids[num - 1]  BY <2>5, <3>2, <3>3
      <4> QED  BY <1>5, <2>6, <2>7, <3>3, <4>1
    <3>4. CASE j = num - 1  BY <2>5, <2>6, <2>7, <3>4
    <3>5. CASE j # num /\ j # num - 1
      <4>1. j \in 1..(num - 1)  BY <2>5, <3>1, <3>5
      <4>2. next[ids[j]] = ids[j + 1]  BY <1>6, <3>5, <4>1
      <4> QED  BY <2>7, <3>1, <3>2, <3>5, <4>2
    <3> QED  BY <3>3, <3>4, <3>5
  <2>10. scoreRoot' = At(longer, 1) /\ \A j \in DOMAIN longer: next'[longer[j]] = At(longer, j + 1)
    BY <2>3, <2>5, <2>9 DEF At
  <2>11. \A s \in Ids: (\A j \in 1..num: ids[j] # s) => next'[s] = Null
    <3> SUFFICES ASSUME NEW s \in Ids, \A j \in 1..num: ids[j] # s PROVE next'[s] = Null
      OBVIOUS
    <3>1. s # ids[num - 1] /\ \A j \in 1..(num - 1): ids[j] # s
      BY <1>9, <2>5
    <3> QED  BY <1>4, <2>7, <3>1
  <2> QED  BY <2>8, <2>10, <2>11
<1> QED  BY <1>8, <1>9

LEMMA StudentDoneList == ASSUME FiledInv, RowsInv, ListInv, StudentDone PROVE ListInv'
<1>1. /\ pc = "cells" /\ pc' = "row" /\ num' = num + 1 /\ num \in Nat
      /\ UNCHANGED <<ids, ep, opts>>
  BY DEF StudentDone, Goto, sortVars, RowsInv
<1>2. next \in [Ids -> Ids \cup {Null}] /\ ep' = Null  BY <1>1 DEF ListInv, Gradeds
<1>3. num' - 1 = num  BY <1>1
<1>4. CASE opts.s = "none"
  <2>1. next' = next  BY <1>4 DEF StudentDone, listVars
  <2> QED  BY <1>1, <1>2, <1>4, <2>1 DEF ListInv, Gradeds
<1>5. CASE opts.s # "none"
  <2>1. AppendNode(Student)  BY <1>5 DEF StudentDone
  <2> DEFINE l == [k \in 1..num |-> ids[k]]
  <2>2. /\ next' \in [Ids -> Ids \cup {Null}]
        /\ scoreRoot' = At(l, 1) /\ \A k \in DOMAIN l: next'[l[k]] = At(l, k + 1)
        /\ \A s \in Ids: (\A k \in 1..num: ids[k] # s) => next'[s] = Null
    BY <1>1, <1>5, <2>1, AppendList
  <2>3. [k \in 1..(num' - 1) |-> ids'[k]] = l  BY <1>1, <1>3
  <2> HIDE DEF l
  <2>4. Linked([k \in 1..(num - 1) |-> ids[k]])'  BY <2>2, <2>3 DEF Linked
  <2>5. \A s \in Ids: (\A k \in 1..(num' - 1): ids'[k] # s) => next'[s] = Null
    BY <1>1, <1>3, <2>2
  <2> QED  BY <1>1, <1>2, <2>2, <2>4, <2>5 DEF ListInv, Gradeds
<1> QED  BY <1>4, <1>5

LEMMA AllDoneList == ASSUME RowsInv, ListInv, AllDone PROVE ListInv'
<1> DEFINE n == Len(ids)
<1>1. /\ pc = "row" /\ num > n
      /\ pc' = IF opts.s = "none" THEN "exit"
               ELSE IF scoreRoot = Null \/ next[scoreRoot] = Null THEN "read" ELSE "sort"
      /\ UNCHANGED <<ids, num, opts, scoreRoot, next, ep>>
  BY DEF AllDone, Goto, gradeVars, listVars, sortVars
<1>2. next \in [Ids -> Ids \cup {Null}] /\ ep = Null  BY <1>1 DEF ListInv, Gradeds
<1>3. CASE opts.s = "none"
  BY <1>1, <1>2, <1>3 DEF ListInv, Gradeds
<1>4. CASE opts.s # "none"
  <2>1. Linked([k \in 1..(num - 1) |-> ids[k]])  BY <1>1, <1>4 DEF ListInv
  <2>2. /\ n \in Nat /\ DOMAIN ids = 1..n
        /\ \A k \in 1..n: ids[k] \in Ids /\ ids[k] # Null
    BY IdsApart
  <2>3. num - 1 = n  BY <1>1, <2>2 DEF RowsInv
  <2>4. [k \in 1..(num - 1) |-> ids[k]] = ids
    <3>1. ids = [k \in 1..n |-> ids[k]]
      <4>1. ids \in Seq(Ids)  BY DEF RowsInv
      <4> QED  BY <2>2, <4>1
    <3> QED  BY <2>3, <3>1
  <2>5. Linked(ids) /\ ids \in Listed  BY <2>1, <2>4, IdsListed
  <2>6. PICK l \in Listed: l = ids /\ Linked(l)  BY <2>5
  <2> DEFINE same == l \in Listed' /\ Linked(l)' /\ \A m: InOrder(l, m)' <=> InOrder(l, m)
  <2>same. same  BY <1>1, <2>6, SameList DEF listVars, AllDone
  <2>7. scoreRoot = (IF n = 0 THEN Null ELSE ids[1])
        /\ (n > 0 => next[ids[1]] = IF n = 1 THEN Null ELSE ids[2])
    BY <2>2, <2>5 DEF Linked, At
  <2>8. scoreRoot = Null \/ next[scoreRoot] = Null <=> n < 2
    <3>1. n > 0 => ids[1] # Null  BY <2>2
    <3>2. n > 1 => ids[2] # Null  BY <2>2
    <3> QED  BY <2>2, <2>7, <3>1, <3>2
  <2>9. CASE n < 2
    <3>1. pc' = "read"  BY <1>1, <1>4, <2>8, <2>9
    <3>2. InOrder(l, 0)  BY <2>2, <2>6, <2>9 DEF InOrder
    <3>3. \E l2 \in Listed': Linked(l2)' /\ InOrder(l2, 0)'  BY <2>same, <3>2
    <3> QED  BY <1>1, <1>2, <3>1, <3>3 DEF ListInv, Gradeds
  <2>10. CASE n > 1
    <3>1. pc' = "sort" /\ Len(ids') > 1  BY <1>1, <1>4, <2>2, <2>8, <2>10
    <3>2. n \in DOMAIN l /\ ep' = At(l, n + 1)  BY <1>1, <1>2, <2>2, <2>6, <2>10 DEF At
    <3>3. InOrder(l, n)  BY <2>2, <2>6 DEF InOrder
    <3> HIDE DEF n
    <3>4. \E l2 \in Listed': Linked(l2)' /\ \E m \in DOMAIN l2: ep' = At(l2, m + 1) /\ InOrder(l2, m)'
      BY <2>same, <3>2, <3>3
    <3> USE DEF n
    <3> QED  BY <1>1, <1>2, <3>1, <3>4 DEF ListInv, Gradeds
  <2> QED  BY <2>2, <2>9, <2>10
<1> QED  BY <1>3, <1>4

LEMMA PassStartList == ASSUME RowsInv, ListInv, PassStart PROVE ListInv'
<1>1. /\ pc = "sort" /\ pc' = "pass" /\ ep # next[scoreRoot] /\ cp' = scoreRoot /\ prev' = Null
      /\ UNCHANGED <<ids, scoreRoot, next, opts, total, ep>>
  BY DEF PassStart, Goto, listVars
<1>2. Len(ids) > 1 /\ next \in [Ids -> Ids \cup {Null}]  BY <1>1 DEF ListInv
<1>3. PICK l \in Listed: Linked(l) /\ \E m \in DOMAIN l: ep = At(l, m + 1) /\ InOrder(l, m)
  BY <1>1 DEF ListInv
<1>4. PICK m \in DOMAIN l: ep = At(l, m + 1) /\ InOrder(l, m)  BY <1>3
<1>5. ids \in Seq(Ids)  BY DEF RowsInv
<1>6. Len(ids) \in Nat /\ DOMAIN l = 1..Len(ids)  BY <1>5, ListedIs
<1>7. scoreRoot = l[1] /\ next[l[1]] = l[2]  BY <1>2, <1>3, <1>6 DEF Linked, At
<1>8. m > 1
  <2>1. m = 1 => ep = l[2]  BY <1>2, <1>4, <1>6 DEF At
  <2> QED  BY <1>1, <1>4, <1>6, <1>7, <2>1
<1>9. 1 \in 1..m /\ cp' = l[1] /\ prev' = At(l, 1 - 1) /\ Highest(l, 1)'
  <2>1. 0 \notin DOMAIN l /\ 1 - 1 = 0  BY <1>6
  <2>2. At(l, 1 - 1) = Null  BY <2>1 DEF At
  <2> QED  BY <1>1, <1>6, <1>7, <1>8, <2>2 DEF Highest
<1>10. l \in Listed' /\ Linked(l)' /\ InOrder(l, m)' /\ ep' = At(l, m + 1)
  BY <1>1, <1>3, <1>4, SameList
<1>11. \E l2 \in Listed': Linked(l2)' /\ \E m2 \in DOMAIN l2:
         /\ m2 > 1 /\ ep' = At(l2, m2 + 1) /\ InOrder(l2, m2)'
         /\ \E c \in 1..m2: cp' = l2[c] /\ prev' = At(l2, c - 1) /\ Highest(l2, c)'
  BY <1>8, <1>9, <1>10
<1> QED  BY <1>1, <1>2, <1>11 DEF ListInv, Gradeds

LEMMA SortedList == ASSUME RowsInv, ListInv, Sorted PROVE ListInv'
<1>1. /\ pc = "sort" /\ pc' = "read" /\ ep = next[scoreRoot]
      /\ UNCHANGED <<ids, scoreRoot, next, opts, total>>
  BY DEF Sorted, Goto, listVars
<1>2. Len(ids) > 1 /\ next \in [Ids -> Ids \cup {Null}]  BY <1>1 DEF ListInv
<1>3. PICK l \in Listed: Linked(l) /\ \E m \in DOMAIN l: ep = At(l, m + 1) /\ InOrder(l, m)
  BY <1>1 DEF ListInv
<1>4. PICK m \in DOMAIN l: ep = At(l, m + 1) /\ InOrder(l, m)  BY <1>3
<1>5. ids \in Seq(Ids)  BY DEF RowsInv
<1>6. /\ Len(ids) \in Nat /\ DOMAIN l = 1..Len(ids)
      /\ \A k \in 1..Len(ids): l[k] # Null
      /\ \A j, k \in 1..Len(ids): l[j] = l[k] => j = k
  BY <1>5, ListedIs
<1>7. ep = l[2]
  <2>1. scoreRoot = l[1] /\ next[l[1]] = l[2]  BY <1>2, <1>3, <1>6 DEF Linked, At
  <2> QED  BY <1>1, <2>1
<1>8. m = 1
  <2>1. m + 1 \in 1..Len(ids)  BY <1>2, <1>4, <1>6, <1>7 DEF At
  <2>2. l[m + 1] = l[2]  BY <1>4, <1>6, <1>7, <2>1 DEF At
  <2>3. 2 \in 1..Len(ids)  BY <1>2, <1>6
  <2>4. m + 1 = 2  BY <1>6, <2>1, <2>2, <2>3
  <2> QED  BY <1>6, <2>4
<1>9. InOrder(l, 0)
  <2> SUFFICES ASSUME NEW j \in DOMAIN l, NEW k \in DOMAIN l, j < k PROVE ~OutOfOrder(l[j], l[k])
    BY DEF InOrder
  <2>1. k > m  BY <1>6, <1>8
  <2> QED  BY <1>4, <2>1 DEF InOrder
<1>10. \E l2 \in Listed': Linked(l2)' /\ InOrder(l2, 0)'
  BY <1>1, <1>3, <1>9, SameList
<1> QED  BY <1>1, <1>2, <1>10 DEF ListInv, Gradeds

(* What a pass that is under way knows. *)
LEMMA PassIs ==
  ASSUME RowsInv, ListInv, pc = "pass"
  PROVE  \E l \in Listed, m \in 2..Len(ids), c \in Nat:
           /\ c \in 1..m /\ Linked(l) /\ ep = At(l, m + 1) /\ InOrder(l, m)
           /\ cp = l[c] /\ prev = At(l, c - 1) /\ Highest(l, c)
           /\ next[cp] = At(l, c + 1) /\ (next[cp] = ep <=> c = m)
<1>1. PICK l \in Listed: Linked(l) /\ \E m \in DOMAIN l:
        /\ m > 1 /\ ep = At(l, m + 1) /\ InOrder(l, m)
        /\ \E c \in 1..m: cp = l[c] /\ prev = At(l, c - 1) /\ Highest(l, c)
  BY DEF ListInv
<1>2. PICK m \in DOMAIN l:
        /\ m > 1 /\ ep = At(l, m + 1) /\ InOrder(l, m)
        /\ \E c \in 1..m: cp = l[c] /\ prev = At(l, c - 1) /\ Highest(l, c)
  BY <1>1
<1>3. PICK c \in 1..m: cp = l[c] /\ prev = At(l, c - 1) /\ Highest(l, c)
  BY <1>2
<1>4. ids \in Seq(Ids)  BY DEF RowsInv
<1>5. /\ Len(ids) \in Nat /\ DOMAIN l = 1..Len(ids)
      /\ \A k \in 1..Len(ids): l[k] # Null
      /\ \A j, k \in 1..Len(ids): l[j] = l[k] => j = k
  BY <1>4, ListedIs
<1>6. m \in 2..Len(ids) /\ c \in Nat /\ c \in DOMAIN l  BY <1>2, <1>3, <1>5
<1>7. next[cp] = At(l, c + 1)  BY <1>1, <1>3, <1>6 DEF Linked
<1>8. At(l, c + 1) = At(l, m + 1) => c = m
  <2> SUFFICES ASSUME c # m, At(l, c + 1) = At(l, m + 1) PROVE FALSE
    OBVIOUS
  <2>1. c + 1 \in 1..Len(ids)  BY <1>3, <1>5, <1>6
  <2>2. l[c + 1] = At(l, m + 1) /\ l[c + 1] # Null  BY <1>5, <2>1 DEF At
  <2>3. m + 1 \in 1..Len(ids) /\ l[c + 1] = l[m + 1]  BY <1>5, <2>2 DEF At
  <2>4. c + 1 = m + 1  BY <1>5, <2>1, <2>3
  <2> QED  BY <1>3, <1>6, <2>4
<1>9. next[cp] = ep <=> c = m  BY <1>2, <1>7, <1>8
<1> QED  BY <1>1, <1>2, <1>3, <1>6, <1>7, <1>9

LEMMA KeepList == ASSUME FiledInv, RowsInv, ListInv, Keep PROVE ListInv'
<1>1. /\ pc = "pass" /\ pc' = "pass" /\ next[cp] # ep /\ ~OutOfOrder(cp, next[cp])
      /\ prev' = cp /\ cp' = next[cp]
      /\ UNCHANGED <<ids, scoreRoot, next, opts, total, ep>>
  BY DEF Keep, listVars
<1>2. PICK l \in Listed, m \in 2..Len(ids), c \in Nat:
        /\ c \in 1..m /\ Linked(l) /\ ep = At(l, m + 1) /\ InOrder(l, m)
        /\ cp = l[c] /\ prev = At(l, c - 1) /\ Highest(l, c)
        /\ next[cp] = At(l, c + 1) /\ (next[cp] = ep <=> c = m)
  BY <1>1, PassIs
<1>3. ids \in Seq(Ids) /\ opts.s # "none"  BY <1>1 DEF RowsInv, Gradeds
<1>4. /\ Len(ids) \in Nat /\ DOMAIN l = 1..Len(ids)
      /\ \A k \in 1..Len(ids): l[k] \in Ids
  BY <1>3, ListedIs
<1> DEFINE d == c + 1
<1>5. d \in 1..m /\ d \in 1..Len(ids) /\ c \in 1..Len(ids) /\ d - 1 = c  BY <1>1, <1>2, <1>4
<1>6. next[cp] = l[d] /\ ~OutOfOrder(l[c], l[d])  BY <1>1, <1>2, <1>4, <1>5 DEF At
<1>7. Highest(l, d)
  <2> SUFFICES ASSUME NEW j \in 1..(d - 1) PROVE ~OutOfOrder(l[j], l[d])
    BY DEF Highest
  <2>1. CASE j = c  BY <1>6, <2>1
  <2>2. CASE j # c
    <3>1. j \in 1..(c - 1) /\ j \in 1..Len(ids)  BY <1>4, <1>5, <2>2
    <3>2. ~OutOfOrder(l[j], l[c])  BY <1>2, <3>1 DEF Highest
    <3>3. l[j] \in Ids /\ l[c] \in Ids /\ l[d] \in Ids  BY <1>4, <1>5, <3>1
    <3>4. \A x, y, z \in Ids: ~OutOfOrder(x, y) /\ ~OutOfOrder(y, z) => ~OutOfOrder(x, z)
      BY <1>3, OrderIs
    <3> HIDE DEF d
    <3> QED  BY <1>6, <3>2, <3>3, <3>4
  <2> QED  BY <2>1, <2>2
<1>8. prev' = At(l, d - 1) /\ cp' = l[d]  BY <1>1, <1>2, <1>4, <1>5, <1>6 DEF At
<1> HIDE DEF d
<1>9. /\ l \in Listed' /\ Linked(l)' /\ InOrder(l, m)' /\ Highest(l, d)'
      /\ ep' = At(l, m + 1) /\ m \in DOMAIN l /\ m > 1
  BY <1>1, <1>2, <1>4, <1>7, SameList
<1>10. \E l2 \in Listed': Linked(l2)' /\ \E m2 \in DOMAIN l2:
         /\ m2 > 1 /\ ep' = At(l2, m2 + 1) /\ InOrder(l2, m2)'
         /\ \E c2 \in 1..m2: cp' = l2[c2] /\ prev' = At(l2, c2 - 1) /\ Highest(l2, c2)'
  BY <1>5, <1>8, <1>9
<1>11. Len(ids') > 1 /\ next' \in [Ids -> Ids \cup {Null}]  BY <1>1 DEF ListInv
<1> QED  BY <1>1, <1>10, <1>11 DEF ListInv, Gradeds

LEMMA PassEndList == ASSUME RowsInv, ListInv, PassEnd PROVE ListInv'
<1>1. /\ pc = "pass" /\ pc' = "sort" /\ next[cp] = ep /\ ep' = cp
      /\ UNCHANGED <<ids, scoreRoot, next, opts, total>>
  BY DEF PassEnd, Goto, listVars
<1>2. PICK l \in Listed, m \in 2..Len(ids), c \in Nat:
        /\ c \in 1..m /\ Linked(l) /\ ep = At(l, m + 1) /\ InOrder(l, m)
        /\ cp = l[c] /\ prev = At(l, c - 1) /\ Highest(l, c)
        /\ next[cp] = At(l, c + 1) /\ (next[cp] = ep <=> c = m)
  BY <1>1, PassIs
<1>3. ids \in Seq(Ids)  BY DEF RowsInv
<1>4. Len(ids) \in Nat /\ DOMAIN l = 1..Len(ids)  BY <1>3, ListedIs
<1> DEFINE e == m - 1
<1>5. c = m /\ e \in DOMAIN l /\ e + 1 = m /\ m \in DOMAIN l  BY <1>1, <1>2, <1>4
<1>6. ep' = At(l, e + 1)  BY <1>1, <1>2, <1>5 DEF At
<1>7. InOrder(l, e)
  <2> SUFFICES ASSUME NEW j \in DOMAIN l, NEW k \in DOMAIN l, j < k, k > e
               PROVE  ~OutOfOrder(l[j], l[k])
    BY DEF InOrder
  <2>1. CASE k > m  BY <1>2, <2>1 DEF InOrder
  <2>2. CASE k = m
    <3>1. j \in 1..(c - 1)  BY <1>4, <1>5, <2>2
    <3> QED  BY <1>2, <1>5, <2>2, <3>1 DEF Highest
  <2> QED  BY <1>4, <1>5, <2>1, <2>2
<1> HIDE DEF e
<1>8. \E l2 \in Listed': Linked(l2)' /\ \E m2 \in DOMAIN l2: ep' = At(l2, m2 + 1) /\ InOrder(l2, m2)'
  BY <1>1, <1>2, <1>5, <1>6, <1>7, SameList
<1>9. Len(ids') > 1 /\ next' \in [Ids -> Ids \cup {Null}]  BY <1>1 DEF ListInv
<1> QED  BY <1>1, <1>8, <1>9 DEF ListInv, Gradeds

(* Two neighbours that change places. *)
Swapped(l, c) == [l EXCEPT ![c] = l[c + 1], ![c + 1] = l[c]]

LEMMA SwappedIs ==
  ASSUME ids \in Seq(Ids), NEW l \in Listed, NEW c \in 1..(Len(ids) - 1)
  PROVE  /\ Swapped(l, c) \in Listed
         /\ \A k \in 1..Len(ids):
              Swapped(l, c)[k] = IF k = c THEN l[c + 1] ELSE IF k = c + 1 THEN l[c] ELSE l[k]
<1> DEFINE n == Len(ids)
           s == Swapped(l, c)
<1>1. /\ n \in Nat /\ DOMAIN l = 1..n /\ DOMAIN ids = 1..n
      /\ \A j, k \in 1..n: l[j] = l[k] => j = k
  BY ListedIs
<1>2. l \in [1..n -> ToSet(ids)] /\ ToSet(l) = ToSet(ids)  BY <1>1 DEF Listed
<1>3. c \in 1..n /\ c + 1 \in 1..n /\ c # c + 1  BY <1>1
<1>4. s \in [1..n -> ToSet(ids)]  BY <1>2, <1>3 DEF Swapped
<1>5. \A k \in 1..n: s[k] = IF k = c THEN l[c + 1] ELSE IF k = c + 1 THEN l[c] ELSE l[k]
  BY <1>2, <1>3 DEF Swapped
<1> HIDE DEF s, n
<1>6. IsInjective(s)
  <2>1. \A j, k \in 1..n: s[j] = s[k] => j = k  BY <1>1, <1>3, <1>5
  <2> QED  BY <1>4, <2>1 DEF IsInjective
<1>7. ToSet(s) = ToSet(ids)
  <2>1. ToSet(s) \subseteq ToSet(ids)  BY <1>4 DEF ToSet
  <2>2. ASSUME NEW x \in ToSet(ids) PROVE x \in ToSet(s)
    <3>1. PICK k \in 1..n: l[k] = x  BY <1>1, <1>2 DEF ToSet
    <3>2. \E j \in 1..n: s[j] = x
      <4>1. CASE k = c  BY <1>3, <1>5, <3>1, <4>1
      <4>2. CASE k = c + 1  BY <1>3, <1>5, <3>1, <4>2
      <4>3. CASE k # c /\ k # c + 1  BY <1>5, <3>1, <4>3
      <4> QED  BY <4>1, <4>2, <4>3
    <3> QED  BY <1>4, <3>2 DEF ToSet
  <2> QED  BY <2>1, <2>2
<1>8. s \in Listed  BY <1>1, <1>4, <1>6, <1>7 DEF Listed
<1> QED  BY <1>5, <1>8 DEF s, n

(* The three assignments of a swap make it the list with the pair swapped. *)
LEMMA Relinked ==
  ASSUME RowsInv, ListInv, NEW l \in Listed, NEW c \in 1..(Len(ids) - 1), Linked(l),
         cp = l[c], prev = At(l, c - 1), Swap
  PROVE  Linked(Swapped(l, c))' /\ next' \in [Ids -> Ids \cup {Null}]
<1> DEFINE n == Len(ids)
           d == next[cp]
           s == Swapped(l, c)
<1>1. ids \in Seq(Ids) /\ next \in [Ids -> Ids \cup {Null}]  BY DEF RowsInv, ListInv
<1>2. /\ n \in Nat /\ DOMAIN l = 1..n
      /\ \A k \in 1..n: l[k] \in Ids /\ l[k] # Null
      /\ \A j, k \in 1..n: l[j] = l[k] => j = k
  BY <1>1, ListedIs
<1>3. /\ s \in Listed
      /\ \A k \in 1..n: s[k] = IF k = c THEN l[c + 1] ELSE IF k = c + 1 THEN l[c] ELSE l[k]
  BY <1>1, SwappedIs
<1>4. DOMAIN s = 1..n  BY <1>1, <1>3, ListedIs
<1>5. c \in 1..n /\ c + 1 \in 1..n /\ c # c + 1  BY <1>2
<1>6. /\ d = l[c + 1] /\ d \in Ids /\ cp \in Ids /\ d # cp
      /\ next[d] = At(l, c + 2)
  BY <1>2, <1>5 DEF Linked, At
<1>7. c = 1 => prev = Null
  <2>1. c = 1 => c - 1 \notin 1..n  BY <1>5
  <2> QED  BY <1>2, <2>1 DEF At
<1>8. c # 1 => c - 1 \in 1..n /\ prev = l[c - 1] /\ prev \in Ids /\ prev # Null /\ prev # cp /\ prev # d
  <2> SUFFICES ASSUME c # 1
               PROVE  c - 1 \in 1..n /\ prev = l[c - 1] /\ prev \in Ids /\ prev # Null /\ prev # cp /\ prev # d
    OBVIOUS
  <2>1. c - 1 \in 1..n /\ c - 1 # c /\ c - 1 # c + 1  BY <1>5
  <2>2. prev = l[c - 1]  BY <1>2, <2>1 DEF At
  <2> QED  BY <1>2, <1>5, <1>6, <2>1, <2>2
<1> DEFINE relinked == [next EXCEPT ![cp] = next[d], ![d] = cp]
<1>9. IF prev = Null THEN scoreRoot' = d /\ next' = relinked
                     ELSE next' = [relinked EXCEPT ![prev] = d] /\ scoreRoot' = scoreRoot
  BY DEF Swap
<1>10. relinked \in [Ids -> Ids \cup {Null}]
       /\ \A x \in Ids: relinked[x] = IF x = d THEN cp ELSE IF x = cp THEN next[d] ELSE next[x]
  BY <1>1, <1>6
<1> HIDE DEF relinked, d, s, n
<1>11. next' \in [Ids -> Ids \cup {Null}]
  BY <1>6, <1>9, <1>10
<1>12. \A x \in Ids: next'[x] = IF c # 1 /\ x = prev THEN d ELSE IF x = d THEN cp
                               ELSE IF x = cp THEN next[d] ELSE next[x]
  <2>1. CASE c = 1  BY <1>7, <1>9, <1>10, <2>1
  <2>2. CASE c # 1  BY <1>8, <1>9, <1>10, <2>2
  <2> QED  BY <2>1, <2>2
<1>13. scoreRoot = l[1]
  <2>1. 1 \in 1..n  BY <1>2, <1>5
  <2> QED  BY <1>2, <2>1 DEF Linked, At
<1>14. scoreRoot' = At(s, 1)
  <2>1. 1 \in 1..n  BY <1>2, <1>5
  <2>2. CASE c = 1  BY <1>3, <1>4, <1>6, <1>7, <1>9, <2>1, <2>2 DEF At
  <2>3. CASE c # 1
    <3>1. 1 # c /\ 1 # c + 1  BY <1>5, <2>3
    <3>2. s[1] = l[1]  BY <1>3, <2>1, <3>1
    <3> QED  BY <1>4, <1>8, <1>9, <1>13, <2>1, <2>3, <3>2 DEF At
  <2> QED  BY <2>2, <2>3
<1>15. ASSUME NEW k \in 1..n PROVE next'[s[k]] = At(s, k + 1)
  <2>1. CASE k = c
    <3>1. s[k] = d /\ s[k + 1] = cp /\ k + 1 \in 1..n  BY <1>3, <1>5, <1>6, <2>1
    <3>2. next'[d] = cp  BY <1>6, <1>8, <1>12
    <3> QED  BY <1>4, <3>1, <3>2 DEF At
  <2>2. CASE k = c + 1
    <3>1. s[k] = cp /\ k + 1 = c + 2  BY <1>3, <1>5, <2>2
    <3>2. next'[cp] = At(l, c + 2)  BY <1>6, <1>8, <1>12
    <3>3. c + 2 \in 1..n => s[c + 2] = l[c + 2]  BY <1>3, <1>5
    <3>4. At(s, c + 2) = At(l, c + 2)  BY <1>2, <1>4, <3>3 DEF At
    <3> QED  BY <3>1, <3>2, <3>4
  <2>3. CASE k = c - 1
    <3>1. c # 1 /\ k # c /\ k # c + 1 /\ k + 1 = c  BY <1>2, <1>5, <2>3
    <3>2. s[k] = prev /\ s[k + 1] = d  BY <1>3, <1>5, <1>6, <1>8, <2>3, <3>1
    <3>3. next'[prev] = d  BY <1>8, <1>12, <3>1
    <3> QED  BY <1>4, <1>5, <3>1, <3>2, <3>3 DEF At
  <2>4. CASE k # c /\ k # c + 1 /\ k # c - 1
    <3>1. s[k] = l[k] /\ l[k] \in Ids  BY <1>2, <1>3, <2>4
    <3>2. l[k] # cp /\ l[k] # d  BY <1>2, <1>5, <1>6, <2>4
    <3>3. c # 1 => l[k] # prev  BY <1>2, <1>8, <2>4
    <3>4. next'[l[k]] = next[l[k]]  BY <1>12, <3>1, <3>2, <3>3
    <3>5. next[l[k]] = At(l, k + 1)  BY <1>2 DEF Linked
    <3>6. k + 1 \in 1..n => s[k + 1] = l[k + 1]
      <4>1. k + 1 # c /\ k + 1 # c + 1  BY <1>2, <1>5, <2>4
      <4> QED  BY <1>3, <4>1
    <3>7. At(s, k + 1) = At(l, k + 1)  BY <1>2, <1>4, <3>6 DEF At
    <3> QED  BY <3>1, <3>4, <3>5, <3>7
  <2> QED  BY <2>1, <2>2, <2>3, <2>4
<1>16. Linked(s)'  BY <1>4, <1>14, <1>15 DEF Linked
<1> QED  BY <1>11, <1>16 DEF s

LEMMA SwapList == ASSUME FiledInv, RowsInv, ListInv, Swap PROVE ListInv'
<1>1. /\ pc = "pass" /\ pc' = "pass" /\ next[cp] # ep /\ OutOfOrder(cp, next[cp])
      /\ prev' = next[cp] /\ UNCHANGED <<ids, opts, total, cp, ep>>
  BY DEF Swap
<1>2. PICK l \in Listed, m \in 2..Len(ids), c \in Nat:
        /\ c \in 1..m /\ Linked(l) /\ ep = At(l, m + 1) /\ InOrder(l, m)
        /\ cp = l[c] /\ prev = At(l, c - 1) /\ Highest(l, c)
        /\ next[cp] = At(l, c + 1) /\ (next[cp] = ep <=> c = m)
  BY <1>1, PassIs
<1>3. ids \in Seq(Ids) /\ opts.s # "none"  BY <1>1 DEF RowsInv, Gradeds
<1> DEFINE n == Len(ids)
           s == Swapped(l, c)
<1>4. n \in Nat /\ DOMAIN l = 1..n /\ \A k \in 1..n: l[k] \in Ids
  BY <1>3, ListedIs
<1>5. c \in 1..(n - 1) /\ c + 1 \in 1..m /\ c + 1 \in 1..n /\ c \in 1..n /\ m \in 1..n /\ m \in Nat
  BY <1>1, <1>2, <1>4
<1>6. /\ s \in Listed
      /\ \A k \in 1..n: s[k] = IF k = c THEN l[c + 1] ELSE IF k = c + 1 THEN l[c] ELSE l[k]
  BY <1>3, <1>5, SwappedIs
<1>7. DOMAIN s = 1..n  BY <1>3, <1>6, ListedIs
<1>8. Linked(s)' /\ next' \in [Ids -> Ids \cup {Null}]  BY <1>2, <1>5, Relinked
<1> HIDE DEF s, n
<1>9. next[cp] = l[c + 1] /\ OutOfOrder(l[c], l[c + 1])  BY <1>1, <1>2, <1>4, <1>5 DEF At
<1>10. \A a, b \in Ids: OutOfOrder(a, b) => ~OutOfOrder(b, a)  BY <1>3, OrderIs
<1>11. InOrder(s, m)
  <2> SUFFICES ASSUME NEW j \in 1..n, NEW k \in 1..n, j < k, k > m
               PROVE  ~OutOfOrder(s[j], s[k])
    BY <1>7 DEF InOrder
  <2>1. k # c /\ k # c + 1 /\ c < k /\ c + 1 < k  BY <1>4, <1>5
  <2>2. s[k] = l[k]  BY <1>6, <2>1
  <2>3. \A x \in 1..n: x < k => ~OutOfOrder(l[x], l[k])  BY <1>2, <1>4 DEF InOrder
  <2>4. \E x \in 1..n: x < k /\ s[j] = l[x]
    <3>1. CASE j = c  BY <1>5, <1>6, <2>1, <3>1
    <3>2. CASE j = c + 1  BY <1>5, <1>6, <2>1, <3>2
    <3>3. CASE j # c /\ j # c + 1  BY <1>6, <3>3
    <3> QED  BY <3>1, <3>2, <3>3
  <2> QED  BY <2>2, <2>3, <2>4
<1>12. Highest(s, c + 1)
  <2> SUFFICES ASSUME NEW j \in 1..c PROVE ~OutOfOrder(s[j], s[c + 1])
    BY <1>5 DEF Highest
  <2>1. s[c + 1] = l[c] /\ j \in 1..n  BY <1>4, <1>5, <1>6
  <2>2. CASE j = c
    <3>1. s[j] = l[c + 1]  BY <1>6, <2>1, <2>2
    <3>2. l[c] \in Ids /\ l[c + 1] \in Ids  BY <1>4, <1>5
    <3> QED  BY <1>9, <1>10, <2>1, <3>1, <3>2
  <2>3. CASE j # c
    <3>1. j \in 1..(c - 1) /\ j # c + 1  BY <1>5, <2>3
    <3>2. s[j] = l[j]  BY <1>6, <2>1, <2>3, <3>1
    <3> QED  BY <1>2, <2>1, <3>1, <3>2 DEF Highest
  <2> QED  BY <2>2, <2>3
<1>13. InOrder(s, m)' /\ Highest(s, c + 1)'
  <2>1. \A a, b: OutOfOrder(a, b)' <=> OutOfOrder(a, b)  BY <1>1, OrderSame
  <2> QED  BY <1>11, <1>12, <2>1 DEF InOrder, Highest
<1>14. ep' = At(s, m + 1)
  <2>1. m + 1 # c /\ m + 1 # c + 1  BY <1>5
  <2>2. m + 1 \in 1..n => s[m + 1] = l[m + 1]  BY <1>6, <2>1
  <2> QED  BY <1>1, <1>2, <1>4, <1>7, <2>2 DEF At
<1>15. cp' = s[c + 1] /\ prev' = At(s, (c + 1) - 1)
  <2>1. (c + 1) - 1 = c  BY <1>5
  <2>2. s[c + 1] = l[c] /\ s[c] = l[c + 1]  BY <1>5, <1>6
  <2> QED  BY <1>1, <1>2, <1>5, <1>7, <1>9, <2>1, <2>2 DEF At
<1>16. Listed' = Listed  BY <1>1 DEF Listed
<1>17. \E l2 \in Listed': Linked(l2)' /\ \E m2 \in DOMAIN l2:
         /\ m2 > 1 /\ ep' = At(l2, m2 + 1) /\ InOrder(l2, m2)'
         /\ \E c2 \in 1..m2: cp' = l2[c2] /\ prev' = At(l2, c2 - 1) /\ Highest(l2, c2)'
  <2>1. s \in Listed' /\ m \in DOMAIN s /\ m > 1  BY <1>2, <1>5, <1>6, <1>7, <1>16
  <2>2. \E c2 \in 1..m: cp' = s[c2] /\ prev' = At(s, c2 - 1) /\ Highest(s, c2)'
    BY <1>5, <1>13, <1>15
  <2> QED  BY <1>8, <1>13, <1>14, <2>1, <2>2
<1>18. Len(ids') > 1  BY <1>1 DEF ListInv
<1> QED  BY <1>1, <1>8, <1>17, <1>18 DEF ListInv, Gradeds

LEMMA ReadList == ASSUME RowsInv, ListInv, ReadScoreFile PROVE ListInv'
<1>1. /\ pc = "read" /\ pc' = "print" /\ cp' = scoreRoot
      /\ sorted' = [head |-> csv.head, rows |-> << >>]
      /\ UNCHANGED <<ids, scoreRoot, next, opts, total>>
  BY DEF ReadScoreFile, Goto, listVars
<1>2. next \in [Ids -> Ids \cup {Null}]  BY DEF ListInv
<1>3. PICK l \in Listed: Linked(l) /\ InOrder(l, 0)  BY <1>1 DEF ListInv
<1>4. ids \in Seq(Ids) /\ csv \in CsvFiles  BY <1>1 DEF RowsInv, Gradeds
<1>5. Len(ids) \in Nat  BY <1>4
<1>6. cp' = At(l, 1)  BY <1>1, <1>3 DEF Linked
<1>7. Copied(l, 0)'
  <2>1. csv.head \in Seq(Questions)  BY <1>4 DEF CsvFiles
  <2>2. << >> \in Seq(Rows) /\ Len(<< >>) = 0  OBVIOUS
  <2>3. sorted' \in CsvFiles  BY <1>1, <2>1, <2>2, CsvFileIs
  <2>4. Len(sorted'.rows) = 0  BY <1>1, <2>2
  <2> QED  BY <2>3, <2>4 DEF Copied
<1>8. l \in Listed' /\ Linked(l)' /\ InOrder(l, 0)'  BY <1>1, <1>3, SameList
<1>9. \E l2 \in Listed': /\ Linked(l2)' /\ InOrder(l2, 0)'
                        /\ \E p \in 1..(Len(ids') + 1): cp' = At(l2, p) /\ Copied(l2, p - 1)'
  <2>1. 1 \in 1..(Len(ids') + 1) /\ 1 - 1 = 0  BY <1>1, <1>5
  <2>2. Copied(l, 1 - 1)'  BY <1>7, <2>1
  <2> QED  BY <1>6, <1>8, <2>1, <2>2
<1> QED  BY <1>1, <1>2, <1>9 DEF ListInv, Gradeds

(* The first row that starts with a student's id is the student's own: ids *)
(* are in the order of strcmp, in which an id comes before what it begins. *)
LEMMA OwnRow ==
  ASSUME RowsInv, pc = "print", NEW k \in 1..Len(ids), cp = ids[k]
  PROVE  LET found == {j \in DOMAIN scoreArr.rows: <<cp, scoreArr.rows[j].id>> \in StartsWith}
         IN found # {} /\ Min(found) = k
<1> DEFINE found == {j \in DOMAIN scoreArr.rows: <<cp, scoreArr.rows[j].id>> \in StartsWith}
<1>1. /\ scoreArr \in CsvFiles /\ Len(scoreArr.rows) = Len(ids) /\ Complete(scoreArr, Len(ids))
      /\ ByName(ids)
  BY DEF RowsInv
<1>2. Len(ids) \in Nat /\ DOMAIN ids = 1..Len(ids) /\ \A j \in 1..Len(ids): ids[j] \in Ids
  BY IdsApart
<1>3. DOMAIN scoreArr.rows = 1..Len(ids)
  <2>1. scoreArr.rows \in Seq(Rows)  BY <1>1 DEF CsvFiles
  <2> QED  BY <1>1, <2>1
<1>4. \A j \in 1..Len(ids): scoreArr.rows[j].id = ids[j]  BY <1>1 DEF Complete
<1>5. \A j: j \in found <=> j \in 1..Len(ids) /\ <<ids[k], ids[j]>> \in StartsWith
  BY <1>3, <1>4
<1> HIDE DEF found
<1>6. k \in found  BY <1>2, <1>5, IdsAssumption
<1>7. ASSUME NEW j \in found PROVE k <= j
  <2>1. j \in 1..Len(ids) /\ <<ids[k], ids[j]>> \in StartsWith  BY <1>5
  <2>2. Place(ids[k]) <= Place(ids[j])  BY <2>1, IdsAssumption
  <2>3. j < k => Place(ids[j]) < Place(ids[k])  BY <1>1, <1>2, <2>1 DEF ByName
  <2>4. Place(ids[k]) \in Nat /\ Place(ids[j]) \in Nat  BY <1>2, <2>1, PlaceIs
  <2> QED  BY <1>2, <2>1, <2>2, <2>3, <2>4
<1>8. Min(found) \in found /\ \A j \in found: Min(found) <= j  BY <1>6, <1>7 DEF Min
<1> DEFINE first == Min(found)
<1>9. first \in found /\ first <= k  BY <1>6, <1>8
<1> HIDE DEF first
<1>10. first = k
  <2>1. k <= first  BY <1>7, <1>9
  <2>2. first \in 1..Len(ids)  BY <1>5, <1>9
  <2>3. first \in Nat /\ k \in Nat  BY <1>2, <2>2
  <2> QED  BY <1>9, <2>1, <2>3
<1> QED  BY <1>6, <1>10 DEF found, first

LEMMA PrintList == ASSUME RowsInv, ListInv, PrintRow PROVE ListInv'
<1> DEFINE found == {j \in DOMAIN scoreArr.rows: <<cp, scoreArr.rows[j].id>> \in StartsWith}
<1>1. /\ pc = "print" /\ pc' = "print" /\ cp # Null /\ cp' = next[cp]
      /\ sorted' = IF found = {} THEN sorted
                   ELSE [sorted EXCEPT !.rows = Append(@, scoreArr.rows[Min(found)])]
      /\ UNCHANGED <<ids, scoreRoot, next, opts, total>>
  BY DEF PrintRow, listVars
<1>2. next \in [Ids -> Ids \cup {Null}]  BY DEF ListInv
<1>3. PICK l \in Listed: /\ Linked(l) /\ InOrder(l, 0)
                        /\ \E p \in 1..(Len(ids) + 1): cp = At(l, p) /\ Copied(l, p - 1)
  BY <1>1 DEF ListInv
<1>4. PICK p \in 1..(Len(ids) + 1): cp = At(l, p) /\ Copied(l, p - 1)  BY <1>3
<1>5. /\ ids \in Seq(Ids) /\ scoreArr \in CsvFiles /\ Len(scoreArr.rows) = Len(ids)
      /\ Complete(scoreArr, Len(ids)) /\ opts.s # "none"
  BY <1>1 DEF RowsInv
<1>6. Len(ids) \in Nat /\ DOMAIN l = 1..Len(ids) /\ DOMAIN ids = 1..Len(ids)
  BY <1>5, ListedIs
<1>7. p \in 1..Len(ids) /\ cp = l[p]  BY <1>1, <1>4, <1>6 DEF At
<1>8. PICK k \in 1..Len(ids): ids[k] = l[p]
  <2>1. l[p] \in ToSet(ids)  BY <1>6, <1>7 DEF Listed
  <2> QED  BY <1>6, <2>1 DEF ToSet
<1>9. found # {} /\ Min(found) = k  BY <1>1, <1>7, <1>8, OwnRow
<1> HIDE DEF found
<1> DEFINE r == scoreArr.rows[k]
<1>10. sorted' = [sorted EXCEPT !.rows = Append(@, r)]  BY <1>1, <1>9
<1>11. r \in Rows /\ r.id = l[p] /\ r.sum = Rounded(total[l[p]])
  <2>1. scoreArr.rows \in Seq(Rows)  BY <1>5 DEF CsvFiles
  <2>2. r \in Rows  BY <1>5, <2>1
  <2>3. r.id = ids[k] /\ r.sum = Rounded(total[ids[k]])  BY <1>5 DEF Complete
  <2> QED  BY <1>8, <2>2, <2>3
<1> HIDE DEF r
<1>12. sorted \in CsvFiles /\ Len(sorted.rows) = p - 1  BY <1>4 DEF Copied
<1>13. /\ sorted' \in CsvFiles /\ Len(sorted'.rows) = (p - 1) + 1
       /\ \A j \in 1..(p - 1): sorted'.rows[j] = sorted.rows[j]
       /\ sorted'.rows[(p - 1) + 1] = r
  <2>1. /\ sorted' \in CsvFiles /\ Len(sorted'.rows) = Len(sorted.rows) + 1
        /\ \A j \in 1..Len(sorted.rows): sorted'.rows[j] = sorted.rows[j]
        /\ sorted'.rows[Len(sorted.rows) + 1] = r
    BY <1>10, <1>11, <1>12, RowAdded
  <2> QED  BY <1>12, <2>1
<1>14. (p - 1) + 1 = p /\ (p + 1) - 1 = p /\ p + 1 \in 1..(Len(ids) + 1)  BY <1>6, <1>7
<1>15. Copied(l, p)'
  <2> SUFFICES ASSUME NEW j \in 1..p
               PROVE  sorted'.rows[j].id = l[j] /\ sorted'.rows[j].sum = Rounded(total[l[j]])
    BY <1>1, <1>13, <1>14 DEF Copied
  <2>1. CASE j = p  BY <1>11, <1>13, <1>14, <2>1
  <2>2. CASE j # p
    <3>1. j \in 1..(p - 1)  BY <1>7, <2>2
    <3>2. sorted.rows[j].id = l[j] /\ sorted.rows[j].sum = Rounded(total[l[j]])
      BY <1>4, <3>1 DEF Copied
    <3> QED  BY <1>13, <3>1, <3>2
  <2> QED  BY <2>1, <2>2
<1>16. cp' = At(l, p + 1)  BY <1>1, <1>3, <1>6, <1>7 DEF Linked
<1>17. l \in Listed' /\ Linked(l)' /\ InOrder(l, 0)'  BY <1>1, <1>3, SameList
<1>18. \E l2 \in Listed': /\ Linked(l2)' /\ InOrder(l2, 0)'
                         /\ \E p2 \in 1..(Len(ids') + 1): cp' = At(l2, p2) /\ Copied(l2, p2 - 1)'
  <2>1. Copied(l, (p + 1) - 1)' /\ p + 1 \in 1..(Len(ids') + 1)  BY <1>1, <1>14, <1>15
  <2> QED  BY <1>16, <1>17, <2>1
<1> QED  BY <1>1, <1>2, <1>18 DEF ListInv, Gradeds

LEMMA PrintedList == ASSUME RowsInv, ListInv, Printed PROVE ListInv'
<1>1. /\ pc = "print" /\ pc' = "exit" /\ cp = Null
      /\ UNCHANGED <<ids, scoreRoot, next, opts, total, sorted>>
  BY DEF Printed, Goto, listVars, sortVars
<1>2. next \in [Ids -> Ids \cup {Null}]  BY DEF ListInv
<1>3. PICK l \in Listed: /\ Linked(l) /\ InOrder(l, 0)
                        /\ \E p \in 1..(Len(ids) + 1): cp = At(l, p) /\ Copied(l, p - 1)
  BY <1>1 DEF ListInv
<1>4. PICK p \in 1..(Len(ids) + 1): cp = At(l, p) /\ Copied(l, p - 1)  BY <1>3
<1>5. ids \in Seq(Ids)  BY DEF RowsInv
<1>6. Len(ids) \in Nat /\ DOMAIN l = 1..Len(ids) /\ \A k \in 1..Len(ids): l[k] # Null
  BY <1>5, ListedIs
<1>7. p - 1 = Len(ids)
  <2>1. p \notin 1..Len(ids)  BY <1>1, <1>4, <1>6 DEF At
  <2> QED  BY <1>6, <2>1
<1>8. Copied(l, Len(ids))'
  <2>1. Copied(l, Len(ids))  BY <1>4, <1>7
  <2> QED  BY <1>1, <2>1 DEF Copied
<1>9. \E l2 \in Listed': InOrder(l2, 0)' /\ Copied(l2, Len(ids))'
  BY <1>1, <1>3, <1>8, SameList
<1> QED  BY <1>1, <1>2, <1>9 DEF ListInv, Gradeds

LEMMA StillList == ASSUME ListInv, UNCHANGED vars PROVE ListInv'
<1>1. /\ UNCHANGED <<pc, ids, num, opts, scoreRoot, next, total>>
      /\ UNCHANGED <<cp, prev, ep, sorted>>
  BY DEF vars, fileVars, gradeVars, listVars, sortVars
<1>2. /\ Listed' = Listed
      /\ \A l: Linked(l)' <=> Linked(l)
      /\ \A l, m: InOrder(l, m)' <=> InOrder(l, m)
      /\ \A l, c: Highest(l, c)' <=> Highest(l, c)
  BY <1>1, SameList
<1>3. \A l, n: Copied(l, n)' <=> Copied(l, n)  BY <1>1 DEF Copied
<1>4. Linked([k \in 1..(num - 1) |-> ids[k]])' <=> Linked([k \in 1..(num - 1) |-> ids[k]])
  BY <1>1 DEF Linked
<1> QED  BY <1>1, <1>2, <1>3, <1>4 DEF ListInv

LEMMA NextList == FiledInv /\ RowsInv /\ ListInv /\ [Next]_vars => ListInv'
<1> SUFFICES ASSUME FiledInv, RowsInv, ListInv, [Next]_vars PROVE ListInv'
  OBVIOUS
<1>1. CASE WriteFirstRow  BY <1>1, FirstRowList
<1>2. CASE NextStudent
  BY <1>2, CellsList DEF NextStudent, Goto, listVars, sortVars
<1>3. CASE ScoreQuestion
  <2>1. pc = "cells" /\ UNCHANGED <<pc, scoreRoot, next, ep, ids, num, opts>>
    BY <1>3 DEF ScoreQuestion, listVars, sortVars
  <2> QED  BY <2>1, CellsList
<1>4. CASE StudentDone  BY <1>4, StudentDoneList
<1>5. CASE AllDone  BY <1>5, AllDoneList
<1>6. CASE PassStart  BY <1>6, PassStartList
<1>7. CASE Sorted  BY <1>7, SortedList
<1>8. CASE Keep  BY <1>8, KeepList
<1>9. CASE Swap  BY <1>9, SwapList
<1>10. CASE PassEnd  BY <1>10, PassEndList
<1>11. CASE ReadScoreFile  BY <1>11, ReadList
<1>12. CASE PrintRow  BY <1>12, PrintList
<1>13. CASE Printed  BY <1>13, PrintedList
<1>14. CASE NoTable \/ ModifyCrash \/ Interrupt \/ Exit
  BY <1>14, EndList DEF NoTable, ModifyCrash, Interrupt, Exit
<1>15. CASE Start \/ RemoveTable
  BY <1>15, EarlyList DEF Start, RemoveTable, Goto, listVars, sortVars
<1>16. CASE ReadTable \/ MakeTable \/ Modify \/ ModifyDone
  BY <1>16, EarlyList DEF ReadTable, MakeTable, Modify, ModifyDone, Goto, listVars, sortVars
<1>17. CASE Creat \/ WriteLine
  BY <1>17, EarlyList DEF Creat, WriteLine, listVars, sortVars
<1>18. CASE Written \/ SetIds
  <2>1. /\ pc \in {"write", "ids"} /\ pc' \in {"header", "ids", "modify"}
        /\ UNCHANGED <<next, scoreRoot, ep>>
    BY <1>18 DEF Written, SetIds, Goto, listVars, sortVars
  <2> QED  BY <2>1, EarlyList
<1>19. CASE UNCHANGED vars  BY <1>19, StillList
<1> QED
  BY <1>1, <1>2, <1>3, <1>4, <1>5, <1>6, <1>7, <1>8, <1>9, <1>10, <1>11, <1>12, <1>13, <1>14,
     <1>15, <1>16, <1>17, <1>18, <1>19 DEF Next, Step, User

LEMMA ListHolds == Spec => [](FiledInv /\ RowsInv /\ ListInv)
<1>1. Init => FiledInv /\ RowsInv /\ ListInv  BY InitFiled, InitRows, InitList
<1>2. FiledInv /\ RowsInv /\ ListInv /\ [Next]_vars => (FiledInv /\ RowsInv /\ ListInv)'
  BY NextFiled, NextRows, NextList
<1> QED  BY <1>1, <1>2, PTL DEF Spec

(* -s writes every student's own row once and in the order asked for, also *)
(* where an id begins another one: for lists of any length.                *)
THEOREM SortedRowsCorrect == Spec => []SortedRows
<1>1. FiledInv /\ RowsInv /\ ListInv => SortedRows
  <2> SUFFICES ASSUME FiledInv, RowsInv, ListInv, pc = "exit", opts.s # "none"
               PROVE  LET rows == sorted.rows IN
                        /\ Len(rows) = Len(ids) /\ {rows[k].id: k \in DOMAIN rows} = ToSet(ids)
                        /\ \A k \in DOMAIN rows: rows[k].sum = Rounded(total[rows[k].id])
                        /\ \A j, k \in DOMAIN rows: j < k => ~OutOfOrder(rows[j].id, rows[k].id)
    BY DEF SortedRows
  <2> DEFINE rows == sorted.rows
  <2>1. PICK l \in Listed: InOrder(l, 0) /\ Copied(l, Len(ids))  BY DEF ListInv
  <2>2. ids \in Seq(Ids)  BY DEF RowsInv
  <2>3. Len(ids) \in Nat /\ DOMAIN l = 1..Len(ids)  BY <2>2, ListedIs
  <2>4. sorted \in CsvFiles /\ Len(rows) = Len(ids)  BY <2>1 DEF Copied
  <2>5. DOMAIN rows = 1..Len(ids)
    <3>1. rows \in Seq(Rows)  BY <2>4 DEF CsvFiles
    <3> QED  BY <2>4, <3>1
  <2>6. \A k \in 1..Len(ids): rows[k].id = l[k] /\ rows[k].sum = Rounded(total[l[k]])
    BY <2>1 DEF Copied
  <2> HIDE DEF rows
  <2>7. {rows[k].id: k \in DOMAIN rows} = ToSet(ids)
    <3>1. ToSet(l) = ToSet(ids)  BY DEF Listed
    <3>2. {rows[k].id: k \in DOMAIN rows} = {l[k]: k \in DOMAIN l}  BY <2>3, <2>5, <2>6
    <3> QED  BY <3>1, <3>2 DEF ToSet
  <2>8. \A j, k \in DOMAIN rows: j < k => ~OutOfOrder(rows[j].id, rows[k].id)
    <3> SUFFICES ASSUME NEW j \in DOMAIN rows, NEW k \in DOMAIN rows, j < k
                 PROVE  ~OutOfOrder(rows[j].id, rows[k].id)
      OBVIOUS
    <3>1. k > 0 /\ j \in DOMAIN l /\ k \in DOMAIN l  BY <2>3, <2>5
    <3>2. ~OutOfOrder(l[j], l[k])  BY <2>1, <3>1 DEF InOrder
    <3> QED  BY <2>5, <2>6, <3>2
  <2>9. \A k \in DOMAIN rows: rows[k].sum = Rounded(total[rows[k].id])  BY <2>5, <2>6
  <2> QED  BY <2>4, <2>7, <2>8, <2>9 DEF rows
<1> QED  BY <1>1, ListHolds, PTL

=============================================================================
