----------------------------- MODULE MCSsuScore ------------------------------
(* A question with a text answer and one with a program.                   *)
EXTENDS SsuScore

MCStudents   == <<"2019", "20190", "2020">>
MCStartsWith == {<<"2019", "2019">>, <<"20190", "20190">>, <<"2020", "2020">>,
                 <<"2019", "20190">>}
MCQuestions  == {"1-1.txt", "2.c"}
MCNumber     == [q \in MCQuestions |-> IF q = "2.c" THEN 2 ELSE 1]
MCType       == [q \in MCQuestions |-> IF q = "2.c" THEN "c" ELSE "text"]

(* A run reads no score.csv of an earlier one: what that says counts only  *)
(* while it is being written and sorted.                                   *)
View == <<tableFile, IF pc \in Grading THEN csv ELSE NoFile, pc, opts, table, ids,
          gradeVars, listVars, sortVars>>
=============================================================================
