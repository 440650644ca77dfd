----------------------------- MODULE MCScoreRun ------------------------------
EXTENDS ScoreRun

MCStudents == <<"s1", "s2">>
MCLower    == [c \in {"a", "A", "b", " "} |-> IF c = "A" THEN "a" ELSE c]
MCTexts    == {<< >>, <<"a">>, <<"a", "A">>, <<"A", " ">>, <<" ", "a", "b">>}

(* What is not read again: the output of a program that is gone, the last  *)
(* result, the comparison's variables outside it, and what is in them      *)
(* before anything is read if something is.                                *)
View == <<pc, num, compile, pid, waited, runVars, proc,
          IF pc = "compare"
            THEN <<at1, at2, IF out[Student] = << >> \/ at1 > 0 THEN c1 ELSE Space,
                   IF ansOut = << >> \/ at2 > 0 THEN c2 ELSE Space>>
            ELSE << >>,
          [s \in Ids |-> IF Alive(s) \/ (num <= Len(Students) /\ s = Student)
                          THEN <<out[s], rest[s]>> ELSE << >>]>>
=============================================================================
