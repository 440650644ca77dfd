----------------------------- MODULE ScoreBlank -----------------------------
(***************************************************************************)
(* ssu_score: grading one student's answer to a blank question.  The       *)
(* answer is cut into tokens (ScoreTokens) and becomes a tree, each answer *)
(* of the teacher's file another one, until compare_tree finds two alike.  *)
(* A step is one pass of a loop of make_tokens or of make_tree, one answer *)
(* read, one comparison of two trees.                                      *)
(***************************************************************************)
EXTENDS ScoreTree

CONSTANTS
  Answers,    \* what students write
  Files,      \* the teacher's files tried against each answer: sequences of answers
  CTexts      \* sequences of units that are C

(* An answer is its text and whether it ended in a semicolon.              *)
Units(a) == Dense(a.text)
Brackets(a, b) == Len(SelectSeq(a.text, LAMBDA u: u = b))
Balanced(a)    == Brackets(a, "(") = Brackets(a, ")")

VARIABLES
  pc,
  answer,   \* the student's answer
  file,     \* the teacher's answers
  at,       \* how many of them have been read
  root      \* the student's tree, when it is finished

gradeVars == <<answer, file, at, root>>
vars == <<pc, gradeVars, treeVars, lexVars>>

Reading == pc \in {"student", "teacher"}

Init ==
  /\ pc = "start" /\ answer \in Answers /\ file = << >> /\ at = 0 /\ root = 0
  /\ NoTree /\ NoText
-----------------------------------------------------------------------------
(* score_blank *)

Start ==
  /\ pc = "start"
  /\ IF answer.text # << >> /\ Balanced(answer) THEN pc' = "student" /\ Begin(answer.text)
     ELSE pc' = "wrong" /\ UNCHANGED lexVars
  /\ UNCHANGED <<gradeVars, treeVars>>

Tokenize == Reading /\ MakeTokens /\ UNCHANGED <<pc, gradeVars, treeVars>>

Build == Reading /\ MakeTree /\ UNCHANGED <<pc, gradeVars>>

NoNode == Reading /\ NoOperand /\ pc' = "crash" /\ UNCHANGED <<gradeVars, treeVars, lexVars>>

(* What stands beyond the tokens ends the program, or becomes part of a    *)
(* tree that is like no other.                                             *)
RunsOn ==
  /\ Reading /\ Unclosed
  /\ pc' \in {"crash", IF pc = "student" THEN "wrong" ELSE "read"}
  /\ Forget /\ UNCHANGED <<gradeVars, treeVars>>

Refused ==
  /\ Reading /\ lexed \in {"refused", "crash"}
  /\ pc' = IF lexed = "crash" THEN "crash" ELSE IF pc = "student" THEN "wrong" ELSE "read"
  /\ Forget /\ UNCHANGED <<gradeVars, treeVars>>

(* The teacher's file is opened when the student's tree is finished. *)
TreeDone ==
  /\ Reading /\ Returning /\ stack = << >>
  /\ cur' = RootOf(heap, cur)
  /\ IF pc = "student" THEN root' = cur' /\ pc' = "read" /\ file' \in Files[answer]
     ELSE pc' = "compare" /\ UNCHANGED <<root, file>>
  /\ Forget /\ UNCHANGED <<answer, at, heap, idx, stack>>

(* get_answer; at the end of the file it returns an empty answer. *)
GetAnswer ==
  IF at < Len(file) THEN file[at + 1] ELSE [text |-> << >>, semicolon |-> FALSE]

NoMore ==
  /\ pc = "read" /\ GetAnswer.text = << >>
  /\ pc' = "wrong"
  /\ UNCHANGED <<gradeVars, treeVars, lexVars>>

ReadAnswer ==
  /\ pc = "read" /\ GetAnswer.text # << >>
  /\ at' = at + 1
  /\ IF GetAnswer.semicolon = answer.semicolon THEN pc' = "teacher" /\ Begin(GetAnswer.text)
     ELSE UNCHANGED <<pc, lexVars>>
  /\ cur' = 0 /\ idx' = 1 /\ stack' = << >>
  /\ UNCHANGED <<answer, file, heap, root>>
-----------------------------------------------------------------------------
(* compare_tree *)

Outcome(v, h) == [is |-> v, heap |-> h]

(* change_sibling: the first two children change places. *)
Swap(h, p) ==
  LET a == h[p].child
      b == h[a].next
  IN IF a = 0 \/ b = 0 THEN Outcome("crash", h)
     ELSE Outcome("same", [h EXCEPT ![p].child = b,
                                    ![b] = [@ EXCEPT !.parent = p, !.prev = 0, !.next = a],
                                    ![a] = [@ EXCEPT !.parent = 0, !.prev = b, !.next = 0]])

(* A comparison turned round, where the two are not the same one. *)
Turned(h, x, y) ==
  IF h[x].name \in Comparisons /\ h[x].name # h[y].name
    THEN Swap(IF h[y].name \in Comparisons THEN [h EXCEPT ![y].name = Mirror[@]] ELSE h, y)
    ELSE Outcome("same", h)

RECURSIVE CompareTree(_, _, _), CompareAny(_, _, _)

(* A slip: only y itself is tried. *)
CompareAnyOnce(h, x, y) == CompareTree(h, x, y)

(* The first of y and its next siblings that x is like. *)
CompareAny(h, x, y) ==
  LET c == CompareTree(h, x, y) IN
  IF c.is # "differ" \/ c.heap[y].next = 0 THEN c ELSE CompareAny(c.heap, x, c.heap[y].next)

(* A slip: how many children there are is not looked at. *)
CompareChildrenUncounted(h, x, y) ==
  LET a == h[x].child
      c == CompareTree(h, a, h[y].child)
      s == Swap(c.heap, y)
  IN IF (a = 0) # (h[y].child = 0) THEN Outcome("differ", h)
     ELSE IF a = 0 THEN Outcome("same", h)
     ELSE IF h[x].name \in Commutative THEN CompareAny(h, a, h[y].child)
     ELSE IF h[x].name \in {"==", "!="} /\ c.is = "differ"
       THEN IF s.is = "crash" THEN s ELSE CompareTree(s.heap, a, s.heap[y].child)
     ELSE c

CompareChildren(h, x, y) ==
  LET a == h[x].child
      c == CompareTree(h, a, h[y].child)
      s == Swap(c.heap, y)
  IN IF (a = 0) # (h[y].child = 0) THEN Outcome("differ", h)
     ELSE IF a = 0 THEN Outcome("same", h)
     ELSE IF SiblingCount(h, a) # SiblingCount(h, h[y].child) THEN Outcome("differ", h)
     ELSE IF h[x].name \in Commutative THEN CompareAny(h, a, h[y].child)
     ELSE IF h[x].name \in {"==", "!="} /\ c.is = "differ"
       THEN IF s.is = "crash" THEN s ELSE CompareTree(s.heap, a, s.heap[y].child)
     ELSE c

CompareNext(h, x, y) ==
  LET operator == h[First(h, x)].parent
  IN IF h[x].next = 0 THEN Outcome("same", h)
     ELSE IF SiblingCount(h, x) # SiblingCount(h, y) THEN Outcome("differ", h)
     ELSE IF h[operator].name \in Commutative THEN CompareAny(h, h[x].next, First(h, y))
     ELSE CompareTree(h, h[x].next, h[y].next)

CompareTree(h, x, y) ==
  IF x = 0 \/ y = 0 THEN Outcome("differ", h)
  ELSE LET t == Turned(h, x, y)
           c == CompareChildren(t.heap, x, y)
       IN IF t.is = "crash" THEN t
          ELSE IF t.heap[x].name # t.heap[y].name THEN Outcome("differ", t.heap)
          ELSE IF c.is # "same" THEN c
          ELSE CompareNext(c.heap, x, y)

Compare ==
  /\ pc = "compare"
  /\ LET c == CompareTree(heap, root, cur) IN
       /\ pc' = CASE c.is = "same" -> "right" [] c.is = "differ" -> "read" [] OTHER -> "crash"
       /\ heap' = c.heap
  /\ UNCHANGED <<gradeVars, cur, idx, stack, lexVars>>
-----------------------------------------------------------------------------
Next == \/ Start \/ Tokenize \/ Refused \/ Build \/ NoNode \/ RunsOn \/ TreeDone
        \/ NoMore \/ ReadAnswer \/ Compare

Spec == Init /\ [][Next]_vars
-----------------------------------------------------------------------------
(* Properties *)

Operators(ts) == SelectSeq(ts, LAMBDA t: t \in DOMAIN Precedence)

(* Every answer and key here is read in its order and its tree grows at    *)
(* its end: what the theorem on a text and its tree presupposes.           *)
ReadInOrder == Orderly /\ InPlace

(* "<" and ">" count as one operator: a < b is b > a. *)
Plain(o) == CASE o = ">" -> "<" [] o = ">=" -> "<=" [] OTHER -> o
SameBag(s, t) == Len(s) = Len(t) /\ \A x \in Range(s) \cup Range(t):
                   Len(SelectSeq(s, LAMBDA y: y = x)) = Len(SelectSeq(t, LAMBDA y: y = x))

(* An answer that names each thing once is right only if the teacher's     *)
(* has just the same names and operators, none of them left out.           *)
RightHasAll ==
  pc = "right" /\ ~Undefined(answer.text) /\ IsInjective(Operands(Units(answer))) =>
    LET right == Units(file[at]) IN
    /\ SameBag(Operands(Units(answer)), Operands(right))
    /\ LET plain(ts) == [i \in DOMAIN Operators(ts) |-> Plain(Operators(ts)[i])]
       IN SameBag(plain(Units(answer)), plain(right))

(* x and y are the two sides of one operator, or the names of one chain,   *)
(* in another order; or a comparison and the same one turned round.        *)
Names2(ts) == Len(ts) \in {1, 3} /\ Len(Operands(ts)) = (Len(ts) + 1) \div 2
Chain(o, ts) == \A i \in DOMAIN ts: IF i % 2 = 0 THEN ts[i] = o ELSE ~IsOperator(ts[i])
Reordered(x, y) ==
  \/ x = y
  \/ \E o \in Commutative: Chain(o, x) /\ Chain(o, y) /\ SameBag(x, y)
  \/ \E i \in 2..Len(x) - 1:
       LET s == SubSeq(x, 1, i - 1)  t == SubSeq(x, i + 1, Len(x)) IN
       /\ x[i] \in Commutative \cup {"==", "!="} /\ Names2(s) /\ Names2(t)
       /\ \A o \in Range(Operators(s \o t)): Prec(o) < Prec(x[i])
       /\ y = t \o <<x[i]>> \o s
  \/ Len(x) = 3 /\ x[2] \in Comparisons /\ y = <<x[3], Mirror[x[2]], x[1]>>

Comparing(ts) == Range(ts) \cap Comparisons # {}
Compared(ts)  == Len(ts) = 3 /\ ts[2] \in Comparisons

(* The spaces do not matter, but in what is compared as it is written (a   *)
(* struct's declaration, a command), in names with dots and indices, and   *)
(* in the brackets of &(a).                                                *)
Loose(us) ==
  /\ Range(us) \cap {"struct", "gcc", ".", "["} = {}
  /\ \A i \in 1..Len(us) - 1: us[i] = "&" => us[i + 1] # "("
Alike(a, k) ==
  \/ a.text = k.text
  \/ Loose(Units(a)) /\ Loose(Units(k)) /\ Reordered(Units(a), Units(k))

(* make_tokens takes the & of -a & b for a sign too, and refuses it. *)
SignedAnd(us) == Len(us) > 3 /\ us[1] \in {"-", "*", "&"} \cup Steps /\ us[3] = "&"

(* sizeof(int) * a: the casts are looked for again and again. *)
SizedOperand(us) ==
  \E i \in 1..Len(us) - 4:
    us[i] = "sizeof" /\ us[i + 1] = "(" /\ us[i + 2] \in Typed /\ us[i + 3] = ")"
    /\ us[i + 4] \in Ahead

(* An answer that is C is read to its end, and found if it is in the       *)
(* teacher's file, or one that is like it but for spaces and the order of  *)
(* operands, whatever stands before it.  Comparisons are excepted unless   *)
(* they are all there is: compare_tree has no check before it turns one    *)
(* round.                                                                  *)
RightIsFound ==
  (pc \in {"wrong", "crash"} \/ lexed = "loops") /\ Units(answer) \in CTexts =>
    /\ file = << >> => SignedAnd(Units(answer)) \/ SizedOperand(Units(answer))
    /\ (Comparing(Units(answer)) => Compared(Units(answer)) /\ \A k \in Range(file): Compared(Units(k)))
       => \A i \in DOMAIN file:
            /\ file[i].semicolon = answer.semicolon
            /\ \A j \in 1..i: Units(file[j]) # << >>
            => ~Alike(answer, file[i])
=============================================================================
