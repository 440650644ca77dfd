------------------------------ MODULE ScoreTree ------------------------------
(***************************************************************************)
(* ssu_score: make_tree, which makes a tree of the tokens of an answer and *)
(* calls itself for brackets and arguments.  A step is one pass of its     *)
(* loop, or the beginning or the end of an inner call.                     *)
(***************************************************************************)
EXTENDS ScoreTokens

Comparisons  == {"<", "<=", ">", ">="}
Commutative  == {"+", "*", "|", "&", "||", "&&"}
Levels ==
  << {"->"}, {"%"}, {"/"}, {"*"}, {"-"}, {"+"}, Comparisons, {"==", "!="}, {"&"}, {"^"}, {"|"},
     {"&&"}, {"||"}, {"=", "+=", "-=", "&=", "|="} >>
Precedence == [o \in UNION Range(Levels) |-> CHOOSE i \in DOMAIN Levels: o \in Levels[i]]
IsOperator(t) == t \in DOMAIN Precedence \cup {"(", ")"}
Prec(t) == IF t \in DOMAIN Precedence THEN Precedence[t] ELSE 0
Mirror == [o \in {"<"} |-> ">"] @@ [o \in {"<="} |-> ">="]
          @@ [o \in {">"} |-> "<"] @@ [o \in {">="} |-> "<="]

VARIABLES
  heap,     \* the nodes made so far; 0 is NULL
  cur,      \* make_tree's cur, or the tree it has returned
  idx,      \* the token it is at
  stack     \* the calls of make_tree that wait for an inner one

Building == lexed = "done"
TokenAt(i) == IF i \in DOMAIN made THEN made[i] ELSE ""
Token    == TokenAt(idx)
-----------------------------------------------------------------------------
(* The tree's operations *)

Node(h, t, paren) ==
  Append(h, [name |-> t, parentheses |-> paren, parent |-> 0, child |-> 0, prev |-> 0, next |-> 0])

First(h, n) == LET f[x \in DOMAIN h] == IF h[x].prev = 0 THEN x ELSE f[h[x].prev] IN f[n]
LastSibling(h, n) == LET f[x \in DOMAIN h] == IF h[x].next = 0 THEN x ELSE f[h[x].next] IN f[n]

(* A slip: the first child, not the last one. *)
LastChildFirst(h, n) == IF h[n].child # 0 THEN h[n].child ELSE LastSibling(h, n)

LastChild(h, n) == LastSibling(h, IF h[n].child # 0 THEN h[n].child ELSE n)

RootOf(h, n) ==
  LET f[x \in DOMAIN h] ==
        LET p == h[First(h, x)].parent IN IF p = 0 THEN First(h, x) ELSE f[p]
  IN IF n = 0 THEN 0 ELSE f[n]

Siblings(h, n) == LET f[x \in DOMAIN h] == IF h[x].next = 0 THEN <<x>> ELSE <<x>> \o f[h[x].next]
                  IN f[First(h, n)]
SiblingCount(h, n) == Len(Siblings(h, n))

HighPrecedence(h, n, t) ==
  LET f[x \in DOMAIN h] ==
        IF h[x].prev = 0 \/ (IsOperator(h[x].name) /\ Prec(h[x].name) < Prec(t))
          THEN x ELSE f[h[x].prev]
  IN f[n]

MostHighPrecedence(h, n, t) ==
  LET f[x \in DOMAIN h] ==
        IF h[x].parent = 0 THEN x
        ELSE f[HighPrecedence(h, IF h[x].prev # 0 THEN h[x].prev ELSE h[x].parent, t)]
  IN f[HighPrecedence(h, n, t)]

Child(h, p, n)  == [h EXCEPT ![p].child = n, ![n].parent = p]
Behind(h, p, n)  == [h EXCEPT ![p].next = n, ![n].prev = p]

Insert(h, old, new) ==
  LET p == h[old].prev
      h1 == IF p = 0 THEN h
            ELSE [h EXCEPT ![new].prev = p, ![p].next = new, ![old].prev = 0]
  IN Child(h1, new, old)

(* The children of new become the next siblings of n. *)
Splice(h, n, new) ==
  IF h[new].child = 0 THEN h
  ELSE Behind([h EXCEPT ![new].child = 0, ![h[new].child].parent = 0], n, h[new].child)
-----------------------------------------------------------------------------
(* make_tree *)

treeVars == <<heap, cur, idx, stack>>

At(h, c, i, st) == heap' = h /\ cur' = c /\ idx' = i /\ stack' = st

Top  == Len(heap) + 1    \* the node that is made next
Grown == Node(heap, Token, Len(stack))

Operand ==
  /\ Building /\ Token \notin {"", ","} /\ ~IsOperator(Token)
  /\ LET h == Grown IN
       At(IF cur = 0 THEN h
          ELSE IF heap[cur].child = 0 THEN Child(h, cur, Top)
          ELSE Behind(h, LastChild(h, cur), Top),
          Top, idx + 1, stack)
  /\ UNCHANGED lexVars

(* The token's operator goes above old. *)
Over(h, old) == At(Insert(h, old, Top), Top, idx + 1, stack)

(* It goes below op, above op's last operand, or nowhere at all. *)
Below(h, op) ==
  IF h[op].child = 0 THEN At(heap, cur, idx + 1, stack) ELSE Over(h, LastChild(h, op))

IsTop(h, op) == h[op].parent = 0 /\ h[op].prev = 0

(* The node with the token's name that c stands behind or under. *)
Chained(c) ==
  LET f[x \in DOMAIN heap] ==
        IF heap[x].name = Token \/ heap[x].prev = 0 THEN x ELSE f[heap[x].prev]
      parent == heap[f[c]].parent
  IN IF heap[f[c]].name = Token THEN f[c]
     ELSE IF parent # 0 /\ heap[parent].name = Token THEN parent ELSE c

CommutativeOperator ==
  /\ Building /\ Token \in Commutative /\ cur # 0
  /\ LET h  == Grown
         op == MostHighPrecedence(h, cur, Token)
     IN IF heap[cur].name = Token THEN At(heap, cur, idx + 1, stack)
        ELSE IF ~IsTop(h, op) \/ Prec(h[op].name) < Prec(Token) THEN Over(h, op)
        ELSE IF Prec(h[op].name) = Prec(Token) THEN At(heap, Chained(cur), idx + 1, stack)
        ELSE Below(h, op)
  /\ UNCHANGED lexVars

OtherOperator ==
  /\ Building /\ IsOperator(Token) /\ Token \notin Commutative \cup {"(", ")"}
  /\ LET h  == Grown
         op == MostHighPrecedence(h, cur, Token)
     IN IF cur = 0 THEN At(h, Top, idx + 1, stack)
        ELSE IF \/ h[op].parentheses > Len(stack) \/ ~IsTop(h, op)
                \/ Prec(h[op].name) <= Prec(Token) THEN Over(h, op)
        ELSE Below(h, op)
  /\ UNCHANGED lexVars

Frame(k, c, empty) == [kind |-> k, cur |-> c, empty |-> empty]

(* An argument list, after a name; an inner make_tree reads each argument. *)
OpensCall == idx > 1 /\ ~IsOperator(TokenAt(idx - 1)) /\ TokenAt(idx - 1) # ","

OpenCall ==
  /\ Building /\ Token = "(" /\ OpensCall
  /\ IF TokenAt(idx + 1) = ")" THEN At(heap, cur, idx + 2, stack)
     ELSE At(heap, 0, idx + 1, <<Frame("call", cur, TRUE)>> \o stack)
  /\ UNCHANGED lexVars

OpenGroup ==
  /\ Building /\ Token = "(" /\ ~OpensCall
  /\ At(heap, 0, idx + 1, <<Frame("group", cur, TRUE)>> \o stack)
  /\ UNCHANGED lexVars

Returning == Building /\ Token \in {"", ")", ","}

CallReturns ==
  /\ Returning /\ Token # "" /\ stack # << >> /\ Head(stack).kind = "call"
  /\ LET f    == Head(stack)
         new  == RootOf(heap, cur)
         h    == IF new = 0 THEN heap
                 ELSE IF f.empty THEN Child(heap, f.cur, new) ELSE Behind(heap, f.cur, new)
         c    == IF new = 0 THEN f.cur ELSE new
         more == Token = "," /\ TokenAt(idx + 1) # ")"
     IN IF more
          THEN At(h, 0, idx + 1, <<Frame("call", c, f.empty /\ new = 0)>> \o Tail(stack))
          ELSE At(h, c, IF Token = "," THEN idx + 2 ELSE idx + 1, Tail(stack))
  /\ UNCHANGED lexVars

(* Whether a bracket in a sum or product is the last of it: the next       *)
(* operator binds tighter, or there is none.                               *)
Closes(t) ==
  LET next == SelectInSeq(SubSeq(made, idx, Len(made)), LAMBDA x: IsOperator(x) /\ x # ")")
  IN Prec(TokenAt(IF next = 0 THEN 0 ELSE idx + next - 1)) < Prec(t)

GroupReturns ==
  /\ Returning /\ stack # << >> /\ Head(stack).kind = "group"
  /\ cur # 0 \/ Head(stack).cur = 0
  /\ LET outer == Head(stack).cur
         new   == RootOf(heap, cur)
         name  == heap[new].name
         back  == LastChild(heap, outer)
         joins == /\ name = heap[outer].name /\ name \in Commutative
                  /\ name \in {"+", "*"} => ~Closes(name)
     IN IF outer = 0 THEN At(heap, new, idx + 1, Tail(stack))
        ELSE IF joins THEN At(Splice(heap, back, new), back, idx + 1, Tail(stack))
        ELSE At(Behind(heap, back, new), new, idx + 1, Tail(stack))
  /\ UNCHANGED lexVars

(* An argument list that is not closed: its loop looks for the bracket on  *)
(* beyond the tokens.                                                      *)
Unclosed == Returning /\ Token = "" /\ stack # << >> /\ Head(stack).kind = "call"

(* is_operator(cur->name) without a cur, or an empty bracket after one. *)
NoOperand ==
  \/ Building /\ Token \in Commutative /\ cur = 0
  \/ /\ Returning /\ stack # << >> /\ Head(stack).kind = "group"
     /\ cur = 0 /\ Head(stack).cur # 0
-----------------------------------------------------------------------------
MakeTree == \/ Operand \/ CommutativeOperator \/ OtherOperator
            \/ OpenCall \/ OpenGroup \/ CallReturns \/ GroupReturns

NoTree == heap = << >> /\ cur = 0 /\ idx = 1 /\ stack = << >>

(* One text becomes a tree. *)
BuildInit == LexInit /\ NoTree
BuildSpec == BuildInit /\ [][(MakeTokens /\ UNCHANGED treeVars) \/ MakeTree]_<<lexVars, treeVars>>
-----------------------------------------------------------------------------
(* Properties *)

Operands(ts) == Without(ts, DOMAIN Precedence \cup {"(", ")", ","})

(* The names of a tree in the order of its text. *)
Names(n) ==
  LET f[x \in 0..Len(heap)] ==
        IF x = 0 THEN << >> ELSE Operands(<<heap[x].name>>) \o f[heap[x].child] \o f[heap[x].next]
  IN f[RootOf(heap, n)]

(* Neither make_tokens nor make_tree, which moves whole subtrees about and *)
(* calls itself for brackets, loses anything: whatever has been read of    *)
(* the tokens so far stands, in the order it was written, in the tree at   *)
(* hand and those of the waiting calls.                                    *)
TreeKept ==
  Building =>
    FlattenSeq([i \in DOMAIN stack |-> Names(Reverse(stack)[i].cur)]) \o Names(cur)
      = Operands(SubSeq(made, 1, idx - 1))
NothingLost == TextKept /\ TreeKept

(* As far as operands are put where they are read: what an operand, an     *)
(* argument or a bracket is put behind is the last of its siblings, so is  *)
(* what a tighter operator goes below, which has two operands already, and *)
(* all brackets but those of an argument list are closed.                  *)
IsLast(n) == n # 0 => heap[n].next = 0
InPlace ==
  /\ Building /\ ~IsOperator(Token) /\ ~Returning => IsLast(cur)
  /\ Returning /\ stack # << >> =>
       /\ Head(stack).kind = "group" => Token # ""
       /\ IsLast(Head(stack).cur)
       /\ Head(stack).kind = "group" /\ Head(stack).cur # 0 => IsLast(RootOf(heap, cur))
  /\ Building /\ IsOperator(Token) /\ Token \notin {"(", ")"} /\ cur # 0 =>
       LET h  == Grown
           op == MostHighPrecedence(h, cur, Token)
       IN IsTop(h, op) /\ Prec(h[op].name) > Prec(Token) /\ h[op].child # 0 =>
            h[op].next = 0 /\ LastChild(h, op) # h[op].child
=============================================================================
