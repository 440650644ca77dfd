---------------------------- MODULE MCScoreBlank ----------------------------
EXTENDS ScoreBlank

(* "x" stands for a name.  make_tokens takes a +, - or & after a bracket   *)
(* for the sign of what follows, so no such operator follows one here.     *)
MCOps    == {"+", "-", "&&", "<"}
MCPairs  == {<<"x", o, "x">>: o \in MCOps \cup {"==", ">", "=", "*", "&"}}
MCTriples ==
  {<<"x", o, "x", p, "x">>: o, p \in MCOps}
  \cup {<<"x", o, "(", "x", p, "x", ")">>: o, p \in MCOps}
  \cup {<<"(", "x", o, "x", ")", p, "x">>: o \in MCOps, p \in {"&&", "<"}}
  \cup {<<"x", "(", "x", ")">>, <<"x", "=", "x", "+", "x">>, <<"x", "==", "x", "-", "x">>, <<"x", "-", "x", "==", "x">>,
        <<"x", "&&", "(", "x", "&&", "x", ")", "&&", "x">>, <<"x", "+", "(", "x", "+", "x", ")", "&&", "x">>,
        <<"x", "(", "x", ",", "x", ")">>, <<"x", "(", ")">>, <<"x", "+", "x", "(", "x", "&&", "x", ")">>}
MCPrefixed ==
  {<<o, "x">>: o \in {"-", "*", "&", "!", "++"}}
  \cup {<<"x", o, p, "x">>: o \in {"-", "*", "&", "="}, p \in {"-", "*", "&", "++"}}
  \cup {<<"x", "++", o, "x">>: o \in {"+", "-", "*"}}
  \cup {<<"x", "->", "x", "+", "x">>, <<"x", ".", "x", "+", "x">>, <<"x", "[", "1", "]">>,
        <<"x", "(", "&", "x", ",", "*", "x", ")">>, <<"x", "=", "*", "x", "*", "x">>,
        <<"&", "(", "x", ")">>, <<"-", "x", "&", "x">>, <<"x", "=", "x", "&", "x">>, <<"(", "int", ")", "x">>, <<"(", "int", "*", ")", "x", "&&", "x">>,
        <<"x", "(", "x", ",", "\"s\"", ")">>, <<"*", "*", "x", "=", "x">>}
MCDeclarations ==
  {<<"int", "x">>, <<"int", "*", "x", ",", "x">>, <<"struct", "x", "*", "x">>, <<"unsigned", "int", "x">>,
   <<"#", "include", "<", "x", ">">>, <<"gcc", "x", "-", "x">>, <<"sizeof", "(", "struct", "x", ")">>, <<"(", "struct", "x", ")", "x">>,
   <<"sizeof", "(", "int", ")">>, <<"sizeof", "(", "int", ")", "*", "x">>, <<"x", "-", "lpthread">>, <<"extern", "int", "x">>}
MCShapes == {<<"x">>} \cup MCPairs \cup MCTriples \cup MCPrefixed \cup MCDeclarations

MCTyped   == {"int", "struct", "unsigned"}
MCTypish  == MCTyped
MCStrings == {"\"s\""}

MCNamed(shape, names) ==
  [i \in DOMAIN shape |->
     IF shape[i] = "x" THEN names[Len(SelectSeq(SubSeq(shape, 1, i), LAMBDA t: t = "x"))]
     ELSE shape[i]]

(* The text of units with a space after each, or only where two would be one. *)
MCSpaced(us) == SubSeq([i \in 1..2 * Len(us) |-> IF i % 2 = 0 THEN " " ELSE us[(i + 1) \div 2]], 1, 2 * Len(us) - 1)
MCTouch(u, v) ==
  \/ IsWord(u) /\ IsWord(v)
  \/ <<u, v>> \in {<<"-", "-">>, <<"+", "+">>, <<"&", "&">>, <<"+", "++">>}
MCDense(us) ==
  FlattenSeq([i \in DOMAIN us |-> IF i > 1 /\ MCTouch(us[i - 1], us[i]) THEN <<" ", us[i]>> ELSE <<us[i]>>])

MCAnswer(t, s) == [text |-> t, semicolon |-> s]
MCInOrder == <<"a", "b", "c", "d">>
MCOrders  == {<<"a", "b", "c", "d">>, <<"b", "a", "c", "d">>, <<"c", "a", "b", "d">>, <<"b", "c", "a", "d">>,
              <<"c", "b", "a", "d">>, <<"a", "b", "b", "b">>}

MCUnits == {MCNamed(s, MCInOrder): s \in MCShapes}
MCAnswers ==
  {MCAnswer(MCSpaced(us), FALSE): us \in MCUnits} \cup {MCAnswer(MCDense(us), FALSE): us \in MCUnits}
  \cup {MCAnswer(MCDense(MCNamed(s, <<"a", "a", "b", "b">>)), TRUE): s \in MCPairs}
  \cup {MCAnswer(t, FALSE): t \in {<< >>, <<"a", ")">>, <<"&&", "a">>, <<"a", "*">>, <<"a", "++", "++">>,
                                 <<"a", "*", "*", "*">>}}
  \cup {MCAnswer(<<"a", " ", "+", " ", "b", " ">>, TRUE)}

MCTree(us)  == Range(us) \cap (MCTyped \cup {"gcc", "include"}) = {}
MCKeys ==
  LET units == {MCNamed(s, o): s \in {s \in MCShapes: MCTree(s)}, o \in MCOrders} \cup MCUnits
  IN {[dense |-> MCDense(us), spaced |-> MCSpaced(us), length |-> Len(us)]: us \in units}

(* The key has the spaces the answer has not. *)
MCOther(a, k) == MCAnswer(IF a.text = MCSpaced(Units(a)) THEN k.dense ELSE k.spaced, FALSE)
MCFiles ==
  [a \in MCAnswers |->
     {<<MCOther(a, k)>>: k \in {k \in MCKeys: k.length - Len(Units(a)) \in {0, 2}}}
     \cup {<<MCAnswer(<<"a">>, FALSE), [a EXCEPT !.semicolon = FALSE], MCAnswer(<<"a", " ", "b">>, TRUE), a>>,
           <<MCAnswer(<<"a", ">", "b">>, FALSE), a>>,
           <<MCAnswer(<<"a", "(", "b">>, a.semicolon)>>,
           <<MCAnswer(<<"b", "+", "a">>, TRUE), MCAnswer(<< >>, FALSE), a>>}]
=============================================================================
