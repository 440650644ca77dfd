---------------------------- MODULE ScoreTokens ----------------------------
(***************************************************************************)
(* ssu_score: make_tokens, which cuts the text of an answer into tokens.   *)
(* A text is the sequence of its lexical units: names, operators, quoted   *)
(* strings, and each space; two units that touch and would be read as one  *)
(* are one.  A token is the sequence of the units put together in it.  A   *)
(* step is one pass of a loop of make_tokens.                              *)
(***************************************************************************)
EXTENDS Integers, SequencesExt

CONSTANTS
  Typed,      \* the names that begin with one of datatype
  Typish,     \* the names with one of datatype anywhere in them
  Strings     \* quoted strings

ASSUME TypedAssumption == Typed \subseteq Typish

VARIABLES
  text,      \* what is read
  start,     \* where make_tokens is
  row,       \* the token it is at; as in the code, the first is 0
  tokens,    \* the array; what is below row is made
  lexed,     \* where make_tokens is: in its loops, or what it has returned
  made       \* the tokens it returns

lexVars == <<text, start, row, tokens, lexed, made>>

ASpace == " "
AQuote == "\""

Doubles == {"==", "!=", "<=", ">=", "||", "&&", "&=", "^=", "|=", "+=", "-=", "*=", "/="}
Steps   == {"++", "--"}
Others  == {")", ",", ";", ">", "<", "=", "!", "|", "^", "/", "+", "-"}
Ops     == {"(", "&", "*", "->", AQuote} \cup Others \cup Doubles \cup Steps \cup Strings
Marks   == {ASpace, ".", "%", "[", "]", "?", ":", "#"}

ASSUME StringsAssumption == Strings \cap (Marks \cup {"*"}) = {}

IsOp(u)     == u \in Ops
IsWord(u)   == u \notin Ops \cup Marks
IsSpace(u)  == u = ASpace
NotSpace(u) == u # ASpace

Without(us, X) == FlattenSeq([i \in DOMAIN us |-> IF us[i] \in X THEN << >> ELSE <<us[i]>>])
Dense(s) == Without(s, {ASpace})
Span(i, j) == SubSeq(text, i, j - 1)

Of(ts, k) == IF k \in DOMAIN ts THEN ts[k] ELSE << >>
Tok(k)    == Of(tokens, k)

LastUnit(t)   == IF t = << >> THEN ASpace ELSE Last(t)
EndsInWord(t) == IsWord(LastUnit(t))
AllStar(t)    == t # << >> /\ \A i \in DOMAIN t: t[i] = "*"
HasOp(t)      == \E i \in DOMAIN t: IsOp(t[i])
IsType(t)     == t # << >> /\ t[1] \in Typed \cup {"gcc"}
HoldsType(t)  == \E i \in DOMAIN t: t[i] \in Typish

(* "++" or "--", if only as two signs that have come together. *)
HasStep(t) ==
  \/ \E i \in DOMAIN t: t[i] \in Steps
  \/ \E i \in 1..Len(t) - 1: <<t[i], t[i + 1]>> \in {<<"+", "+">>, <<"-", "-">>, <<"-", "->">>}
IsStep(t) == HasStep(t) /\ Len(FlattenSeq(t)) = 2
IsSign(t) == t \in {<<"+">>, <<"-">>} \/ (IsStep(t) /\ Len(t) = 2)

NextOp(i) == LET k == SelectInSubSeq(text, i, Len(text), IsOp) IN IF k = 0 THEN Len(text) + 1 ELSE k
NextUnit(i) ==
  LET k == SelectInSubSeq(text, i, Len(text), NotSpace) IN IF k = 0 THEN Len(text) + 1 ELSE k
Unit(i) == IF i \in DOMAIN text THEN text[i] ELSE ASpace
-----------------------------------------------------------------------------
(* The end of a pass *)

(* Two names, or a type and a name, side by side where there may not be any. *)
Clash(ts, r) ==
  LET before == Of(ts, r - 1)
      first  == Of(ts, r - 2)
  IN /\ r > 0 /\ EndsInWord(Of(ts, r))
     /\ IsType(before) \/ EndsInWord(before) \/ LastUnit(before) = "."
     /\ IF r > 1 /\ first = <<"(">> THEN before \notin {<<"struct">>, <<"unsigned">>}
        ELSE IF r = 1 THEN before # <<"extern">> /\ ~IsType(before)
        ELSE IsType(before) /\ first \notin {<<"unsigned">>, <<"extern">>}

(* rtrim *)
Trimmed(t) == SubSeq(t, 1, SelectLastInSeq(t, NotSpace))

Returns(r) == lexed' = r /\ UNCHANGED <<text, start, row, tokens, made>>

(* Token r has become t, and the next pass begins at i with the one after it. *)
PassEnds(r, t, i) ==
  \E ts \in {IF r \in DOMAIN tokens THEN [tokens EXCEPT ![r] = Trimmed(t)] ELSE tokens}:
    IF Clash(ts, r) THEN Returns("refused")
    ELSE /\ row' = r + 1 /\ start' = i /\ tokens' = ts
         /\ UNCHANGED <<text, lexed, made>>

AtOp(us) == lexed = "reading" /\ start <= Len(text) /\ text[start] \in us
U    == text[start]
Cur  == Tok(row)
Prev == Tok(row - 1)

(* What is read from here to the next operator is refused: a space, and    *)
(* more, after a unit that may not stand before a space.                   *)
Gap(to, fine) == \E k \in start..to - 3: text[k] \notin fine /\ text[k + 1] = ASpace
-----------------------------------------------------------------------------
(* An operator is next *)

Twice == AtOp(Steps) /\ Unit(start + 1) = U /\ Returns("refused")

(* ++a *)
StepBefore ==
  /\ AtOp(Steps) /\ Unit(start + 1) # U /\ IsWord(Unit(NextUnit(start + 1)))
  /\ LET to == NextOp(start + 1) IN
     IF (row > 0 /\ EndsInWord(Prev)) \/ Gap(to, Ops \cup Marks) THEN Returns("refused")
     ELSE PassEnds(row, Cur \o Dense(Span(start, to)), to)

(* a++, or what only looks like it *)
StepAfter ==
  /\ AtOp(Steps) /\ Unit(start + 1) # U /\ ~IsWord(Unit(NextUnit(start + 1)))
  /\ IF row > 0 /\ EndsInWord(Prev)
       THEN IF HasStep(Prev) THEN Returns("refused")
            ELSE PassEnds(row - 1, Append(Prev, U), start + 1)
     ELSE PassEnds(row, Append(Cur, U), start + 1)

(* The first characters of a token left open are overwritten. *)
Overwritten(n) == <<U>> \o SubSeq(Cur, n + 1, Len(Cur))

Double == AtOp(Doubles) /\ PassEnds(row, Overwritten(2), start + 1)

(* At the start of a text it is written before the array. *)
Arrow ==
  /\ AtOp({"->"})
  /\ LET to == NextOp(start + 1) IN PassEnds(row - 1, Prev \o Dense(Span(start, to)), to)

Ampersand ==
  /\ AtOp({"&"})
  /\ LET to == NextOp(start + 1) IN
     IF row > 0 /\ ~HasOp(Prev) THEN PassEnds(row, Overwritten(1), start + 1)
     ELSE IF Gap(to, {"&", ASpace}) THEN Returns("refused")
     ELSE PassEnds(row, Cur \o Dense(Span(start, to)), to)

(* char*; the same pass goes on. *)
PointerType ==
  /\ AtOp({"*"}) /\ row > 0 /\ HoldsType(Prev)
  /\ tokens' = [tokens EXCEPT ![row - 1] = Append(@, "*")] /\ start' = start + 1
  /\ UNCHANGED <<text, row, lexed, made>>

(* A star that is the last character is not passed: it comes up again for  *)
(* the next token, and the next; or, after stars that follow a star, for   *)
(* the same token (row--, row++), for ever.                                *)
LastStar ==
  /\ AtOp({"*"}) /\ row > 0 /\ ~HoldsType(Prev) /\ start = Len(text)
  /\ row \in DOMAIN tokens
  /\ IF row > 1 /\ Tok(row - 2) = <<"*">> /\ AllStar(Prev)
       THEN Returns("loops")
     ELSE PassEnds(row, Cur, start)

(* So row leaves the array (whose other tokens, up to TOKEN_CNT, are empty *)
(* and are left out): the pass crashes, refuses what it finds there, or    *)
(* takes it for a type, to which it adds the star.                         *)
BeyondArray ==
  /\ AtOp({"*"}) /\ row > 0 /\ row \notin DOMAIN tokens
  /\ \/ Returns("crash") \/ Returns("refused")
     \/ start' = start + 1 /\ lexed' = "last" /\ UNCHANGED <<text, row, tokens, made>>

Star ==
  /\ AtOp({"*"}) /\ row > 0 /\ ~HoldsType(Prev) /\ start < Len(text)
  /\ IF row > 1 /\ Tok(row - 2) = <<"*">> /\ AllStar(Prev)
       THEN PassEnds(row - 1, Append(Prev, "*"), start + 1)
     ELSE PassEnds(row, Append(Cur, "*"), start + 1)

FirstStar ==
  /\ AtOp({"*"}) /\ row = 0
  /\ LET to == NextOp(start + 1)
         t  == Cur \o Dense(Span(start, to))
     IN IF to > Len(text) THEN PassEnds(0, Append(Cur, "*"), start + 1)
        ELSE IF Gap(to, Ops \cup Marks) THEN Returns("refused")
        ELSE IF AllStar(t) THEN /\ tokens' = [tokens EXCEPT ![0] = t] /\ start' = to
                                /\ UNCHANGED <<text, row, lexed, made>>
        ELSE PassEnds(0, t, to)

(* How many units b follow one another from i on. *)
Count(b, i) == SelectInSeq(Append(SubSeq(text, i, Len(text)), ASpace), LAMBDA u: u # b) - 1

(* &(a): what is in the brackets joins the token before them. *)
PrefixedBracket ==
  /\ AtOp({"("}) /\ row > 0 /\ Prev \in {<<"&">>, <<"*">>}
  /\ LET more  == Count("(", start + 1)
         open  == start + more
         close == SelectInSubSeq(text, open + 1, Len(text), LAMBDA u: u = ")")
     IN IF close = 0 \/ Count(")", close + 1) # more THEN Returns("refused")
        ELSE IF row = 1 \/ ~EndsInWord(Tok(row - 2))
          THEN PassEnds(row - 1, Prev \o SubSeq(text, open + 1, close - 1), close + more + 1)
        ELSE PassEnds(row, Append(Cur, "("), open + 1)

Bracket ==
  /\ AtOp({"("}) /\ ~(row > 0 /\ Prev \in {<<"&">>, <<"*">>})
  /\ PassEnds(row, Append(Cur, "("), start + 1)

Quoted ==
  /\ AtOp(Strings \cup {AQuote})
  /\ IF U = AQuote THEN Returns("refused") ELSE PassEnds(row, Append(Cur, U), start + 1)

(* A sign that begins a token: row stays where it is, and what follows     *)
(* joins it.                                                               *)
Leads(t) == IsSign(t) /\ (row = 0 \/ (~EndsInWord(Prev) /\ ~HasStep(Prev)))

OtherOp ==
  /\ AtOp(Others)
  /\ LET t == Append(Cur, U) IN
     IF row > 0 /\ IsStep(Prev) THEN Returns("refused")
     ELSE IF Leads(t) THEN /\ tokens' = [tokens EXCEPT ![row] = t] /\ start' = start + 1
                              /\ UNCHANGED <<text, row, lexed, made>>
     ELSE PassEnds(row, t, start + 1)
-----------------------------------------------------------------------------
(* A name is next *)

(* A slip: the stars before a name are left alone. *)
UnstarredNot == row

(* Stars that are not an operator belong to the name. *)
Unstarred ==
  LET r == IF row > 1 /\ AllStar(Prev) /\ ~EndsInWord(Tok(row - 2)) THEN row - 1 ELSE row
  IN IF r = 1 /\ AllStar(Tok(0)) THEN 0 ELSE r

(* The first space from i on that is not after a dot. *)
WordEnd(i, to) ==
  LET ends(k) == /\ text[k] = ASpace
                 /\ LET last == SelectLastInSubSeq(text, i, k, NotSpace) IN text[last] # "." \/ last = i
      k == CHOOSE k \in i + 1..to: (k = to \/ ends(k)) /\ \A j \in i + 1..k - 1: ~ends(j)
  IN k

Spaces ==
  /\ lexed = "reading" /\ Unit(start) = ASpace /\ NextOp(start) <= Len(text)
  /\ row' = Unstarred /\ start' = NextUnit(start)
  /\ UNCHANGED <<text, tokens, lexed, made>>

Name ==
  /\ lexed = "reading" /\ NextOp(start) \in start + 1..Len(text) /\ Unit(start) # ASpace
  /\ LET end == WordEnd(start, NextOp(start))
         t   == Tok(Unstarred) \o Dense(Span(start, end))
     IN IF Unstarred = 0 /\ t = <<"gcc">>
          THEN lexed' = "done" /\ made' = <<FlattenSeq(text)>> /\ UNCHANGED <<text, start, row, tokens>>
        ELSE PassEnds(Unstarred, t, NextUnit(end))
-----------------------------------------------------------------------------
(* No operator is left *)

LastWords ==
  /\ lexed = "reading" /\ NextOp(start) > Len(text)
  /\ row' = Unstarred /\ start' = NextUnit(start) /\ lexed' = "last"
  /\ UNCHANGED <<text, tokens, made>>

NextWord ==
  /\ lexed = "last" /\ Unit(start) = ASpace /\ start <= Len(text)
  /\ row' = row + 1 /\ start' = NextUnit(start)
  /\ UNCHANGED <<text, tokens, lexed, made>>

LastWord ==
  /\ lexed = "last" /\ start <= Len(text) /\ U # ASpace
  /\ LET t  == Append(Cur, U)
         ts == [tokens EXCEPT ![row] = t]
     IN /\ start' = IF U = "." THEN NextUnit(start + 1) ELSE start + 1
        /\ IF t = <<"lpthread">> /\ row > 0 /\ Prev = <<"-">>
             THEN /\ tokens' = [tokens EXCEPT ![row - 1] = <<"-", "lpthread">>] /\ row' = row - 1
                  /\ UNCHANGED lexed
           ELSE /\ tokens' = ts /\ UNCHANGED row
                /\ lexed' = IF Clash(ts, row) THEN "refused" ELSE lexed
  /\ UNCHANGED <<text, made>>

(* remove_extraspace *)
Tidied(s) ==
  FlattenSeq([i \in DOMAIN s |->
                IF s[i] = ASpace /\ i > 1 /\ s[i - 1] = ASpace THEN << >>
                ELSE IF s[i] = "include" /\ i < Len(s) /\ s[i + 1] = "<" THEN <<s[i], ASpace>>
                ELSE <<s[i]>>])

(* The array up to the first empty token. *)
List(ts) ==
  LET n == CHOOSE n \in 0..Len(text) + 2: Of(ts, n) = << >> /\ \A k \in 0..n - 1: ts[k] # << >>
  IN [k \in 1..n |-> ts[k - 1]]

Alone(t) == [k \in DOMAIN tokens |-> IF k = 0 THEN t ELSE << >>]

(* A declaration is one token. *)
Whole ==
  /\ lexed = "last" /\ start > Len(text)
  /\ LET ts   == IF row > 0 /\ Tok(0) \in {<<"#", "include">>, <<"include">>, <<"struct">>}
                   THEN Alone(Tidied(text)) ELSE tokens
         list == List(ts)
     IN tokens' = IF IsType(Of(ts, 0)) \/ \E i \in DOMAIN Of(ts, 0): ts[0][i] = "extern"
                    THEN Alone(FlattenSeq([k \in DOMAIN list |->
                                 IF k = 1 THEN list[k] ELSE <<ASpace>> \o list[k]]))
                  ELSE ts
  /\ lexed' = "casts"
  /\ UNCHANGED <<text, start, row, made>>
-----------------------------------------------------------------------------
(* Casts: the tokens of (char) a become one *)

Ahead == {"&", "*", ")", "(", "-", "+", "->", "&&", "&=", "*=", "-=", "+="} \cup Steps

(* find_typeSpecifier, find_typeSpecifier2; -1 if there is none. *)
FirstOf(S) == IF S = {} THEN -1 ELSE CHOOSE i \in S: \A j \in S: i <= j
TypeSpecifier ==
  FirstOf({i \in DOMAIN tokens \ {0}:
             /\ HoldsType(tokens[i]) /\ Tok(i - 1) = <<"(">> /\ Tok(i + 1) = <<")">>
             /\ Tok(i + 2) # << >>
             /\ LET u == Tok(i + 2)[1] IN u \in Ahead \/ IsWord(u)})
StructSpecifier == FirstOf({i \in DOMAIN tokens: tokens[i] = <<"struct">> /\ EndsInWord(Tok(i + 1))})

(* How many tokens t there are from k on, in the direction d. *)
Run(ts, k, d, t) ==
  CHOOSE n \in 0..Len(text) + 2: Of(ts, k + d * n) # t /\ \A m \in 0..n - 1: Of(ts, k + d * m) = t

StructNamed(i) ==
  IF tokens[i] # <<"struct">> THEN tokens
  ELSE [k \in DOMAIN tokens |->
          IF k < i THEN tokens[k] ELSE IF k = i THEN <<"struct", ASpace>> \o Tok(i + 1) ELSE Tok(k + 1)]

(* reset_tokens: the brackets about token i, it, and what follows, are one *)
(* token.  Those of a sizeof stay as they are, and are found again, and    *)
(* again: the loop has no end.                                             *)
ResetTokens(i) ==
  LET named == StructNamed(i)
      right == Run(named, i + 1, 1, <<")">>)
      run   == Run(named, i - 1, -1, <<"(">>)
      left  == IF i - 1 - run <= 0 \/ EndsInWord(Of(named, i - 1 - run)) THEN right ELSE run
      next  == Of(named, i + 2)
      opens == next # << >> /\ next[1] = "("
      inner == Run(named, i + 2, 1, <<"(">>)
      close == Run(named, i + 2 + inner + 1, 1, <<")">>)
      ts    == [k \in DOMAIN named |-> IF ~opens \/ k < i + 2 THEN named[k]
                                       ELSE IF k = i + 2 THEN Of(named, i + 2 + inner) ELSE << >>]
  IN IF left # right THEN Returns("refused")
     ELSE IF i - left > 0 /\ Of(named, i - left - 1) = <<"sizeof">>
       THEN IF named = tokens THEN Returns("loops")
            ELSE tokens' = named /\ UNCHANGED <<text, start, row, lexed, made>>
     ELSE IF opens /\ inner # close THEN Returns("refused")
     ELSE /\ tokens' = [k \in DOMAIN ts |->
                IF k < i - left THEN ts[k]
                ELSE IF k > i - left THEN Of(ts, k + left + right + 1)
                ELSE ts[k] \o ts[i] \o Of(ts, i + 1) \o Of(ts, i + right + 1)]
          /\ UNCHANGED <<text, start, row, lexed, made>>

Cast   == lexed = "casts" /\ TypeSpecifier # -1 /\ ResetTokens(TypeSpecifier)
Casts  == lexed = "casts" /\ TypeSpecifier = -1 /\ Returns("structs")
Struct == lexed = "structs" /\ StructSpecifier # -1 /\ ResetTokens(StructSpecifier)

Done ==
  /\ lexed = "structs" /\ StructSpecifier = -1
  /\ lexed' = "done"
  /\ made' = LET list == List(tokens) IN [k \in DOMAIN list |-> FlattenSeq(list[k])]
  /\ UNCHANGED <<text, start, row, tokens>>
-----------------------------------------------------------------------------
NoText == text = << >> /\ start = 0 /\ row = 0 /\ tokens = << >> /\ lexed = "none" /\ made = << >>

Forget == text' = << >> /\ start' = 0 /\ row' = 0 /\ tokens' = << >> /\ lexed' = "none" /\ made' = << >>

(* make_tokens is called. *)
Begin(t) ==
  /\ text' = t /\ start' = 1 /\ row' = 0 /\ made' = << >>
  /\ tokens' = [k \in 0..Len(t) + 1 |-> << >>]
  /\ lexed' = IF "gcc" \in Range(t) /\ t[1] # "gcc" THEN "refused" ELSE "reading"

Pass == \/ Twice \/ StepBefore \/ StepAfter \/ Double \/ Arrow \/ Ampersand \/ PointerType
        \/ LastStar \/ BeyondArray \/ Star \/ FirstStar \/ PrefixedBracket \/ Bracket \/ Quoted \/ OtherOp \/ Spaces \/ Name

MakeTokens == Pass \/ LastWords \/ NextWord \/ LastWord \/ Whole \/ Cast \/ Casts \/ Struct \/ Done

(* One call of make_tokens, for any text. *)
LexInit ==
  /\ text \in Seq(Range(text)) /\ text # << >>
  /\ start = 1 /\ row = 0 /\ made = << >>
  /\ tokens = [k \in 0..Len(text) + 1 |-> << >>]
  /\ lexed = IF "gcc" \in Range(text) /\ text[1] # "gcc" THEN "refused" ELSE "reading"

LexSpec == LexInit /\ [][MakeTokens]_lexVars
-----------------------------------------------------------------------------
(* Properties *)

Working == lexed \in {"reading", "last", "casts", "structs"}

(* A text that ends in a star: the star may come up again and again, and   *)
(* what becomes of it is undefined.                                        *)
Undefined(t) == t # << >> /\ Last(t) = "*"
AtLastStar == Undefined(text) /\ start >= Len(text)

(* make_tokens puts what it reads into this token or that one and goes     *)
(* back over its array.  Whatever has been read of a text so far stands in *)
(* the tokens, in the order it was written.                                *)
Unbracketed(us) == Without(us, {ASpace, "(", ")"})
TextKept ==
  Working /\ ~Undefined(text) =>
    Unbracketed(FlattenSeq([k \in 1..Len(text) + 2 |-> tokens[k - 1]]))
      = Unbracketed(SubSeq(text, 1, start - 1))

(* As far as texts are read in their order: no token that has been left    *)
(* open is overwritten or comes to stand behind what is read after it, and *)
(* the brackets about a type have partners and none follow.                *)
Joins ==
  \/ AtOp(Steps) /\ EndsInWord(Prev)
  \/ AtOp({"->"})
  \/ AtOp({"*"}) /\ (HoldsType(Prev) \/ AllStar(Prev))
  \/ AtOp({"("}) /\ Prev \in {<<"&">>, <<"*">>}
Overwrites == AtOp(Doubles) \/ (AtOp({"&"}) /\ row > 0 /\ ~HasOp(Prev))
PlainCast(i) ==
  LET named == StructNamed(i)
      right == Run(named, i + 1, 1, <<")">>)
      next  == Of(named, i + 2)
  IN /\ right \in 1..Run(named, i - 1, -1, <<"(">>)
     /\ IF next = << >> THEN TRUE ELSE next[1] # "("
Orderly ==
  /\ lexed = "reading" =>
       /\ Cur # << >> => ~Overwrites /\ (row > 0 => ~Joins)
       /\ row = 0 => ~AtOp({"->"})
       /\ NextOp(start) # start => \A k \in Unstarred + 1..row: Tok(k) = << >>
  /\ lexed = "casts" /\ TypeSpecifier # -1 => PlainCast(TypeSpecifier)
  /\ lexed = "structs" /\ StructSpecifier # -1 => PlainCast(StructSpecifier)

(* A text never needs more tokens than it has units, but for a star at its *)
(* very end, and the list that is made of the array has an end.            *)
RoomEnough ==
  /\ lexed \in {"reading", "last"} => row \in 0..Len(text) \/ AtLastStar
  /\ Working => tokens[Len(text) + 1] = << >>

(* Only two loops of make_tokens can go on for ever, at the cast of a      *)
(* sizeof, which stays and is found again, and at a last star after stars: *)
(* every other pass goes on in the text (or, at a last star, towards the   *)
(* end of the array), and later each leaves fewer tokens in the array.     *)
Phase == CASE lexed = "reading" -> 4 [] lexed = "last" -> 3 [] lexed = "casts" -> 2
           [] lexed = "structs" -> 1 [] OTHER -> 0
Filled == {k \in DOMAIN tokens: tokens[k] # << >>}
GoesOn ==
  /\ Phase > 0
  /\ \/ Phase' < Phase
     \/ Phase' = Phase /\ IF Phase \in {3, 4}
                            THEN \/ start < start' /\ start' <= Len(text) + 1
                                 \/ AtLastStar /\ row < row' /\ row' <= Len(text) + 2
                          ELSE Filled' \subseteq DOMAIN tokens
                               /\ Cardinality(Filled') < Cardinality(Filled)
PassesEnd == [][GoesOn]_lexVars
=============================================================================
