----------------------------- MODULE TreeProofs -----------------------------
(***************************************************************************)
(* How make_tree makes a tree of the tokens of an answer: each of its      *)
(* steps keeps the forest of the trees at hand, and what has been read     *)
(* stands in these in the order it was written.                            *)
(***************************************************************************)
EXTENDS ScoreTree, DataLemmas, TLAPS

(* What is left of a sequence without some units *)

Bit(u, X) == IF u \in X THEN << >> ELSE <<u>>

LEMMA BitIs == ASSUME NEW S, NEW u \in S, NEW X PROVE Bit(u, X) \in Seq(S)
BY DEF Bit

LEMMA WithoutJoins ==
  ASSUME NEW S, NEW s \in Seq(S), NEW X, NEW f, \A k \in 0..Len(s) - 1: f[k] = Bit(s[k + 1], X)
  PROVE  Without(s, X) = Joined(f, Len(s))
<1>1. Len(s) \in Nat /\ DOMAIN s = 1..Len(s)  OBVIOUS
<1>2. \A k \in 1..Len(s): k - 1 \in 0..Len(s) - 1 /\ k - 1 + 1 = k  BY <1>1
<1>3. \A k \in 1..Len(s): f[k - 1] = Bit(s[k], X)  BY <1>2
<1>4. [k \in DOMAIN s |-> IF s[k] \in X THEN << >> ELSE <<s[k]>>] = [k \in 1..Len(s) |-> f[k - 1]]
  BY <1>1, <1>3 DEF Bit
<1> QED  BY <1>4 DEF Without, Joined

LEMMA WithoutIs ==
  ASSUME NEW S, NEW s \in Seq(S), NEW X
  PROVE  /\ Without(s, X) \in Seq(S) /\ Without(<< >>, X) = << >>
         /\ \A u \in S: Without(Append(s, u), X) = Without(s, X) \o Bit(u, X)
<1>1. Len(s) \in Nat /\ \A k \in 0..Len(s) - 1: s[k + 1] \in S
  <2>1. Len(s) \in Nat /\ \A k \in 1..Len(s): s[k] \in S  OBVIOUS
  <2>2. \A k \in 0..Len(s) - 1: k + 1 \in 1..Len(s)  BY <2>1
  <2> QED  BY <2>1, <2>2
<1>2. Without(s, X) \in Seq(S)
  <2> DEFINE f == [k \in 0..Len(s) - 1 |-> Bit(s[k + 1], X)]
  <2>1. \A k \in 0..Len(s) - 1: f[k] = Bit(s[k + 1], X) /\ f[k] \in Seq(S)  BY <1>1, BitIs
  <2> HIDE DEF f
  <2> QED  BY <1>1, <2>1, WithoutJoins, JoinedIs, ZenonT(60)
<1>3. Without(<< >>, X) = << >>
  <2>1. << >> \in Seq(S) /\ Len(<< >>) = 0  BY EmptySeq
  <2> DEFINE f == [k \in Nat |-> << >>]
  <2>2. Without(<< >>, X) = Joined(f, 0)
    <3>1. \A k \in 0..Len(<< >>) - 1: f[k] = Bit(<< >>[k + 1], X)  BY <2>1
    <3> HIDE DEF f
    <3> QED  BY <2>1, <3>1, WithoutJoins
  <2>3. 0 \in Nat /\ \A k \in 0..0 - 1: f[k] \in Seq(S)  OBVIOUS
  <2> HIDE DEF f
  <2>4. Joined(f, 0) = << >>  BY <2>3, JoinedIs
  <2> QED  BY <2>2, <2>4
<1>4. ASSUME NEW u \in S PROVE Without(Append(s, u), X) = Without(s, X) \o Bit(u, X)
  <2> DEFINE r == Append(s, u)
             n == Len(s)
             f == [k \in 0..n |-> Bit(r[k + 1], X)]
  <2>1. r \in Seq(S) /\ Len(r) = n + 1 /\ r[n + 1] = u /\ \A i \in 1..n: r[i] = s[i]
    BY AppendProperties
  <2>2. \A k \in 0..n - 1: k + 1 \in 1..n /\ k \in 0..n  BY <1>1
  <2>3. n \in Nat /\ n + 1 \in Nat /\ n \in 0..n /\ n + 1 - 1 = n /\ n + 1 > 0  BY <1>1
  <2> HIDE DEF r
  <2>4. \A k \in 0..n: f[k] = Bit(r[k + 1], X)  OBVIOUS
  <2>5. \A k \in 0..n - 1: f[k] = Bit(s[k + 1], X)  BY <2>1, <2>2, <2>4
  <2>6. f[n] = Bit(u, X)  BY <2>1, <2>3, <2>4
  <2> HIDE DEF f
  <2>7. Without(s, X) = Joined(f, n)  BY <2>5, WithoutJoins
  <2>8. Without(r, X) = Joined(f, n + 1)
    <3>1. \A k \in 0..Len(r) - 1: f[k] = Bit(r[k + 1], X)  BY <2>1, <2>3, <2>4
    <3> QED  BY <2>1, <3>1, WithoutJoins
  <2>9. \A k \in 0..n: f[k] \in Seq(S)
    <3>1. \A k \in 0..n - 1: f[k] \in Seq(S)  BY <1>1, <2>5, BitIs
    <3>2. f[n] \in Seq(S)  BY <2>6, BitIs
    <3>3. \A k \in 0..n: k \in 0..n - 1 \/ k = n
      <4> HIDE DEF n
      <4> QED  BY <2>3
    <3> QED  BY <3>1, <3>2, <3>3
  <2>10. Joined(f, n) \in Seq(S)
    <3>1. \A k \in 0..n - 1: f[k] \in Seq(S)  BY <2>2, <2>9
    <3> HIDE DEF n
    <3> QED  BY <2>3, <3>1, JoinedIs
  <2>11. Joined(f, n + 1) = Joined(f, n) \o f[n]
    <3> HIDE DEF n
    <3> QED  BY <2>3, <2>9, <2>10, JoinedStep
  <2> QED  BY <2>6, <2>7, <2>8, <2>11 DEF r
<1> QED  BY <1>2, <1>3, <1>4

LEMMA WithoutConcat ==
  ASSUME NEW S, NEW s \in Seq(S), NEW X
  PROVE  \A t \in Seq(S): Without(s \o t, X) = Without(s, X) \o Without(t, X)
<1>4. \A x, y, z \in Seq(S): (x \o y) \o z = x \o (y \o z)  BY ConcatAssociative, SMTT(60)
<1>5. \A r \in Seq(S): \A v \in S: Without(Append(r, v), X) = Without(r, X) \o Bit(v, X)  BY WithoutIs
<1> DEFINE T == {t \in Seq(S): Without(s \o t, X) = Without(s, X) \o Without(t, X)}
<1>1. << >> \in T
  <2>1. << >> \in Seq(S) /\ Without(<< >>, X) = << >> /\ Without(s, X) \in Seq(S)  BY EmptySeq, WithoutIs
  <2>2. s \o << >> = s /\ Without(s, X) \o << >> = Without(s, X)  BY <2>1, ConcatEmptySeq
  <2> QED  BY <2>1, <2>2
<1>2. ASSUME NEW t \in Seq(S) \cap T, NEW u \in S PROVE Append(t, u) \in T
  <2>1. t \in Seq(S) /\ Append(t, u) \in Seq(S) /\ s \o t \in Seq(S)  BY AppendProperties, ConcatProperties
  <2>2. s \o Append(t, u) = Append(s \o t, u)  BY <2>1, ConcatAppend
  <2>3. Without(Append(s \o t, u), X) = Without(s \o t, X) \o Bit(u, X)  BY <1>5, <2>1, Zenon
  <2>4. Without(Append(t, u), X) = Without(t, X) \o Bit(u, X)  BY <1>5, <2>1, Zenon
  <2>5. Without(s \o t, X) = Without(s, X) \o Without(t, X)  BY <1>2
  <2>6. Without(s, X) \in Seq(S) /\ Without(t, X) \in Seq(S) /\ Bit(u, X) \in Seq(S)
    BY <2>1, WithoutIs, BitIs
  <2>7. (Without(s, X) \o Without(t, X)) \o Bit(u, X) = Without(s, X) \o (Without(t, X) \o Bit(u, X))
    BY <1>4, <2>6, SMTT(60)
  <2> QED  BY <2>1, <2>2, <2>3, <2>4, <2>5, <2>7
<1> HIDE DEF T
<1>3. Seq(S) \subseteq T  BY <1>1, <1>2, SeqInduction
<1> QED  BY <1>3 DEF T

Associates(S) == \A x, y, z \in Seq(S): (x \o y) \o z = x \o (y \o z)

LEMMA Reassociate == \A S: Associates(S)
<1> SUFFICES ASSUME NEW S, NEW x \in Seq(S), NEW y \in Seq(S), NEW z \in Seq(S)
             PROVE  (x \o y) \o z = x \o (y \o z)
  BY DEF Associates
<1> QED  BY ConcatAssociative

(* The whole text, or all tokens, become the first one. *)

LEMMA WithoutOne ==
  ASSUME NEW S, NEW u \in S, NEW X
  PROVE  Without(<<u>>, X) = Bit(u, X)
<1>1. \A s \in Seq(S): \A v \in S: Without(Append(s, v), X) = Without(s, X) \o Bit(v, X)  BY WithoutIs
<1>2. << >> \in Seq(S) /\ Append(<< >>, u) = <<u>>  OBVIOUS
<1>3. Without(<< >>, X) = << >>  BY <1>2, WithoutIs
<1>4. Bit(u, X) \in Seq(S)  BY BitIs
<1>5. << >> \o Bit(u, X) = Bit(u, X)  BY <1>4, ConcatEmptySeq
<1> QED  BY <1>1, <1>2, <1>3, <1>5

-----------------------------------------------------------------------------
(* Walks from node to node *)

(* A recursive function that looks at one other place at most: st[x] says  *)
(* where x looks, and those of S do not look any further.                  *)
Walks(D, S, st, v, f) == f = [x \in D |-> IF x \in S THEN v[x] ELSE f[st[x]]]

AnyOf(R) == CHOOSE y: y \in R

LEMMA WalkExists ==
  ASSUME NEW D, NEW S, NEW st, NEW v, \A x \in D \ S: st[x] \in D
  PROVE  \E f: Walks(D, S, st, v, f)
<1> DEFINE Closed(V) == \A x \in V \ S: st[x] \in V
           Reach(x)  == {y \in D: \A V \in SUBSET D: x \in V /\ Closed(V) => y \in V}
           f == [x \in D |-> v[AnyOf(Reach(x) \cap S)]]
           h == [x \in D |-> IF x \in S THEN v[x] ELSE f[st[x]]]
<1>1. ASSUME NEW x \in D, x \in S PROVE Reach(x) \cap S = {x}
  <2>1. Closed({x}) /\ {x} \in SUBSET D  BY <1>1
  <2>2. x \in Reach(x)  OBVIOUS
  <2>3. Reach(x) \subseteq {x}  BY <2>1
  <2> QED  BY <1>1, <2>2, <2>3
<1>2. ASSUME NEW x \in D, x \notin S PROVE Reach(x) \cap S = Reach(st[x]) \cap S
  <2>1. st[x] \in D  BY <1>2
  <2>2. Reach(st[x]) \subseteq Reach(x)  BY <1>2, <2>1
  <2> DEFINE V == {x} \cup Reach(st[x])
  <2>3. st[x] \in Reach(st[x])  BY <2>1
  <2>4. ASSUME NEW y \in Reach(st[x]), y \notin S PROVE st[y] \in Reach(st[x])  BY <2>4
  <2>5. Closed(V) /\ V \in SUBSET D /\ x \in V  BY <2>3, <2>4
  <2>6. Reach(x) \subseteq V  BY <2>5
  <2> QED  BY <1>2, <2>2, <2>6
<1>3. \A x \in D: f[x] = h[x]
  <2> SUFFICES ASSUME NEW x \in D PROVE f[x] = h[x]  OBVIOUS
  <2>1. CASE x \in S
    <3>1. AnyOf({x}) = x  BY DEF AnyOf
    <3> QED  BY <1>1, <2>1, <3>1
  <2>2. CASE x \notin S
    <3>1. f[st[x]] = v[AnyOf(Reach(st[x]) \cap S)]  BY <2>2
    <3> HIDE DEF Reach
    <3> QED  BY <1>2, <2>2, <3>1
  <2> QED  BY <2>1, <2>2
<1>4. f = h
  <2> HIDE DEF Reach
  <2>1. DOMAIN f = D /\ DOMAIN h = D  OBVIOUS
  <2>2. f = [x \in D |-> f[x]] /\ h = [x \in D |-> h[x]]  OBVIOUS
  <2> HIDE DEF f, h
  <2> QED  BY <1>3, <2>2
<1> HIDE DEF f
<1> QED  BY <1>4 DEF Walks

(* A walk that comes nearer to its end with each step ends at a place it   *)
(* cannot have left C for.                                                 *)
LEMMA WalkEnds ==
  ASSUME NEW D, NEW S, NEW st, NEW v, NEW f, Walks(D, S, st, v, f),
         NEW far, \A x \in D: far[x] \in Nat,
         \A x \in D \ S: st[x] \in D /\ far[st[x]] < far[x],
         NEW C \in SUBSET D, \A x \in C \ S: st[x] \in C
  PROVE  \A x \in C: \E y \in C \cap S: f[x] = v[y]
<1> DEFINE N == {n \in Nat: \A x \in C: far[x] < n => \E y \in C \cap S: f[x] = v[y]}
<1>1. 0 \in N  OBVIOUS
<1>2. ASSUME NEW n \in N \cap Nat PROVE n + 1 \in N
  <2> SUFFICES ASSUME NEW x \in C, far[x] < n + 1 PROVE \E y \in C \cap S: f[x] = v[y]
    OBVIOUS
  <2>1. f[x] = IF x \in S THEN v[x] ELSE f[st[x]]  BY DEF Walks
  <2>2. CASE x \in S  BY <2>1, <2>2
  <2>3. CASE x \notin S
    <3>1. st[x] \in C /\ far[st[x]] < n  BY <2>3
    <3>2. \E y \in C \cap S: f[st[x]] = v[y]  BY <1>2, <3>1
    <3> QED  BY <2>1, <2>3, <3>2
  <2> QED  BY <2>2, <2>3
<1> HIDE DEF N
<1>3. Nat \subseteq N  BY <1>1, <1>2, SetInduction
<1>4. \A x \in C: far[x] + 1 \in N /\ far[x] < far[x] + 1  BY <1>3
<1> QED  BY <1>4 DEF N

-----------------------------------------------------------------------------
(* What the operations on the tree's nodes write *)

NodeOf(T) == [name: T, parentheses: Nat, parent: Nat, child: Nat, prev: Nat, next: Nat]

(* h2 is h with other links. *)
Relinked(T, h, h2) ==
  /\ h \in Seq(NodeOf(T)) /\ h2 \in Seq(NodeOf(T)) /\ Len(h2) = Len(h)
  /\ \A x \in 1..Len(h): h2[x].name = h[x].name

LEMMA HeapIs ==
  ASSUME NEW T, NEW h \in Seq(NodeOf(T))
  PROVE  /\ Len(h) \in Nat /\ DOMAIN h = 1..Len(h)
         /\ \A x \in 1..Len(h): /\ h[x] \in NodeOf(T) /\ h[x].name \in T
                                /\ h[x].parent \in Nat /\ h[x].child \in Nat
                                /\ h[x].prev \in Nat /\ h[x].next \in Nat
<1>1. Len(h) \in Nat /\ DOMAIN h = 1..Len(h) /\ \A x \in 1..Len(h): h[x] \in NodeOf(T)
  OBVIOUS
<1>2. \A r \in NodeOf(T): /\ r.name \in T /\ r.parent \in Nat /\ r.child \in Nat
                         /\ r.prev \in Nat /\ r.next \in Nat
  BY DEF NodeOf
<1> HIDE DEF NodeOf
<1> QED  BY <1>1, <1>2

(* One node is written, the others stay. *)
LEMMA NodeWritten ==
  ASSUME NEW T, NEW h \in Seq(NodeOf(T)), NEW x \in 1..Len(h), NEW r \in NodeOf(T), r.name = h[x].name
  PROVE  /\ Relinked(T, h, [h EXCEPT ![x] = r])
         /\ \A y \in 1..Len(h): [h EXCEPT ![x] = r][y] = IF y = x THEN r ELSE h[y]
<1>1. Len(h) \in Nat /\ DOMAIN h = 1..Len(h)  BY HeapIs
<1>2. [h EXCEPT ![x] = r] \in Seq(NodeOf(T)) /\ Len([h EXCEPT ![x] = r]) = Len(h)
  BY <1>1, ExceptSeq
<1>3. \A y \in 1..Len(h): [h EXCEPT ![x] = r][y] = IF y = x THEN r ELSE h[y]  BY <1>1
<1> QED  BY <1>2, <1>3 DEF Relinked

(* One link of a node is written. *)
LEMMA ParentWritten ==
  ASSUME NEW T, NEW r \in NodeOf(T), NEW y \in Nat, NEW q, q = [r EXCEPT !.parent = y]
  PROVE  /\ q \in NodeOf(T) /\ q.name = r.name /\ q.parent = y
         /\ q.child = r.child /\ q.prev = r.prev /\ q.next = r.next
BY DEF NodeOf

LEMMA ChildWritten ==
  ASSUME NEW T, NEW r \in NodeOf(T), NEW y \in Nat, NEW q, q = [r EXCEPT !.child = y]
  PROVE  /\ q \in NodeOf(T) /\ q.name = r.name /\ q.child = y
         /\ q.parent = r.parent /\ q.prev = r.prev /\ q.next = r.next
BY DEF NodeOf

LEMMA PrevWritten ==
  ASSUME NEW T, NEW r \in NodeOf(T), NEW y \in Nat, NEW q, q = [r EXCEPT !.prev = y]
  PROVE  /\ q \in NodeOf(T) /\ q.name = r.name /\ q.prev = y
         /\ q.parent = r.parent /\ q.child = r.child /\ q.next = r.next
BY DEF NodeOf

LEMMA NextWritten ==
  ASSUME NEW T, NEW r \in NodeOf(T), NEW y \in Nat, NEW q, q = [r EXCEPT !.next = y]
  PROVE  /\ q \in NodeOf(T) /\ q.name = r.name /\ q.next = y
         /\ q.parent = r.parent /\ q.child = r.child /\ q.prev = r.prev
BY DEF NodeOf

LEMMA ChildIs ==
  ASSUME NEW T, NEW h \in Seq(NodeOf(T)), NEW p \in 1..Len(h), NEW n \in 1..Len(h), p # n
  PROVE  /\ Relinked(T, h, Child(h, p, n))
         /\ \A x \in 1..Len(h):
              /\ Child(h, p, n)[x].child = IF x = p THEN n ELSE h[x].child
              /\ Child(h, p, n)[x].parent = IF x = n THEN p ELSE h[x].parent
              /\ Child(h, p, n)[x].next = h[x].next /\ Child(h, p, n)[x].prev = h[x].prev
<1> DEFINE a == [h[p] EXCEPT !.child = n]
           h1 == [h EXCEPT ![p] = a]
           b == [h1[n] EXCEPT !.parent = p]
           h2 == [h1 EXCEPT ![n] = b]
<1>1. Child(h, p, n) = h2  BY DEF Child
<1>2. /\ Len(h) \in Nat /\ p \in Nat /\ n \in Nat /\ h[p] \in NodeOf(T) /\ h[n] \in NodeOf(T)
      /\ \A x \in 1..Len(h): h[x] \in NodeOf(T)
  BY HeapIs
<1>3. /\ a \in NodeOf(T) /\ a.name = h[p].name /\ a.child = n /\ a.parent = h[p].parent
      /\ a.prev = h[p].prev /\ a.next = h[p].next
  BY <1>2, ChildWritten
<1> HIDE DEF a
<1>4. Relinked(T, h, h1) /\ \A y \in 1..Len(h): h1[y] = IF y = p THEN a ELSE h[y]
  BY <1>3, NodeWritten
<1> HIDE DEF h1
<1>5. h1[n] = h[n] /\ h1 \in Seq(NodeOf(T)) /\ Len(h1) = Len(h)  BY <1>4 DEF Relinked
<1>6. /\ b \in NodeOf(T) /\ b.name = h[n].name /\ b.child = h[n].child /\ b.parent = p
      /\ b.prev = h[n].prev /\ b.next = h[n].next
  BY <1>2, <1>5, ParentWritten
<1> HIDE DEF b
<1>7. Relinked(T, h1, h2) /\ \A y \in 1..Len(h): h2[y] = IF y = n THEN b ELSE h1[y]
  BY <1>5, <1>6, NodeWritten
<1> HIDE DEF h2
<1>8. Relinked(T, h, h2)  BY <1>4, <1>7 DEF Relinked
<1> QED  BY <1>1, <1>3, <1>4, <1>6, <1>7, <1>8

LEMMA BehindIs ==
  ASSUME NEW T, NEW h \in Seq(NodeOf(T)), NEW p \in 1..Len(h), NEW n \in 1..Len(h), p # n
  PROVE  /\ Relinked(T, h, Behind(h, p, n))
         /\ \A x \in 1..Len(h):
              /\ Behind(h, p, n)[x].next = IF x = p THEN n ELSE h[x].next
              /\ Behind(h, p, n)[x].prev = IF x = n THEN p ELSE h[x].prev
              /\ Behind(h, p, n)[x].child = h[x].child /\ Behind(h, p, n)[x].parent = h[x].parent
<1> DEFINE a == [h[p] EXCEPT !.next = n]
           h1 == [h EXCEPT ![p] = a]
           b == [h1[n] EXCEPT !.prev = p]
           h2 == [h1 EXCEPT ![n] = b]
<1>1. Behind(h, p, n) = h2  BY DEF Behind
<1>2. /\ Len(h) \in Nat /\ p \in Nat /\ n \in Nat /\ h[p] \in NodeOf(T) /\ h[n] \in NodeOf(T)
      /\ \A x \in 1..Len(h): h[x] \in NodeOf(T)
  BY HeapIs
<1>3. /\ a \in NodeOf(T) /\ a.name = h[p].name /\ a.next = n /\ a.parent = h[p].parent
      /\ a.prev = h[p].prev /\ a.child = h[p].child
  BY <1>2, NextWritten
<1> HIDE DEF a
<1>4. Relinked(T, h, h1) /\ \A y \in 1..Len(h): h1[y] = IF y = p THEN a ELSE h[y]
  BY <1>3, NodeWritten
<1> HIDE DEF h1
<1>5. h1[n] = h[n] /\ h1 \in Seq(NodeOf(T)) /\ Len(h1) = Len(h)  BY <1>4 DEF Relinked
<1>6. /\ b \in NodeOf(T) /\ b.name = h[n].name /\ b.child = h[n].child /\ b.prev = p
      /\ b.parent = h[n].parent /\ b.next = h[n].next
  BY <1>2, <1>5, PrevWritten
<1> HIDE DEF b
<1>7. Relinked(T, h1, h2) /\ \A y \in 1..Len(h): h2[y] = IF y = n THEN b ELSE h1[y]
  BY <1>5, <1>6, NodeWritten
<1> HIDE DEF h2
<1>8. Relinked(T, h, h2)  BY <1>4, <1>7 DEF Relinked
<1> QED  BY <1>1, <1>3, <1>4, <1>6, <1>7, <1>8

LEMMA InsertIs ==
  ASSUME NEW T, NEW h \in Seq(NodeOf(T)), NEW old \in 1..Len(h), NEW new \in 1..Len(h), old # new,
         h[old].prev # 0 => h[old].prev \in 1..Len(h) \ {old, new},
         h[new].prev = 0
  PROVE  /\ Relinked(T, h, Insert(h, old, new))
         /\ \A x \in 1..Len(h):
              /\ Insert(h, old, new)[x].child = IF x = new THEN old ELSE h[x].child
              /\ Insert(h, old, new)[x].parent = IF x = old THEN new ELSE h[x].parent
              /\ Insert(h, old, new)[x].prev = IF x = old THEN 0
                                               ELSE IF x = new THEN h[old].prev ELSE h[x].prev
              /\ Insert(h, old, new)[x].next = IF x = h[old].prev THEN new ELSE h[x].next
<1> DEFINE p == h[old].prev
           a == [h[new] EXCEPT !.prev = p]
           h1 == [h EXCEPT ![new] = a]
           b == [h1[p] EXCEPT !.next = new]
           h2 == [h1 EXCEPT ![p] = b]
           c == [h2[old] EXCEPT !.prev = 0]
           h3 == [h2 EXCEPT ![old] = c]
<1>1. Insert(h, old, new) = Child(IF p = 0 THEN h ELSE h3, new, old)  BY DEF Insert
<1>2. /\ Len(h) \in Nat /\ old \in Nat /\ new \in Nat /\ h[old] \in NodeOf(T) /\ h[new] \in NodeOf(T)
      /\ \A x \in 1..Len(h): h[x] \in NodeOf(T) /\ x # 0
  BY HeapIs
<1>3. CASE p = 0
  <2> HIDE DEF h3
  <2>1. Insert(h, old, new) = Child(h, new, old)  BY <1>1, <1>3
  <2> QED  BY <1>2, <1>3, <2>1, ChildIs
<1>4. CASE p # 0
  <2>1. p \in 1..Len(h) /\ p # old /\ p # new /\ p \in Nat  BY <1>2, <1>4
  <2> DEFINE P == p
  <2>2. P = p OBVIOUS
  <2>3. /\ a \in NodeOf(T) /\ a.name = h[new].name /\ a.prev = p /\ a.parent = h[new].parent
        /\ a.child = h[new].child /\ a.next = h[new].next
    <3> HIDE DEF p
    <3> QED  BY <1>2, <2>1, PrevWritten
  <2> HIDE DEF a, p
  <2>4. Relinked(T, h, h1) /\ \A y \in 1..Len(h): h1[y] = IF y = new THEN a ELSE h[y]
    BY <2>3, NodeWritten
  <2> HIDE DEF h1
  <2>5. h1[p] = h[p] /\ h1 \in Seq(NodeOf(T)) /\ Len(h1) = Len(h) /\ h[p] \in NodeOf(T)
    BY <1>2, <2>1, <2>4 DEF Relinked
  <2>6. /\ b \in NodeOf(T) /\ b.name = h[p].name /\ b.prev = h[p].prev /\ b.parent = h[p].parent
        /\ b.child = h[p].child /\ b.next = new
    BY <1>2, <2>5, NextWritten
  <2> HIDE DEF b
  <2>7. Relinked(T, h1, h2) /\ \A y \in 1..Len(h): h2[y] = IF y = p THEN b ELSE h1[y]
    BY <2>1, <2>5, <2>6, NodeWritten
  <2> HIDE DEF h2
  <2>8. h2[old] = h[old] /\ h2 \in Seq(NodeOf(T)) /\ Len(h2) = Len(h)
    BY <2>1, <2>4, <2>5, <2>7 DEF Relinked
  <2>9. /\ c \in NodeOf(T) /\ c.name = h[old].name /\ c.prev = 0 /\ c.parent = h[old].parent
        /\ c.child = h[old].child /\ c.next = h[old].next
    <3> DEFINE q == h2[old]
    <3>1. q \in NodeOf(T) /\ q = h[old] /\ 0 \in Nat /\ c = [q EXCEPT !.prev = 0]  BY <1>2, <2>8
    <3> HIDE DEF q, c
    <3> QED  BY <3>1, PrevWritten
  <2> HIDE DEF c
  <2>10. Relinked(T, h2, h3) /\ \A y \in 1..Len(h): h3[y] = IF y = old THEN c ELSE h2[y]
    BY <2>8, <2>9, NodeWritten
  <2> HIDE DEF h3
  <2>11. Relinked(T, h, h3)  BY <2>4, <2>7, <2>10 DEF Relinked
  <2>12. h3 \in Seq(NodeOf(T)) /\ Len(h3) = Len(h)  BY <2>11 DEF Relinked
  <2>13. /\ Relinked(T, h3, Child(h3, new, old))
         /\ \A x \in 1..Len(h):
              /\ Child(h3, new, old)[x].child = IF x = new THEN old ELSE h3[x].child
              /\ Child(h3, new, old)[x].parent = IF x = old THEN new ELSE h3[x].parent
              /\ Child(h3, new, old)[x].next = h3[x].next /\ Child(h3, new, old)[x].prev = h3[x].prev
    BY <2>12, ChildIs
  <2>14. Insert(h, old, new) = Child(h3, new, old)  BY <1>1, <1>4
  <2>15. Relinked(T, h, Insert(h, old, new))  BY <2>11, <2>13, <2>14 DEF Relinked
  <2>16. \A x \in 1..Len(h):
           /\ h3[x].child = h[x].child /\ h3[x].parent = h[x].parent
           /\ h3[x].prev = IF x = old THEN 0 ELSE IF x = new THEN p ELSE h[x].prev
           /\ h3[x].next = IF x = p THEN new ELSE h[x].next
    BY <2>1, <2>3, <2>4, <2>6, <2>7, <2>9, <2>10
  <2> QED  BY <2>13, <2>14, <2>15, <2>16 DEF p
<1> QED  BY <1>3, <1>4

(* An operator comes to stand above a node. *)
Inserted(T, h, h2, old, new) ==
  /\ Relinked(T, h, h2)
  /\ \A x \in 1..Len(h):
       /\ h2[x].child = IF x = new THEN old ELSE h[x].child
       /\ h2[x].parent = IF x = old THEN new ELSE h[x].parent
       /\ h2[x].prev = IF x = old THEN 0 ELSE IF x = new THEN h[old].prev ELSE h[x].prev
       /\ h2[x].next = IF x = h[old].prev THEN new ELSE h[x].next

LEMMA InsertedIs ==
  ASSUME NEW T, NEW h \in Seq(NodeOf(T)), NEW old \in 1..Len(h), NEW new \in 1..Len(h), old # new,
         h[old].prev # 0 => h[old].prev \in 1..Len(h) \ {old, new},
         h[new].prev = 0
  PROVE  Inserted(T, h, Insert(h, old, new), old, new)
BY InsertIs DEF Inserted

(* Splice first takes the child of new away from it. *)
Orphan(h, new) == [h EXCEPT ![new].child = 0, ![h[new].child].parent = 0]

LEMMA OrphanIs ==
  ASSUME NEW T, NEW h \in Seq(NodeOf(T)), NEW new \in 1..Len(h), h[new].child \in 1..Len(h) \ {new}
  PROVE  /\ Relinked(T, h, Orphan(h, new))
         /\ \A x \in 1..Len(h):
              /\ Orphan(h, new)[x].child = IF x = new THEN 0 ELSE h[x].child
              /\ Orphan(h, new)[x].parent = IF x = h[new].child THEN 0 ELSE h[x].parent
              /\ Orphan(h, new)[x].next = h[x].next /\ Orphan(h, new)[x].prev = h[x].prev
<1> DEFINE n == h[new].child
           a == [h[new] EXCEPT !.child = 0]
           h1 == [h EXCEPT ![new] = a]
           b == [h1[n] EXCEPT !.parent = 0]
           h2 == [h1 EXCEPT ![n] = b]
<1>1. Orphan(h, new) = h2  BY DEF Orphan
<1>2. /\ Len(h) \in Nat /\ n \in 1..Len(h) /\ n # new /\ h[n] \in NodeOf(T) /\ h[new] \in NodeOf(T)
      /\ 0 \in Nat
  BY HeapIs
<1>3. /\ a \in NodeOf(T) /\ a.name = h[new].name /\ a.child = 0 /\ a.parent = h[new].parent
      /\ a.prev = h[new].prev /\ a.next = h[new].next
  BY <1>2, ChildWritten, SMTT(60)
<1> HIDE DEF a, n
<1>4. Relinked(T, h, h1) /\ \A y \in 1..Len(h): h1[y] = IF y = new THEN a ELSE h[y]
  BY <1>3, NodeWritten
<1> HIDE DEF h1
<1>5. h1[n] = h[n] /\ h1 \in Seq(NodeOf(T)) /\ Len(h1) = Len(h)  BY <1>2, <1>4 DEF Relinked
<1>6. /\ b \in NodeOf(T) /\ b.name = h[n].name /\ b.child = h[n].child /\ b.parent = 0
      /\ b.prev = h[n].prev /\ b.next = h[n].next
  <2> DEFINE q == h1[n]
  <2>1. q \in NodeOf(T) /\ q = h[n] /\ b = [q EXCEPT !.parent = 0]  BY <1>2, <1>5
  <2> HIDE DEF q, b
  <2> QED  BY <1>2, <2>1, ParentWritten, SMTT(60)
<1> HIDE DEF b
<1>7. Relinked(T, h1, h2) /\ \A y \in 1..Len(h): h2[y] = IF y = n THEN b ELSE h1[y]
  BY <1>2, <1>5, <1>6, NodeWritten
<1> HIDE DEF h2
<1>8. Relinked(T, h, h2)  BY <1>4, <1>7 DEF Relinked
<1> QED  BY <1>1, <1>2, <1>3, <1>4, <1>6, <1>7, <1>8 DEF n

-----------------------------------------------------------------------------
Word(h, x) == Operands(<<h[x].name>>)

LEMMA WordIs ==
  ASSUME NEW T, NEW h \in Seq(NodeOf(T)), NEW x \in 1..Len(h)
  PROVE  Word(h, x) \in Seq(T)
<1> DEFINE u == h[x].name
<1>1. u \in T  BY HeapIs
<1> HIDE DEF u
<1>2. Operands(<<u>>) = Bit(u, DOMAIN Precedence \cup {"(", ")", ","})  BY WithoutOne, Zenon DEF Operands
<1>3. Operands(<<u>>) \in Seq(T)  BY <1>1, <1>2, BitIs, Zenon
<1> QED  BY <1>3 DEF Word, u

(* The nodes are trees: G.home is each node's root, G.rank grows towards   *)
(* it; G.text is what is to be read at a node and behind it; and G.edge    *)
(* are the nodes behind whose text there is nothing more in their tree.    *)
Shaped(T, h, G) ==
  /\ h \in Seq(NodeOf(T)) /\ G.top \in Nat
  /\ \A x \in 1..Len(h): G.home[x] \in 1..Len(h) /\ G.rank[x] \in 0..G.top
  /\ \A x \in 0..Len(h): G.text[x] \in Seq(T)
ChildrenLinked(h, G) ==
  \A x \in 1..Len(h): h[x].child # 0 =>
    LET c == h[x].child IN
    /\ c \in 1..Len(h) /\ h[c].parent = x /\ h[c].prev = 0
    /\ G.home[c] = G.home[x] /\ G.rank[c] < G.rank[x]
    /\ c \in G.edge <=> x \in G.edge /\ h[x].next = 0
NextLinked(h, G) ==
  \A x \in 1..Len(h): h[x].next # 0 =>
    LET n == h[x].next IN
    /\ n \in 1..Len(h) /\ h[n].prev = x /\ h[n].parent = 0
    /\ G.home[n] = G.home[x] /\ G.rank[n] < G.rank[x]
    /\ n \in G.edge <=> x \in G.edge
BackLinked(h) ==
  \A x \in 1..Len(h):
    /\ h[x].parent # 0 => h[x].parent \in 1..Len(h) /\ h[h[x].parent].child = x
    /\ h[x].prev # 0 => h[x].prev \in 1..Len(h) /\ h[h[x].prev].next = x
IsRoot(h, x) == h[x].parent = 0 /\ h[x].prev = 0
Rooted(h, G) ==
  \A x \in 1..Len(h): /\ IsRoot(h, x) => G.home[x] = x /\ x \in G.edge
                      /\ IsRoot(h, G.home[x])
ReadThrough(h, G) ==
  /\ G.text[0] = << >>
  /\ \A x \in 1..Len(h): G.text[x] = (Word(h, x) \o G.text[h[x].child]) \o G.text[h[x].next]
Forest(T, h, G) ==
  /\ Shaped(T, h, G) /\ ChildrenLinked(h, G) /\ NextLinked(h, G)
  /\ BackLinked(h) /\ Rooted(h, G) /\ ReadThrough(h, G)

UpClosed(h, V) ==
  \A x \in V: /\ h[x].parent # 0 => h[x].parent \in V
              /\ h[x].prev # 0 => h[x].prev \in V

LEMMA UpIs ==
  ASSUME NEW T, NEW h, NEW G, Forest(T, h, G), NEW x \in 1..Len(h)
  PROVE  /\ h[x].parent # 0 => /\ h[x].parent \in 1..Len(h) /\ h[x].prev = 0
                               /\ G.rank[x] < G.rank[h[x].parent] /\ G.home[h[x].parent] = G.home[x]
                               /\ x \in G.edge => h[x].parent \in G.edge /\ h[h[x].parent].next = 0
                               /\ h[h[x].parent].child = x
         /\ h[x].prev # 0 => /\ h[x].prev \in 1..Len(h) /\ h[x].parent = 0
                             /\ G.rank[x] < G.rank[h[x].prev] /\ G.home[h[x].prev] = G.home[x]
                             /\ x \in G.edge <=> h[x].prev \in G.edge
                             /\ h[h[x].prev].next = x
<1>1. /\ h[x].parent # 0 => h[x].parent \in 1..Len(h) /\ h[h[x].parent].child = x
      /\ h[x].prev # 0 => h[x].prev \in 1..Len(h) /\ h[h[x].prev].next = x
  BY DEF Forest, BackLinked
<1>2. x # 0  OBVIOUS
<1> QED  BY <1>1, <1>2, SMTT(60) DEF Forest, ChildrenLinked, NextLinked

(* The way from a node up to its root. *)
Path(h, G, l, P) ==
  /\ P \in SUBSET (1..Len(h))
  /\ l \in P /\ G.home[l] \in P /\ UpClosed(h, P)
  /\ \A x \in P \ {l}: \/ h[x].child # 0 /\ h[x].child \in P
                       \/ h[x].next # 0 /\ h[x].next \in P
  /\ \A x \in P: /\ G.home[x] = G.home[l] /\ G.rank[l] <= G.rank[x]
                 /\ l \in G.edge => x \in G.edge

LEMMA PathIs ==
  ASSUME NEW T, NEW h, NEW G, Forest(T, h, G), NEW l \in 1..Len(h)
  PROVE  \E P: Path(h, G, l, P)
<1> DEFINE D == 1..Len(h)
           P == {x \in D: \A V \in SUBSET D: l \in V /\ UpClosed(h, V) => x \in V}
<1>0. /\ h \in Seq(NodeOf(T)) /\ Len(h) \in Nat /\ G.top \in Nat
      /\ \A x \in D: G.rank[x] \in 0..G.top /\ G.home[x] \in D
  BY HeapIs DEF Forest, Shaped
<1>1. l \in P /\ P \in SUBSET D  OBVIOUS
<1>2. UpClosed(h, P)
  <2> SUFFICES ASSUME NEW x \in P
               PROVE  /\ h[x].parent # 0 => h[x].parent \in P
                      /\ h[x].prev # 0 => h[x].prev \in P
    BY DEF UpClosed
  <2>1. /\ h[x].parent # 0 => h[x].parent \in D
        /\ h[x].prev # 0 => h[x].prev \in D
    BY DEF Forest, BackLinked
  <2> QED  BY <2>1 DEF UpClosed
<1>3. ASSUME NEW x \in P \ {l}
      PROVE  \/ h[x].child # 0 /\ h[x].child \in P
             \/ h[x].next # 0 /\ h[x].next \in P
  <2> SUFFICES ASSUME ~(h[x].child # 0 /\ h[x].child \in P), ~(h[x].next # 0 /\ h[x].next \in P)
               PROVE  FALSE
    OBVIOUS
  <2> DEFINE V == P \ {x}
  <2>1. l \in V /\ V \in SUBSET D  BY <1>1
  <2>2. ASSUME NEW y \in V
        PROVE  /\ h[y].parent # 0 => h[y].parent \in V
               /\ h[y].prev # 0 => h[y].prev \in V
    <3>1. /\ h[y].parent # 0 => h[y].parent \in P /\ h[h[y].parent].child = y
          /\ h[y].prev # 0 => h[y].prev \in P /\ h[h[y].prev].next = y
          /\ y # 0 /\ y \in P
      <4> HIDE DEF P
      <4> QED  BY <1>1, <1>2 DEF UpClosed, Forest, BackLinked
    <3> QED  BY <3>1
  <2>3. UpClosed(h, V)
    <3> HIDE DEF V
    <3> QED  BY <2>2 DEF UpClosed
  <2>4. x \in V
    <3> HIDE DEF V
    <3> QED  BY <2>1, <2>3
  <2> QED  BY <2>4
<1>4. ASSUME NEW x \in P
      PROVE  G.home[x] = G.home[l] /\ G.rank[l] <= G.rank[x] /\ (l \in G.edge => x \in G.edge)
  <2> DEFINE V == {y \in D: G.home[y] = G.home[l] /\ G.rank[l] <= G.rank[y] /\ (l \in G.edge => y \in G.edge)}
  <2>1. l \in V /\ V \in SUBSET D  BY <1>0
  <2>2. ASSUME NEW y \in V
        PROVE  /\ h[y].parent # 0 => h[y].parent \in V
               /\ h[y].prev # 0 => h[y].prev \in V
    <3>1. y \in D /\ G.home[y] = G.home[l] /\ G.rank[l] <= G.rank[y] /\ (l \in G.edge => y \in G.edge)
      OBVIOUS
    <3> HIDE DEF V
    <3>2. ASSUME NEW z \in D, G.rank[y] < G.rank[z], G.home[z] = G.home[y], y \in G.edge => z \in G.edge
          PROVE  z \in V
      BY <1>0, <3>1, <3>2, SMTT(60) DEF V
    <3>3. h[y].parent # 0 => h[y].parent \in V  BY <3>1, <3>2, UpIs
    <3>4. h[y].prev # 0 => h[y].prev \in V  BY <3>1, <3>2, UpIs
    <3> QED  BY <3>3, <3>4
  <2>3. UpClosed(h, V)
    <3> HIDE DEF V
    <3> QED  BY <2>2 DEF UpClosed
  <2>4. x \in V
    <3> HIDE DEF V
    <3> QED  BY <2>1, <2>3
  <2> QED  BY <2>4
<1> HIDE DEF P
<1>5. G.home[l] \in P
  <2> DEFINE N == {G.top - G.rank[y]: y \in P}
  <2>1. N \in SUBSET Nat /\ N # {}  BY <1>0, <1>1
  <2>2. PICK n \in N: \A m \in N: n <= m  BY <2>1, LeastNat
  <2>3. PICK x \in P: n = G.top - G.rank[x]  BY <2>2
  <2>4. \A y \in P: G.rank[y] <= G.rank[x]
    <3> SUFFICES ASSUME NEW y \in P PROVE G.rank[y] <= G.rank[x]  OBVIOUS
    <3>1. G.top - G.rank[y] \in N  OBVIOUS
    <3>2. n <= G.top - G.rank[y]  BY <2>2, <3>1
    <3> QED  BY <1>0, <1>1, <2>3, <3>2
  <2>5. x \in D  BY <1>1
  <2>6. h[x].parent = 0
    <3> SUFFICES ASSUME h[x].parent # 0 PROVE FALSE  OBVIOUS
    <3>1. h[x].parent \in P  BY <1>2 DEF UpClosed
    <3>2. G.rank[x] < G.rank[h[x].parent] /\ h[x].parent \in D  BY <2>5, UpIs
    <3> QED  BY <1>0, <2>4, <2>5, <3>1, <3>2
  <2>7. h[x].prev = 0
    <3> SUFFICES ASSUME h[x].prev # 0 PROVE FALSE  OBVIOUS
    <3>1. h[x].prev \in P  BY <1>2 DEF UpClosed
    <3>2. G.rank[x] < G.rank[h[x].prev] /\ h[x].prev \in D  BY <2>5, UpIs
    <3> QED  BY <1>0, <2>4, <2>5, <3>1, <3>2
  <2>8. G.home[x] = x  BY <2>5, <2>6, <2>7 DEF Forest, Rooted, IsRoot
  <2> QED  BY <1>4, <2>8
<1>6. Path(h, G, l, P)
  <2> QED  BY <1>1, <1>2, <1>3, <1>4, <1>5 DEF Path
<1> QED  BY <1>6

-----------------------------------------------------------------------------
(* A tree comes to stand below or behind the last node of another one. *)

Linked(T, h, h2, l, r, below) ==
  /\ Relinked(T, h, h2)
  /\ \A x \in 1..Len(h):
       /\ h2[x].child = IF below /\ x = l THEN r ELSE h[x].child
       /\ h2[x].next = IF ~below /\ x = l THEN r ELSE h[x].next
       /\ h2[x].parent = IF below /\ x = r THEN l ELSE h[x].parent
       /\ h2[x].prev = IF ~below /\ x = r THEN l ELSE h[x].prev

LEMMA LinkIs ==
  ASSUME NEW T, NEW h \in Seq(NodeOf(T)), NEW l \in 1..Len(h), NEW r \in 1..Len(h), l # r
  PROVE  Linked(T, h, Child(h, l, r), l, r, TRUE) /\ Linked(T, h, Behind(h, l, r), l, r, FALSE)
<1> DEFINE a == Child(h, l, r)
           b == Behind(h, l, r)
<1>1. /\ Relinked(T, h, a)
      /\ \A x \in 1..Len(h):
           /\ a[x].child = IF x = l THEN r ELSE h[x].child
           /\ a[x].parent = IF x = r THEN l ELSE h[x].parent
           /\ a[x].next = h[x].next /\ a[x].prev = h[x].prev
  BY ChildIs
<1>2. /\ Relinked(T, h, b)
      /\ \A x \in 1..Len(h):
           /\ b[x].next = IF x = l THEN r ELSE h[x].next
           /\ b[x].prev = IF x = r THEN l ELSE h[x].prev
           /\ b[x].child = h[x].child /\ b[x].parent = h[x].parent
  BY BehindIs
<1> HIDE DEF a, b
<1>3. Linked(T, h, a, l, r, TRUE)  BY <1>1 DEF Linked
<1>4. Linked(T, h, b, l, r, FALSE)  BY <1>2 DEF Linked
<1> QED  BY <1>3, <1>4 DEF a, b

(* The trees whose roots are not in K stay as they are. *)
Elsewhere(h, G, h2, G2, K) ==
  \A x \in 1..Len(h): G.home[x] \notin K =>
    /\ h2[x].child = h[x].child /\ G2.home[x] = G.home[x] /\ G2.text[x] = G.text[x]
    /\ x \in G2.edge <=> x \in G.edge

Attached(T, h, G, h2, G2, l, r) ==
  /\ Forest(T, h2, G2)
  /\ Elsewhere(h, G, h2, G2, {G.home[l], r})
  /\ G2.home[l] = G.home[l] /\ G2.home[r] = G.home[l] /\ r \in G2.edge /\ l \in G2.edge
  /\ G2.text[G.home[l]] = G.text[G.home[l]] \o G.text[r]

LEMMA Attach ==
  ASSUME NEW T, NEW h, NEW G, Forest(T, h, G), NEW h2, NEW below \in BOOLEAN,
         NEW l \in 1..Len(h), NEW r \in 1..Len(h), Linked(T, h, h2, l, r, below),
         l \in G.edge, h[l].next = 0, below => h[l].child = 0,
         IsRoot(h, r), G.home[l] # r
  PROVE  \E G2: Attached(T, h, G, h2, G2, l, r)
<1> DEFINE D == 1..Len(h)
<1>1. PICK P \in SUBSET D:
        /\ l \in P /\ G.home[l] \in P /\ UpClosed(h, P)
        /\ \A x \in P \ {l}: \/ h[x].child # 0 /\ h[x].child \in P
                             \/ h[x].next # 0 /\ h[x].next \in P
        /\ \A x \in P: G.home[x] = G.home[l] /\ G.rank[l] <= G.rank[x] /\ x \in G.edge
  <2>1. PICK P: Path(h, G, l, P)  BY PathIs
  <2>2. /\ P \in SUBSET D /\ l \in P /\ G.home[l] \in P /\ UpClosed(h, P)
        /\ \A x \in P \ {l}: \/ h[x].child # 0 /\ h[x].child \in P
                             \/ h[x].next # 0 /\ h[x].next \in P
        /\ \A x \in P: G.home[x] = G.home[l] /\ G.rank[l] <= G.rank[x] /\ x \in G.edge
    BY <2>1 DEF Path
  <2> QED  BY <2>2, Zenon
<1> DEFINE home == [x \in D |-> IF G.home[x] = r THEN G.home[l] ELSE G.home[x]]
           rank == [x \in D |-> IF G.home[x] = G.home[l] THEN G.rank[x] + (G.top + 1) ELSE G.rank[x]]
           top  == G.top + G.top + 1
           text2 == [x \in 0..Len(h) |-> IF x \in P THEN G.text[x] \o G.text[r] ELSE G.text[x]]
           edge == {x \in D \cap G.edge: G.home[x] = G.home[l] => x \in P}
           G2 == [home |-> home, rank |-> rank, top |-> top, text |-> text2, edge |-> edge]
<1>2. G2.home = home /\ G2.rank = rank /\ G2.top = top /\ G2.text = text2 /\ G2.edge = edge
  OBVIOUS
<1> HIDE DEF G2
<1>3. /\ h \in Seq(NodeOf(T)) /\ h2 \in Seq(NodeOf(T)) /\ Len(h2) = Len(h) /\ Len(h) \in Nat /\ G.top \in Nat
      /\ \A x \in D: G.home[x] \in D /\ G.rank[x] \in 0..G.top /\ x # 0 /\ x \in 0..Len(h)
      /\ \A x \in 0..Len(h): G.text[x] \in Seq(T)
  BY HeapIs DEF Forest, Shaped, Linked, Relinked
<1>4. /\ G.home[r] = r /\ r \in G.edge /\ h[r].parent = 0 /\ h[r].prev = 0 /\ r \notin P /\ r # l
  BY <1>1 DEF Forest, Rooted, IsRoot
<1>5. /\ \A x \in D: home[x] = IF G.home[x] = r THEN G.home[l] ELSE G.home[x]
      /\ \A x \in D: rank[x] = IF G.home[x] = G.home[l] THEN G.rank[x] + (G.top + 1) ELSE G.rank[x]
      /\ \A x \in 0..Len(h): text2[x] = IF x \in P THEN G.text[x] \o G.text[r] ELSE G.text[x]
      /\ \A x \in D: x \in edge <=> x \in G.edge /\ (G.home[x] = G.home[l] => x \in P)
  OBVIOUS
<1>19. \A x \in D: /\ G.home[x] = G.home[l] => rank[x] = G.rank[x] + (G.top + 1)
                   /\ G.home[x] # G.home[l] => rank[x] = G.rank[x]
  OBVIOUS
<1>20. \A x \in 0..Len(h): text2[x] = IF x \in P THEN G.text[x] \o G.text[r] ELSE G.text[x]
  OBVIOUS
<1> HIDE DEF home, rank, text2, edge
<1>6. \A x \in D: /\ h2[x].child = IF below /\ x = l THEN r ELSE h[x].child
                  /\ h2[x].next = IF ~below /\ x = l THEN r ELSE h[x].next
                  /\ h2[x].parent = IF below /\ x = r THEN l ELSE h[x].parent
                  /\ h2[x].prev = IF ~below /\ x = r THEN l ELSE h[x].prev
                  /\ h2[x].name = h[x].name
  BY DEF Linked, Relinked
<1>7. Shaped(T, h2, G2)
  <2>1. ASSUME NEW x \in D PROVE home[x] \in D /\ rank[x] \in 0..top
    <3>1. home[x] \in D  BY <1>3, <1>5
    <3>2. G.rank[x] \in 0..G.top  BY <1>3
    <3>3. rank[x] = G.rank[x] + (G.top + 1) \/ rank[x] = G.rank[x]  BY <1>19
    <3> QED  BY <1>3, <3>1, <3>2, <3>3, SMTT(60)
  <2>2. ASSUME NEW x \in 0..Len(h) PROVE text2[x] \in Seq(T)
    <3>1. G.text[r] \in Seq(T) /\ G.text[x] \in Seq(T)  BY <1>3
    <3>2. G.text[x] \o G.text[r] \in Seq(T)  BY <3>1, ConcatProperties
    <3> QED  BY <1>20, <3>1, <3>2
  <2>3. top \in Nat  BY <1>3
  <2> HIDE DEF top
  <2> QED  BY <1>2, <1>3, <2>1, <2>2, <2>3 DEF Shaped
<1>8. ASSUME NEW x \in D, h[x].child # 0
      PROVE  LET c == h[x].child IN
             /\ c \in D /\ h[c].parent = x /\ h[c].prev = 0 /\ c # r
             /\ G.home[c] = G.home[x] /\ G.rank[c] < G.rank[x]
             /\ c \in G.edge <=> x \in G.edge /\ h[x].next = 0
             /\ c \in P => x \in P /\ x # l /\ h[x].next = 0
  <2> DEFINE c == h[x].child
  <2>1. /\ c \in D /\ h[c].parent = x /\ h[c].prev = 0
        /\ G.home[c] = G.home[x] /\ G.rank[c] < G.rank[x]
        /\ c \in G.edge <=> x \in G.edge /\ h[x].next = 0
    BY <1>8 DEF Forest, ChildrenLinked
  <2> HIDE DEF c
  <2>2. c # r  BY <1>3, <1>4, <2>1
  <2>3. c \in P => x \in P /\ c \in G.edge  BY <1>1, <1>3, <2>1 DEF UpClosed
  <2>4. c \in P => x # l  BY <1>1, <1>3, <2>1
  <2> QED  BY <2>1, <2>2, <2>3, <2>4 DEF c
<1>9. ASSUME NEW x \in D, h[x].next # 0
      PROVE  LET n == h[x].next IN
             /\ n \in D /\ h[n].prev = x /\ h[n].parent = 0 /\ n # r
             /\ G.home[n] = G.home[x] /\ G.rank[n] < G.rank[x]
             /\ n \in G.edge <=> x \in G.edge
             /\ n \in P => x \in P
  <2> DEFINE n == h[x].next
  <2>1. /\ n \in D /\ h[n].prev = x /\ h[n].parent = 0
        /\ G.home[n] = G.home[x] /\ G.rank[n] < G.rank[x]
        /\ n \in G.edge <=> x \in G.edge
    BY <1>9 DEF Forest, NextLinked
  <2> HIDE DEF n
  <2>2. n # r  BY <1>3, <1>4, <2>1
  <2>3. n \in P => x \in P  BY <1>1, <1>3, <2>1 DEF UpClosed
  <2> QED  BY <2>1, <2>2, <2>3 DEF n
<1>10. ASSUME NEW x \in P, x # l
       PROVE  \/ h[x].child # 0 /\ h[x].child \in P /\ h[x].next = 0
              \/ h[x].next # 0 /\ h[x].next \in P /\ (h[x].child # 0 => h[x].child \notin P)
  BY <1>1, <1>8, <1>10
<1>11. ChildrenLinked(h2, G2)
  <2> SUFFICES ASSUME NEW x \in D, h2[x].child # 0
               PROVE  LET c == h2[x].child IN
                      /\ c \in D /\ h2[c].parent = x /\ h2[c].prev = 0
                      /\ home[c] = home[x] /\ rank[c] < rank[x]
                      /\ c \in edge <=> x \in edge /\ h2[x].next = 0
    BY <1>2, <1>3 DEF ChildrenLinked
  <2>1. CASE below /\ x = l
    <3>1. h2[x].child = r  BY <1>6, <2>1
    <3>2. h2[r].parent = x /\ h2[r].prev = 0  BY <1>4, <1>6, <2>1
    <3>3. home[r] = G.home[l] /\ home[x] = G.home[l]  BY <1>4, <1>5, <2>1
    <3>4. rank[r] < rank[x]
      <4>1. rank[r] = G.rank[r] /\ rank[x] = G.rank[x] + (G.top + 1)  BY <1>4, <1>19, <2>1
      <4>2. G.rank[r] \in 0..G.top /\ G.rank[x] \in 0..G.top  BY <1>3
      <4> QED  BY <1>3, <4>1, <4>2
    <3>5. r \in edge /\ x \in edge /\ h2[x].next = 0  BY <1>1, <1>4, <1>5, <1>6, <2>1
    <3> QED  BY <3>1, <3>2, <3>3, <3>4, <3>5
  <2>2. CASE ~(below /\ x = l)
    <3> DEFINE c == h[x].child
    <3>1. h2[x].child = c /\ c # 0  BY <1>6, <2>2
    <3>2. /\ c \in D /\ h[c].parent = x /\ h[c].prev = 0 /\ c # r
          /\ G.home[c] = G.home[x] /\ G.rank[c] < G.rank[x]
          /\ c \in G.edge <=> x \in G.edge /\ h[x].next = 0
          /\ c \in P => x \in P /\ x # l /\ h[x].next = 0
      BY <1>8, <3>1
    <3>6. x \in P /\ x # l => \/ c \in P /\ h[x].next = 0
                              \/ h[x].next # 0 /\ c \notin P
      BY <1>10, <3>1
    <3> HIDE DEF c
    <3>3. h2[c].parent = x /\ h2[c].prev = 0  BY <1>6, <3>2
    <3>4. home[c] = home[x] /\ rank[c] < rank[x]
      <4>1. home[c] = home[x]  BY <1>5, <3>2
      <4>2. G.rank[c] \in 0..G.top /\ G.rank[x] \in 0..G.top  BY <1>3, <3>2
      <4>3. \/ rank[c] = G.rank[c] + (G.top + 1) /\ rank[x] = G.rank[x] + (G.top + 1)
            \/ rank[c] = G.rank[c] /\ rank[x] = G.rank[x]
        BY <1>19, <3>2
      <4> QED  BY <1>3, <3>2, <4>1, <4>2, <4>3, SMTT(60)
    <3>5. CASE x = l
      <4>1. h2[x].next = r /\ r # 0  BY <1>3, <1>6, <2>2, <3>5
      <4>2. c \notin edge  BY <1>5, <3>2, <3>5
      <4> QED  BY <3>1, <3>2, <3>3, <3>4, <4>1, <4>2
    <3>7. CASE x # l
      <4>1. h2[x].next = h[x].next  BY <1>6, <3>7
      <4>2. c \in edge <=> x \in edge /\ h[x].next = 0
        <5>1. CASE G.home[x] = G.home[l]
          <6>1. (c \in edge <=> c \in G.edge /\ c \in P) /\ (x \in edge <=> x \in G.edge /\ x \in P)
            BY <1>5, <3>2, <5>1
          <6> QED  BY <1>1, <3>2, <3>6, <3>7, <6>1
        <5>2. CASE G.home[x] # G.home[l]  BY <1>5, <3>2, <5>2
        <5> QED  BY <5>1, <5>2
      <4> QED  BY <3>1, <3>2, <3>3, <3>4, <4>1, <4>2
    <3> QED  BY <3>5, <3>7
  <2> QED  BY <2>1, <2>2
<1>12. NextLinked(h2, G2)
  <2> SUFFICES ASSUME NEW x \in D, h2[x].next # 0
               PROVE  LET n == h2[x].next IN
                      /\ n \in D /\ h2[n].prev = x /\ h2[n].parent = 0
                      /\ home[n] = home[x] /\ rank[n] < rank[x]
                      /\ n \in edge <=> x \in edge
    BY <1>2, <1>3 DEF NextLinked
  <2>1. CASE ~below /\ x = l
    <3>1. h2[x].next = r  BY <1>6, <2>1
    <3>2. h2[r].prev = x /\ h2[r].parent = 0  BY <1>4, <1>6, <2>1
    <3>3. home[r] = G.home[l] /\ home[x] = G.home[l]  BY <1>4, <1>5, <2>1
    <3>4. rank[r] < rank[x]
      <4>1. rank[r] = G.rank[r] /\ rank[x] = G.rank[x] + (G.top + 1)  BY <1>4, <1>19, <2>1
      <4>2. G.rank[r] \in 0..G.top /\ G.rank[x] \in 0..G.top  BY <1>3
      <4> QED  BY <1>3, <4>1, <4>2
    <3>5. r \in edge /\ x \in edge  BY <1>1, <1>4, <1>5, <2>1
    <3> QED  BY <3>1, <3>2, <3>3, <3>4, <3>5
  <2>2. CASE ~(~below /\ x = l)
    <3> DEFINE n == h[x].next
    <3>1. h2[x].next = n /\ n # 0 /\ x # l  BY <1>6, <2>2
    <3>2. /\ n \in D /\ h[n].prev = x /\ h[n].parent = 0 /\ n # r
          /\ G.home[n] = G.home[x] /\ G.rank[n] < G.rank[x]
          /\ n \in G.edge <=> x \in G.edge
          /\ n \in P => x \in P
      BY <1>9, <3>1
    <3>3. x \in P => n \in P  BY <1>10, <3>1
    <3> HIDE DEF n
    <3>4. h2[n].prev = x /\ h2[n].parent = 0  BY <1>6, <3>2
    <3>5. home[n] = home[x] /\ rank[n] < rank[x]
      <4>1. home[n] = home[x]  BY <1>5, <3>2
      <4>2. G.rank[n] \in 0..G.top /\ G.rank[x] \in 0..G.top  BY <1>3, <3>2
      <4>3. \/ rank[n] = G.rank[n] + (G.top + 1) /\ rank[x] = G.rank[x] + (G.top + 1)
            \/ rank[n] = G.rank[n] /\ rank[x] = G.rank[x]
        BY <1>19, <3>2
      <4>4. \A a, b, t \in Nat: a < b => a + (t + 1) < b + (t + 1)  OBVIOUS
      <4>5. G.rank[n] \in Nat /\ G.rank[x] \in Nat /\ G.top \in Nat /\ G.rank[n] < G.rank[x]
        BY <1>3, <3>2, <4>2
      <4>6. G.rank[n] + (G.top + 1) < G.rank[x] + (G.top + 1)  BY <4>4, <4>5
      <4>7. rank[n] < rank[x]  BY <4>3, <4>5, <4>6
      <4> QED  BY <4>1, <4>7
    <3>6. n \in edge <=> x \in edge  BY <1>5, <3>2, <3>3
    <3> QED  BY <3>1, <3>2, <3>4, <3>5, <3>6
  <2> QED  BY <2>1, <2>2
<1>13. BackLinked(h2)
  <2> SUFFICES ASSUME NEW x \in D
               PROVE  /\ h2[x].parent # 0 => h2[x].parent \in D /\ h2[h2[x].parent].child = x
                      /\ h2[x].prev # 0 => h2[x].prev \in D /\ h2[h2[x].prev].next = x
    BY <1>3 DEF BackLinked
  <2>1. h2[x].parent # 0 => h2[x].parent \in D /\ h2[h2[x].parent].child = x
    <3>1. CASE below /\ x = r  BY <1>6, <3>1
    <3>2. CASE ~(below /\ x = r)
      <4>1. h2[x].parent = h[x].parent  BY <1>6, <3>2
      <4>2. h[x].parent # 0 => h[x].parent \in D /\ h[h[x].parent].child = x
        BY DEF Forest, BackLinked
      <4>3. h[x].parent # 0 => h[x].parent # l \/ ~below  BY <1>3, <4>2
      <4> QED  BY <1>6, <4>1, <4>2, <4>3
    <3> QED  BY <3>1, <3>2
  <2>2. h2[x].prev # 0 => h2[x].prev \in D /\ h2[h2[x].prev].next = x
    <3>1. CASE ~below /\ x = r  BY <1>6, <3>1
    <3>2. CASE ~(~below /\ x = r)
      <4>1. h2[x].prev = h[x].prev  BY <1>6, <3>2
      <4>2. h[x].prev # 0 => h[x].prev \in D /\ h[h[x].prev].next = x
        BY DEF Forest, BackLinked
      <4>3. h[x].prev # 0 => h[x].prev # l  BY <1>3, <4>2
      <4> QED  BY <1>6, <4>1, <4>2, <4>3
    <3> QED  BY <3>1, <3>2
  <2> QED  BY <2>1, <2>2
<1>14. Rooted(h2, G2)
  <2> SUFFICES ASSUME NEW x \in D
               PROVE  /\ IsRoot(h2, x) => home[x] = x /\ x \in edge
                      /\ IsRoot(h2, home[x])
    BY <1>2, <1>3 DEF Rooted
  <2>1. \A y \in D: IsRoot(h2, y) <=> IsRoot(h, y) /\ y # r  BY <1>3, <1>4, <1>6 DEF IsRoot
  <2>2. /\ IsRoot(h, x) => G.home[x] = x /\ x \in G.edge
        /\ IsRoot(h, G.home[x]) /\ IsRoot(h, G.home[l])
    BY DEF Forest, Rooted
  <2>3. IsRoot(h2, x) => home[x] = x /\ x \in edge  BY <1>1, <1>5, <2>1, <2>2
  <2>4. home[x] \in D /\ home[x] # r /\ IsRoot(h, home[x])  BY <1>3, <1>5, <2>2
  <2> QED  BY <2>1, <2>3, <2>4
<1>15. ReadThrough(h2, G2)
  <2>1. text2[0] = << >>  BY <1>1, <1>3, <1>5 DEF Forest, ReadThrough
  <2>2. ASSUME NEW x \in D
        PROVE  text2[x] = (Word(h, x) \o text2[h2[x].child]) \o text2[h2[x].next]
    <3> DEFINE c == h[x].child
               n == h[x].next
               w == Word(h, x)
               z == G.text[r]
    <3>1. G.text[x] = (w \o G.text[c]) \o G.text[n]  BY DEF Forest, ReadThrough
    <3>2. G.text[0] = << >> /\ 0 \in 0..Len(h) /\ 0 \notin P  BY <1>1, <1>3 DEF Forest, ReadThrough
    <3>3. /\ c # 0 => c \in D /\ (c \in P => x \in P /\ x # l /\ n = 0)
          /\ n # 0 => n \in D /\ (n \in P => x \in P)
      BY <1>8, <1>9
    <3>4. c \in 0..Len(h) /\ n \in 0..Len(h)  BY <1>3, <3>2, <3>3
    <3>5. w \in Seq(T) /\ z \in Seq(T) /\ G.text[c] \in Seq(T) /\ G.text[n] \in Seq(T)
      BY <1>3, <3>4, WordIs
    <3>6. x \in P /\ x # l => \/ c \in P /\ n = 0
                              \/ n # 0 /\ n \in P /\ c \notin P
      BY <1>10, <3>2
    <3>7. x = l => n = 0 /\ (below => c = 0)  OBVIOUS
    <3>8. /\ h2[x].child = IF below /\ x = l THEN r ELSE c
          /\ h2[x].next = IF ~below /\ x = l THEN r ELSE n
      BY <1>6
    <3> HIDE DEF c, n, w, z
    <3> DEFINE a == G.text[c]
               b == G.text[n]
    <3> HIDE DEF a, b
    <3>9. /\ (w \o (a \o z)) \o << >> = ((w \o a) \o << >>) \o z
          /\ (w \o a) \o (b \o z) = ((w \o a) \o b) \o z
          /\ (w \o z) \o << >> = ((w \o << >>) \o << >>) \o z
          /\ (w \o a) \o z = ((w \o a) \o << >>) \o z
      <4>1. a \in Seq(T) /\ b \in Seq(T) /\ w \in Seq(T) /\ z \in Seq(T)  BY <3>5 DEF a, b
      <4>2. \A e, f, g \in Seq(T): (e \o f) \o g = e \o (f \o g)
        <5>1. Associates(T)  BY Reassociate
        <5> QED  BY <5>1 DEF Associates
      <4>3. \A e, f \in Seq(T): e \o f \in Seq(T)  BY ConcatProperties
      <4>4. \A e \in Seq(T): e \o << >> = e  BY ConcatEmptySeq
      <4>5. w \o a \in Seq(T) /\ a \o z \in Seq(T) /\ w \o z \in Seq(T)  BY <4>1, <4>3
      <4>6. w \o (a \o z) = (w \o a) \o z /\ w \o (a \o z) \in Seq(T)
        <5>1. (w \o a) \o z = w \o (a \o z)  BY <4>1, <4>2, Zenon
        <5>2. w \o (a \o z) \in Seq(T)  BY <4>1, <4>3, <4>5, Zenon
        <5> QED  BY <5>1, <5>2, Zenon
      <4>7. (w \o (a \o z)) \o << >> = (w \o a) \o z /\ (w \o a) \o << >> = w \o a  BY <4>4, <4>5, <4>6
      <4>8. (w \o z) \o << >> = w \o z /\ (w \o << >>) \o << >> = w  BY <4>1, <4>4, <4>5
      <4>9. (w \o a) \o (b \o z) = ((w \o a) \o b) \o z
        <5> DEFINE v == w \o a
        <5>1. v \in Seq(T)  BY <4>5
        <5> HIDE DEF v
        <5>2. (v \o b) \o z = v \o (b \o z)  BY <4>1, <4>2, <5>1, Zenon
        <5> QED  BY <5>2, Zenon DEF v
      <4> QED  BY <4>7, <4>8, <4>9
    <3>10. CASE x \notin P
      <4>1. x # l  BY <1>1, <3>10
      <4>2. text2[x] = G.text[x] /\ text2[c] = G.text[c] /\ text2[n] = G.text[n]
        BY <1>3, <1>5, <3>2, <3>3, <3>4, <3>10
      <4> QED  BY <3>1, <3>8, <4>1, <4>2 DEF w
    <3>11. CASE x \in P /\ x # l
      <4>1. text2[x] = G.text[x] \o z  BY <1>3, <1>5, <3>11 DEF z
      <4>2. CASE c \in P /\ n = 0
        <5>1. text2[c] = a \o z /\ text2[n] = << >> /\ b = << >>
          BY <1>5, <2>1, <3>2, <3>4, <4>2 DEF z, a, b
        <5> QED  BY <3>1, <3>8, <3>9, <3>11, <4>1, <5>1 DEF w, a, b
      <4>3. CASE n # 0 /\ n \in P /\ c \notin P
        <5>1. text2[c] = a /\ text2[n] = b \o z  BY <1>5, <3>4, <4>3 DEF z, a, b
        <5> QED  BY <3>1, <3>8, <3>9, <3>11, <4>1, <5>1, Zenon DEF w, a, b
      <4> QED  BY <3>6, <3>11, <4>2, <4>3
    <3>12. CASE x = l
      <4>1. text2[x] = G.text[x] \o z  BY <1>1, <1>3, <1>5, <3>12 DEF z
      <4>2. text2[r] = z /\ b = << >> /\ text2[n] = << >>
        BY <1>3, <1>4, <1>5, <2>1, <3>2, <3>7, <3>12 DEF z, b
      <4>3. CASE below
        <5>1. a = << >>  BY <3>2, <3>7, <3>12, <4>3 DEF a
        <5> QED  BY <3>1, <3>8, <3>9, <3>12, <4>1, <4>2, <4>3, <5>1, ZenonT(60) DEF w, a, b
      <4>4. CASE ~below
        <5>1. c \notin P  BY <3>2, <3>3, <3>12
        <5>2. text2[c] = a  BY <1>5, <3>4, <5>1 DEF a
        <5> QED  BY <3>1, <3>8, <3>9, <3>12, <4>1, <4>2, <4>4, <5>2, ZenonT(60) DEF w, a, b
      <4> QED  BY <4>3, <4>4
    <3> QED  BY <3>10, <3>11, <3>12
  <2>3. \A x \in D: Word(h2, x) = Word(h, x)  BY <1>6 DEF Word
  <2>4. \A x \in D: text2[x] = (Word(h2, x) \o text2[h2[x].child]) \o text2[h2[x].next]
    BY <2>2, <2>3
  <2>5. Len(h2) = Len(h) /\ G2.text = text2  BY <1>2, <1>3
  <2> QED  BY <2>1, <2>4, <2>5, Zenon DEF ReadThrough
<1>16. Elsewhere(h, G, h2, G2, {G.home[l], r})
  <2> SUFFICES ASSUME NEW x \in D, G.home[x] # G.home[l], G.home[x] # r
               PROVE  /\ h2[x].child = h[x].child /\ home[x] = G.home[x] /\ text2[x] = G.text[x]
                      /\ x \in edge <=> x \in G.edge
    BY <1>2 DEF Elsewhere
  <2>1. x \notin P /\ x # l  BY <1>1
  <2> QED  BY <1>3, <1>5, <1>6, <2>1
<1>17. Forest(T, h2, G2)  BY <1>7, <1>11, <1>12, <1>13, <1>14, <1>15 DEF Forest
<1>18. /\ G2.home[l] = G.home[l] /\ G2.home[r] = G.home[l] /\ r \in G2.edge /\ l \in G2.edge
       /\ G2.text[G.home[l]] = G.text[G.home[l]] \o G.text[r]
  <2>1. home[l] = G.home[l] /\ home[r] = G.home[l]  BY <1>4, <1>5
  <2>2. r \in edge /\ l \in edge  BY <1>1, <1>4, <1>5
  <2>3. G.home[l] \in 0..Len(h)  BY <1>3
  <2>4. text2[G.home[l]] = G.text[G.home[l]] \o G.text[r]  BY <1>1, <1>5, <2>3
  <2> QED  BY <1>2, <2>1, <2>2, <2>4
<1> QED  BY <1>16, <1>17, <1>18, Zenon DEF Attached

(* What an operator that stands above a node leaves of the pieces: the piece is the same text. *)
StandsOver(T, h, G, h2, G2, old, new) ==
  /\ Forest(T, h2, G2) /\ Elsewhere(h, G, h2, G2, {G.home[old], new})
  /\ G2.home[new] \in {G.home[old], new} /\ new \in G2.edge
  /\ G2.text[G2.home[new]] = G.text[G.home[old]]

LEMMA InsertedForest ==
  ASSUME NEW T, NEW h, NEW G, Forest(T, h, G), NEW h2,
         NEW old \in 1..Len(h), NEW new \in 1..Len(h), Inserted(T, h, h2, old, new),
         old \in G.edge, h[old].parent = 0,
         IsRoot(h, new), h[new].child = 0, h[new].next = 0, Word(h, new) = << >>, G.home[old] # new
  PROVE  \E G2: StandsOver(T, h, G, h2, G2, old, new)
<1> DEFINE D == 1..Len(h)
           p == h[old].prev
           R == IF p = 0 THEN new ELSE G.home[old]
           home == [x \in D |-> IF G.home[x] \in {G.home[old], new} THEN R ELSE G.home[x]]
           rank == [x \in D |-> IF x = new THEN G.rank[old] + G.rank[old] + 1 ELSE G.rank[x] + G.rank[x]]
           top  == G.top + G.top + 1
           text2 == [x \in 0..Len(h) |-> IF x = new THEN G.text[old] ELSE G.text[x]]
           G2 == [home |-> home, rank |-> rank, top |-> top, text |-> text2, edge |-> G.edge]
<1>2. G2.home = home /\ G2.rank = rank /\ G2.top = top /\ G2.text = text2 /\ G2.edge = G.edge
  OBVIOUS
<1> HIDE DEF G2
<1>3. /\ h \in Seq(NodeOf(T)) /\ h2 \in Seq(NodeOf(T)) /\ Len(h2) = Len(h) /\ Len(h) \in Nat /\ G.top \in Nat
      /\ \A x \in D: G.home[x] \in D /\ G.rank[x] \in 0..G.top /\ x # 0 /\ x \in 0..Len(h)
      /\ \A x \in 0..Len(h): G.text[x] \in Seq(T)
  <2>1. /\ h \in Seq(NodeOf(T)) /\ h2 \in Seq(NodeOf(T)) /\ Len(h2) = Len(h) /\ G.top \in Nat
        /\ \A x \in 1..Len(h): G.home[x] \in 1..Len(h) /\ G.rank[x] \in 0..G.top
        /\ \A x \in 0..Len(h): G.text[x] \in Seq(T)
    BY DEF Forest, Shaped, Inserted, Relinked
  <2>2. Len(h) \in Nat /\ \A x \in 1..Len(h): x # 0 /\ x \in 0..Len(h)  BY <2>1, HeapIs
  <2> QED  BY <2>1, <2>2
<1>4. /\ G.home[new] = new /\ new \in G.edge /\ h[new].parent = 0 /\ h[new].prev = 0 /\ new # old
  BY DEF Forest, Rooted, IsRoot
<1>5. /\ \A x \in D: home[x] = IF G.home[x] \in {G.home[old], new} THEN R ELSE G.home[x]
      /\ \A x \in D: rank[x] = IF x = new THEN G.rank[old] + G.rank[old] + 1 ELSE G.rank[x] + G.rank[x]
  OBVIOUS
<1>6. \A x \in 0..Len(h): text2[x] = IF x = new THEN G.text[old] ELSE G.text[x]
  OBVIOUS
<1>7. \A x \in D: /\ h2[x].child = IF x = new THEN old ELSE h[x].child
                  /\ h2[x].parent = IF x = old THEN new ELSE h[x].parent
                  /\ h2[x].prev = IF x = old THEN 0 ELSE IF x = new THEN p ELSE h[x].prev
                  /\ h2[x].next = IF x = p THEN new ELSE h[x].next
                  /\ h2[x].name = h[x].name
  BY DEF Inserted, Relinked
<1>8. p # 0 => /\ p \in D /\ h[p].next = old /\ p # new /\ p # old
               /\ G.rank[old] < G.rank[p] /\ G.home[p] = G.home[old] /\ p \in G.edge
  <2> SUFFICES ASSUME p # 0 PROVE /\ p \in D /\ h[p].next = old /\ p # new /\ p # old
               /\ G.rank[old] < G.rank[p] /\ G.home[p] = G.home[old] /\ p \in G.edge
    OBVIOUS
  <2>1. /\ p \in D /\ G.rank[old] < G.rank[p] /\ G.home[p] = G.home[old] /\ p \in G.edge
        /\ h[p].next = old
    BY UpIs
  <2>2. p # new /\ p # old  BY <1>3, <1>4, <2>1
  <2> QED  BY <2>1, <2>2
<1>9. p = 0 => G.home[old] = old  BY DEF Forest, Rooted, IsRoot
<1>10. R \in D /\ R \in {G.home[old], new}  BY <1>3
<1> HIDE DEF home, rank, text2, R, p
<1>11. Shaped(T, h2, G2)
  <2>1. ASSUME NEW x \in D PROVE home[x] \in D /\ rank[x] \in 0..top
    <3>1. home[x] \in D  BY <1>3, <1>5, <1>10
    <3>2. G.rank[x] \in 0..G.top /\ G.rank[old] \in 0..G.top  BY <1>3
    <3>3. rank[x] = G.rank[old] + G.rank[old] + 1 \/ rank[x] = G.rank[x] + G.rank[x]  BY <1>5
    <3>4. \A t \in Nat: \A a, b \in 0..t: b + b + 1 \in 0..t + t + 1 /\ a + a \in 0..t + t + 1  OBVIOUS
    <3>5. G.top \in Nat  BY <1>3
    <3>6. rank[x] \in 0..top  BY <3>2, <3>3, <3>4, <3>5
    <3> QED  BY <3>1, <3>6
  <2>2. \A x \in 0..Len(h): text2[x] \in Seq(T)  BY <1>3, <1>6
  <2>3. top \in Nat  BY <1>3
  <2> HIDE DEF top
  <2> QED  BY <1>2, <1>3, <2>1, <2>2, <2>3 DEF Shaped
<1>12. \A x, y \in D: x # new /\ y # new /\ G.rank[x] < G.rank[y] => rank[x] < rank[y]
  <2> SUFFICES ASSUME NEW x \in D, NEW y \in D, x # new, y # new, G.rank[x] < G.rank[y] PROVE rank[x] < rank[y]
    OBVIOUS
  <2>1. rank[x] = G.rank[x] + G.rank[x] /\ rank[y] = G.rank[y] + G.rank[y]  BY <1>5
  <2>2. G.rank[x] \in 0..G.top /\ G.rank[y] \in 0..G.top  BY <1>3
  <2> QED  BY <1>3, <2>1, <2>2, SMTT(60)
<1>13. rank[old] < rank[new] /\ (p # 0 => rank[new] < rank[p])
  <2>1. rank[old] = G.rank[old] + G.rank[old] /\ rank[new] = G.rank[old] + G.rank[old] + 1  BY <1>4, <1>5
  <2>2. p # 0 => rank[p] = G.rank[p] + G.rank[p] /\ G.rank[p] \in 0..G.top /\ G.rank[old] < G.rank[p]
    BY <1>3, <1>5, <1>8
  <2>3. G.rank[old] \in 0..G.top  BY <1>3
  <2> QED  BY <1>3, <2>1, <2>2, <2>3
<1>14. home[old] = R /\ home[new] = R /\ (p # 0 => home[p] = R)  BY <1>4, <1>5, <1>8
<1>15. ChildrenLinked(h2, G2)
  <2> SUFFICES ASSUME NEW x \in D, h2[x].child # 0
               PROVE  LET c == h2[x].child IN
                      /\ c \in D /\ h2[c].parent = x /\ h2[c].prev = 0
                      /\ home[c] = home[x] /\ rank[c] < rank[x]
                      /\ c \in G.edge <=> x \in G.edge /\ h2[x].next = 0
    BY <1>2, <1>3 DEF ChildrenLinked
  <2>1. CASE x = new
    <3>1. h2[x].child = old /\ h2[old].parent = x /\ h2[old].prev = 0  BY <1>7, <2>1
    <3>2. h2[x].next = 0  BY <1>7, <1>8, <1>3, <2>1
    <3> QED  BY <1>4, <1>13, <1>14, <2>1, <3>1, <3>2
  <2>2. CASE x # new
    <3> DEFINE c == h[x].child
    <3>1. h2[x].child = c /\ c # 0  BY <1>7, <2>2
    <3>2. /\ c \in D /\ h[c].parent = x /\ h[c].prev = 0
          /\ G.home[c] = G.home[x] /\ G.rank[c] < G.rank[x]
          /\ c \in G.edge <=> x \in G.edge /\ h[x].next = 0
      BY <3>1 DEF Forest, ChildrenLinked
    <3> HIDE DEF c
    <3>3. c # old /\ c # new  BY <1>3, <1>4, <3>2
    <3>4. h2[c].parent = x /\ h2[c].prev = 0  BY <1>7, <3>2, <3>3
    <3>5. home[c] = home[x]  BY <1>5, <3>2
    <3>6. rank[c] < rank[x]  BY <1>12, <2>2, <3>2, <3>3
    <3>7. h2[x].next = 0 <=> h[x].next = 0  BY <1>3, <1>7, <1>8
    <3> QED  BY <3>1, <3>2, <3>4, <3>5, <3>6, <3>7
  <2> QED  BY <2>1, <2>2
<1>16. NextLinked(h2, G2)
  <2> SUFFICES ASSUME NEW x \in D, h2[x].next # 0
               PROVE  LET n == h2[x].next IN
                      /\ n \in D /\ h2[n].prev = x /\ h2[n].parent = 0
                      /\ home[n] = home[x] /\ rank[n] < rank[x]
                      /\ n \in G.edge <=> x \in G.edge
    BY <1>2, <1>3 DEF NextLinked
  <2>0. x # 0  BY <1>3
  <2>1. CASE x = p
    <3>1. h2[x].next = new /\ h2[new].prev = x /\ h2[new].parent = 0  BY <1>4, <1>7, <2>1
    <3> QED  BY <1>4, <1>8, <1>13, <1>14, <2>0, <2>1, <3>1
  <2>2. CASE x # p
    <3> DEFINE n == h[x].next
    <3>1. h2[x].next = n /\ n # 0  BY <1>7, <2>2
    <3>2. /\ n \in D /\ h[n].prev = x /\ h[n].parent = 0
          /\ G.home[n] = G.home[x] /\ G.rank[n] < G.rank[x]
          /\ n \in G.edge <=> x \in G.edge
      BY <3>1 DEF Forest, NextLinked
    <3> HIDE DEF n
    <3>3. n # old /\ n # new  BY <1>3, <1>4, <2>2, <3>2 DEF p
    <3>4. x # new  BY <1>7, <3>1, <2>2
    <3>5. h2[n].prev = x /\ h2[n].parent = 0  BY <1>7, <3>2, <3>3
    <3>6. home[n] = home[x]  BY <1>5, <3>2
    <3>7. rank[n] < rank[x]  BY <1>12, <3>2, <3>3, <3>4
    <3> QED  BY <3>1, <3>2, <3>5, <3>6, <3>7
  <2> QED  BY <2>1, <2>2
<1>17. BackLinked(h2)
  <2> SUFFICES ASSUME NEW x \in D
               PROVE  /\ h2[x].parent # 0 => h2[x].parent \in D /\ h2[h2[x].parent].child = x
                      /\ h2[x].prev # 0 => h2[x].prev \in D /\ h2[h2[x].prev].next = x
    BY <1>3 DEF BackLinked
  <2>1. /\ h[x].parent # 0 => h[x].parent \in D /\ h[h[x].parent].child = x
        /\ h[x].prev # 0 => h[x].prev \in D /\ h[h[x].prev].next = x
    BY DEF Forest, BackLinked
  <2>2. CASE x = old  BY <1>7, <2>2
  <2>3. CASE x = new
    <3>1. h2[x].parent = 0 /\ h2[x].prev = p  BY <1>4, <1>7, <2>3
    <3> QED  BY <1>7, <1>8, <2>3, <3>1
  <2>4. CASE x # old /\ x # new
    <3>1. h2[x].parent = h[x].parent /\ h2[x].prev = h[x].prev  BY <1>7, <2>4
    <3>2. h[x].parent # 0 => h[x].parent # new  BY <1>3, <2>1
    <3>3. h[x].prev # 0 => h[x].prev # p  BY <1>8, <2>1, <2>4
    <3> QED  BY <1>7, <2>1, <3>1, <3>2, <3>3
  <2> QED  BY <2>2, <2>3, <2>4
<1>18. Rooted(h2, G2)
  <2> SUFFICES ASSUME NEW x \in D
               PROVE  /\ IsRoot(h2, x) => home[x] = x /\ x \in G.edge
                      /\ IsRoot(h2, home[x])
    BY <1>2, <1>3 DEF Rooted
  <2>1. /\ \A y \in D: y # old /\ y # new => (IsRoot(h2, y) <=> IsRoot(h, y))
        /\ ~IsRoot(h2, old) /\ (IsRoot(h2, new) <=> p = 0)
    BY <1>3, <1>4, <1>7 DEF IsRoot
  <2>2. /\ IsRoot(h, x) => G.home[x] = x /\ x \in G.edge
        /\ IsRoot(h, G.home[x]) /\ IsRoot(h, G.home[old])
    BY DEF Forest, Rooted
  <2>6. IsRoot(h2, R)
    <3>1. CASE p = 0  BY <2>1, <3>1 DEF R
    <3>2. CASE p # 0
      <4>1. G.home[old] # old
        <5>1. ~IsRoot(h, old)  BY <3>2 DEF IsRoot, p
        <5> QED  BY <2>2, <5>1
      <4> QED  BY <1>3, <2>1, <2>2, <3>2, <4>1 DEF R
    <3> QED  BY <3>1, <3>2
  <2>3. IsRoot(h2, home[x])
    <3>1. CASE G.home[x] \in {G.home[old], new}  BY <1>5, <2>6, <3>1
    <3>2. CASE G.home[x] \notin {G.home[old], new}
      <4>1. home[x] = G.home[x] /\ G.home[x] # new  BY <1>5, <3>2
      <4>2. G.home[x] # old
        <5> SUFFICES ASSUME G.home[x] = old PROVE FALSE  OBVIOUS
        <5>1. IsRoot(h, old)  BY <2>2
        <5>2. G.home[old] = old  BY <5>1 DEF Forest, Rooted
        <5> QED  BY <3>2, <5>2
      <4> QED  BY <1>3, <2>1, <2>2, <4>1, <4>2
    <3> QED  BY <3>1, <3>2
  <2>4. IsRoot(h2, x) => home[x] = x /\ x \in G.edge
    <3> SUFFICES ASSUME IsRoot(h2, x) PROVE home[x] = x /\ x \in G.edge  OBVIOUS
    <3>1. CASE x = new  BY <1>4, <1>14, <2>1, <3>1 DEF R
    <3>2. CASE x # new
      <4>1. IsRoot(h, x) /\ x # old  BY <2>1, <3>2
      <4>2. G.home[x] = x /\ x \in G.edge  BY <2>2, <4>1
      <4>3. home[x] = x
        <5>1. CASE x = G.home[old]
          <6>1. p # 0  BY <1>9, <4>1, <5>1
          <6> QED  BY <1>5, <4>2, <5>1, <6>1 DEF R
        <5>2. CASE x # G.home[old]  BY <1>5, <3>2, <4>2, <5>2
        <5> QED  BY <5>1, <5>2
      <4> QED  BY <4>2, <4>3
    <3> QED  BY <3>1, <3>2
  <2> QED  BY <2>3, <2>4
<1>19. ReadThrough(h2, G2)
  <2>1. text2[0] = << >>  BY <1>3, <1>6 DEF Forest, ReadThrough
  <2>2. ASSUME NEW x \in D
        PROVE  text2[x] = (Word(h, x) \o text2[h2[x].child]) \o text2[h2[x].next]
    <3> DEFINE c == h[x].child
               n == h[x].next
    <3>1. G.text[x] = (Word(h, x) \o G.text[c]) \o G.text[n]  BY DEF Forest, ReadThrough
    <3>2. CASE x = new
      <4>1. h2[x].child = old /\ h2[x].next = 0  BY <1>3, <1>7, <1>8, <3>2
      <4>2. text2[old] = G.text[old] /\ text2[x] = G.text[old]  BY <1>3, <1>4, <1>6, <3>2
      <4> DEFINE g == G.text[old]
      <4>3. g \in Seq(T)  BY <1>3
      <4> HIDE DEF g
      <4>4. << >> \o g = g /\ g \o << >> = g  BY <4>3, ConcatEmptySeq
      <4>5. (<< >> \o g) \o << >> = g  BY <4>4
      <4> QED  BY <2>1, <3>2, <4>1, <4>2, <4>5 DEF g
    <3>3. CASE x # new
      <4>1. /\ c # 0 => c \in D /\ h[c].parent = x
            /\ n # 0 => n \in D /\ h[n].prev = x
        BY DEF Forest, ChildrenLinked, NextLinked
      <4>2. c # new /\ n # new  BY <1>3, <1>4, <4>1
      <4>3. c \in 0..Len(h) /\ n \in 0..Len(h)  BY <1>3, <4>1
      <4>4. text2[c] = G.text[c] /\ text2[n] = G.text[n] /\ text2[x] = G.text[x]
        BY <1>3, <1>6, <3>3, <4>2, <4>3
      <4>5. h2[x].child = c  BY <1>7, <3>3
      <4>6. text2[h2[x].next] = text2[n]
        <5>1. CASE x = p
          <6>1. h2[x].next = new /\ n = old  BY <1>3, <1>7, <1>8, <5>1
          <6> QED  BY <1>3, <1>6, <4>4, <6>1
        <5>2. CASE x # p  BY <1>7, <5>2
        <5> QED  BY <5>1, <5>2
      <4> HIDE DEF c, n
      <4> QED  BY <3>1, <4>4, <4>5, <4>6
    <3> QED  BY <3>2, <3>3
  <2>3. \A x \in D: Word(h2, x) = Word(h, x)  BY <1>7 DEF Word
  <2> QED  BY <1>2, <1>3, <2>1, <2>2, <2>3, ZenonT(60) DEF ReadThrough
<1>20. Elsewhere(h, G, h2, G2, {G.home[old], new})
  <2> SUFFICES ASSUME NEW x \in D, G.home[x] # G.home[old], G.home[x] # new
               PROVE  h2[x].child = h[x].child /\ home[x] = G.home[x] /\ text2[x] = G.text[x]
    BY <1>2 DEF Elsewhere
  <2>1. x # new  BY <1>4
  <2> QED  BY <1>3, <1>5, <1>6, <1>7, <2>1
<1>21. Forest(T, h2, G2)  BY <1>11, <1>15, <1>16, <1>17, <1>18, <1>19 DEF Forest
<1>22. text2[R] = G.text[G.home[old]]
  <2>1. CASE p = 0  BY <1>3, <1>6, <1>9, <2>1 DEF R
  <2>2. CASE p # 0
    <3>1. R = G.home[old] /\ R # new /\ R \in 0..Len(h)  BY <1>3, <2>2 DEF R
    <3> QED  BY <1>6, <3>1
  <2> QED  BY <2>1, <2>2
<1>23. StandsOver(T, h, G, h2, G2, old, new)
  BY <1>2, <1>4, <1>10, <1>14, <1>20, <1>21, <1>22 DEF StandsOver
<1> QED  BY <1>23

(* A bracket's contents are taken out of it. *)
TakenOut(T, h, G, h2, G2, new, c) ==
  /\ Relinked(T, h, h2) /\ Forest(T, h2, G2) /\ Elsewhere(h, G, h2, G2, {new})
  /\ c \in 1..Len(h) /\ IsRoot(h2, c) /\ G2.text[c] = G.text[new]
  /\ \A x \in 1..Len(h): h2[x].next = h[x].next

LEMMA OrphanForest ==
  ASSUME NEW T, NEW h, NEW G, Forest(T, h, G), NEW new \in 1..Len(h), IsRoot(h, new),
         h[new].child # 0, h[new].next = 0, Word(h, new) = << >>
  PROVE  \E G2: TakenOut(T, h, G, Orphan(h, new), G2, new, h[new].child)
<1> DEFINE D == 1..Len(h)
           h2 == Orphan(h, new)
           c == h[new].child
           home == [x \in D |-> IF G.home[x] = new /\ x # new THEN c ELSE G.home[x]]
           text2 == [x \in 0..Len(h) |-> IF x = new THEN << >> ELSE G.text[x]]
           G2 == [home |-> home, rank |-> G.rank, top |-> G.top, text |-> text2, edge |-> G.edge]
<1>1. G2.home = home /\ G2.rank = G.rank /\ G2.top = G.top /\ G2.text = text2 /\ G2.edge = G.edge
  OBVIOUS
<1> HIDE DEF G2
<1>2. /\ h \in Seq(NodeOf(T)) /\ G.top \in Nat
      /\ \A x \in D: G.home[x] \in D /\ G.rank[x] \in 0..G.top
      /\ \A x \in 0..Len(h): G.text[x] \in Seq(T)
  BY DEF Forest, Shaped
<1>3. Len(h) \in Nat /\ 0 \in 0..Len(h) /\ \A x \in D: x # 0 /\ x \in 0..Len(h)  BY <1>2, HeapIs
<1>4. /\ G.home[new] = new /\ new \in G.edge /\ h[new].parent = 0 /\ h[new].prev = 0
  BY DEF Forest, Rooted, IsRoot
<1>5. /\ c \in D /\ h[c].parent = new /\ h[c].prev = 0 /\ G.home[c] = new /\ c \in G.edge
  BY <1>4 DEF Forest, ChildrenLinked
<1>6. c # new  BY <1>3, <1>4, <1>5
<1>7. \A x \in D: home[x] = IF G.home[x] = new /\ x # new THEN c ELSE G.home[x]
  OBVIOUS
<1>8. \A x \in 0..Len(h): text2[x] = IF x = new THEN << >> ELSE G.text[x]
  OBVIOUS
<1>9. /\ Relinked(T, h, h2)
      /\ \A x \in D: /\ h2[x].child = IF x = new THEN 0 ELSE h[x].child
                     /\ h2[x].parent = IF x = c THEN 0 ELSE h[x].parent
                     /\ h2[x].next = h[x].next /\ h2[x].prev = h[x].prev
  BY <1>2, <1>5, <1>6, OrphanIs
<1> HIDE DEF home, text2, h2
<1>10. h2 \in Seq(NodeOf(T)) /\ Len(h2) = Len(h) /\ \A x \in D: h2[x].name = h[x].name
  BY <1>9 DEF Relinked
<1>11. Shaped(T, h2, G2)
  <2>1. \A x \in D: home[x] \in D  BY <1>2, <1>5, <1>7
  <2>2. << >> \in Seq(T)  OBVIOUS
  <2>3. \A x \in 0..Len(h): text2[x] \in Seq(T)  BY <1>2, <1>8, <2>2
  <2> QED  BY <1>1, <1>2, <1>10, <2>1, <2>3 DEF Shaped
<1>12. ChildrenLinked(h2, G2)
  <2> SUFFICES ASSUME NEW x \in D, h2[x].child # 0
               PROVE  LET d == h2[x].child IN
                      /\ d \in D /\ h2[d].parent = x /\ h2[d].prev = 0
                      /\ home[d] = home[x] /\ G.rank[d] < G.rank[x]
                      /\ d \in G.edge <=> x \in G.edge /\ h2[x].next = 0
    BY <1>1, <1>10 DEF ChildrenLinked
  <2> DEFINE d == h[x].child
  <2>1. h2[x].child = d /\ d # 0 /\ x # new  BY <1>9
  <2>2. /\ d \in D /\ h[d].parent = x /\ h[d].prev = 0
        /\ G.home[d] = G.home[x] /\ G.rank[d] < G.rank[x]
        /\ d \in G.edge <=> x \in G.edge /\ h[x].next = 0
    BY <2>1 DEF Forest, ChildrenLinked
  <2> HIDE DEF d
  <2>3. d # c /\ d # new  BY <1>3, <1>4, <1>5, <2>1, <2>2
  <2>4. h2[d].parent = x /\ h2[d].prev = 0  BY <1>9, <2>2, <2>3
  <2>5. home[d] = home[x]  BY <1>7, <2>1, <2>2, <2>3
  <2> QED  BY <1>9, <2>1, <2>2, <2>4, <2>5
<1>13. NextLinked(h2, G2)
  <2> SUFFICES ASSUME NEW x \in D, h2[x].next # 0
               PROVE  LET n == h2[x].next IN
                      /\ n \in D /\ h2[n].prev = x /\ h2[n].parent = 0
                      /\ home[n] = home[x] /\ G.rank[n] < G.rank[x]
                      /\ n \in G.edge <=> x \in G.edge
    BY <1>1, <1>10 DEF NextLinked
  <2> DEFINE n == h[x].next
  <2>1. h2[x].next = n /\ n # 0 /\ x # new  BY <1>9
  <2>2. /\ n \in D /\ h[n].prev = x /\ h[n].parent = 0
        /\ G.home[n] = G.home[x] /\ G.rank[n] < G.rank[x]
        /\ n \in G.edge <=> x \in G.edge
    BY <2>1 DEF Forest, NextLinked
  <2> HIDE DEF n
  <2>3. n # new  BY <1>3, <1>4, <2>2
  <2>4. h2[n].prev = x /\ h2[n].parent = 0  BY <1>9, <2>2
  <2>5. home[n] = home[x]  BY <1>7, <2>1, <2>2, <2>3
  <2> QED  BY <2>1, <2>2, <2>4, <2>5
<1>14. BackLinked(h2)
  <2> SUFFICES ASSUME NEW x \in D
               PROVE  /\ h2[x].parent # 0 => h2[x].parent \in D /\ h2[h2[x].parent].child = x
                      /\ h2[x].prev # 0 => h2[x].prev \in D /\ h2[h2[x].prev].next = x
    BY <1>10 DEF BackLinked
  <2>1. /\ h[x].parent # 0 => h[x].parent \in D /\ h[h[x].parent].child = x
        /\ h[x].prev # 0 => h[x].prev \in D /\ h[h[x].prev].next = x
    BY DEF Forest, BackLinked
  <2>2. h2[x].prev # 0 => h2[x].prev \in D /\ h2[h2[x].prev].next = x  BY <1>9, <2>1
  <2>3. x # c /\ h[x].parent # 0 => h[x].parent # new  BY <2>1
  <2>4. h2[x].parent # 0 => h2[x].parent \in D /\ h2[h2[x].parent].child = x  BY <1>9, <2>1, <2>3
  <2> QED  BY <2>2, <2>4
<1>15. \A x \in D: IsRoot(h2, x) <=> IsRoot(h, x) \/ x = c  BY <1>5, <1>9 DEF IsRoot
<1>16. Rooted(h2, G2)
  <2> SUFFICES ASSUME NEW x \in D
               PROVE  /\ IsRoot(h2, x) => home[x] = x /\ x \in G.edge
                      /\ IsRoot(h2, home[x])
    BY <1>1, <1>10 DEF Rooted
  <2>1. /\ IsRoot(h, x) => G.home[x] = x /\ x \in G.edge
        /\ IsRoot(h, G.home[x])
    BY DEF Forest, Rooted
  <2>2. IsRoot(h2, x) => home[x] = x /\ x \in G.edge  BY <1>5, <1>6, <1>7, <1>15, <2>1
  <2>3. IsRoot(h2, home[x])  BY <1>2, <1>5, <1>7, <1>15, <2>1
  <2> QED  BY <2>2, <2>3
<1>17. ReadThrough(h2, G2)
  <2>1. text2[0] = << >>  BY <1>3, <1>8 DEF Forest, ReadThrough
  <2>2. ASSUME NEW x \in D
        PROVE  text2[x] = (Word(h, x) \o text2[h2[x].child]) \o text2[h2[x].next]
    <3> DEFINE d == h[x].child
               n == h[x].next
    <3>1. G.text[x] = (Word(h, x) \o G.text[d]) \o G.text[n]  BY DEF Forest, ReadThrough
    <3>2. CASE x = new
      <4>1. h2[x].child = 0 /\ h2[x].next = 0 /\ text2[x] = << >>  BY <1>3, <1>8, <1>9, <3>2
      <4>2. (<< >> \o << >>) \o << >> = << >>  OBVIOUS
      <4> QED  BY <2>1, <3>2, <4>1, <4>2
    <3>3. CASE x # new
      <4>1. /\ d # 0 => d \in D /\ h[d].parent = x
            /\ n # 0 => n \in D /\ h[n].prev = x
        BY DEF Forest, ChildrenLinked, NextLinked
      <4>2. d # new /\ n # new  BY <1>3, <1>4, <4>1
      <4>3. d \in 0..Len(h) /\ n \in 0..Len(h)  BY <1>3, <4>1
      <4>4. text2[d] = G.text[d] /\ text2[n] = G.text[n] /\ text2[x] = G.text[x]
        BY <1>3, <1>8, <3>3, <4>2, <4>3
      <4>5. h2[x].child = d /\ h2[x].next = n  BY <1>9, <3>3
      <4> HIDE DEF d, n
      <4> QED  BY <3>1, <4>4, <4>5
    <3> QED  BY <3>2, <3>3
  <2>3. \A x \in D: Word(h2, x) = Word(h, x)  BY <1>10 DEF Word
  <2> QED  BY <1>1, <1>10, <2>1, <2>2, <2>3, ZenonT(60) DEF ReadThrough
<1>18. Elsewhere(h, G, h2, G2, {new})
  <2> SUFFICES ASSUME NEW x \in D, G.home[x] # new
               PROVE  h2[x].child = h[x].child /\ home[x] = G.home[x] /\ text2[x] = G.text[x]
    BY <1>1 DEF Elsewhere
  <2>1. x # new  BY <1>4
  <2> QED  BY <1>3, <1>7, <1>8, <1>9, <2>1
<1>19. Forest(T, h2, G2)  BY <1>11, <1>12, <1>13, <1>14, <1>16, <1>17 DEF Forest
<1>20. text2[c] = G.text[new]
  <2>1. G.text[new] = (<< >> \o G.text[c]) \o G.text[0]  BY DEF Forest, ReadThrough
  <2>2. G.text[0] = << >>  BY DEF Forest, ReadThrough
  <2> DEFINE g == G.text[c]
  <2>3. g \in Seq(T)  BY <1>2, <1>3, <1>5
  <2> HIDE DEF g, c
  <2>4. << >> \o g = g /\ g \o << >> = g  BY <2>3, ConcatEmptySeq
  <2>5. (<< >> \o g) \o << >> = g  BY <2>4
  <2>6. text2[c] = g  BY <1>3, <1>5, <1>6, <1>8 DEF g
  <2> QED  BY <2>1, <2>2, <2>5, <2>6 DEF g
<1>21. IsRoot(h2, c)  BY <1>5, <1>15
<1>22. TakenOut(T, h, G, h2, G2, new, c)
  BY <1>1, <1>5, <1>9, <1>18, <1>19, <1>20, <1>21 DEF TakenOut
<1> QED  BY <1>22 DEF h2, c

(* A node is made. *)
Made(T, h, G, h2, G2, new, t) ==
  /\ Forest(T, h2, G2) /\ Elsewhere(h, G, h2, G2, {})
  /\ Len(h2) = new /\ IsRoot(h2, new) /\ h2[new].child = 0 /\ h2[new].next = 0
  /\ h2[new].name = t /\ G2.home[new] = new /\ new \in G2.edge
  /\ G2.text[new] = Operands(<<t>>)
  /\ \A x \in 1..Len(h): h2[x] = h[x]

LEMMA GrownForest ==
  ASSUME NEW T, NEW h, NEW G, Forest(T, h, G), NEW t \in T, NEW paren \in Nat
  PROVE  \E G2: Made(T, h, G, Node(h, t, paren), G2, Len(h) + 1, t)
<1> DEFINE D == 1..Len(h)
           h2 == Node(h, t, paren)
           new == Len(h) + 1
           E == 1..Len(h2)
           home == [x \in E |-> IF x = new THEN new ELSE G.home[x]]
           rank == [x \in E |-> IF x = new THEN 0 ELSE G.rank[x]]
           text2 == [x \in 0..Len(h2) |-> IF x = new THEN Operands(<<t>>) ELSE G.text[x]]
           edge == (G.edge \cap D) \cup {new}
           G2 == [home |-> home, rank |-> rank, top |-> G.top, text |-> text2, edge |-> edge]
           node == [name |-> t, parentheses |-> paren, parent |-> 0, child |-> 0, prev |-> 0, next |-> 0]
<1>1. G2.home = home /\ G2.rank = rank /\ G2.top = G.top /\ G2.text = text2 /\ G2.edge = edge
  OBVIOUS
<1> HIDE DEF G2
<1>2. /\ h \in Seq(NodeOf(T)) /\ G.top \in Nat
      /\ \A x \in D: G.home[x] \in D /\ G.rank[x] \in 0..G.top
      /\ \A x \in 0..Len(h): G.text[x] \in Seq(T)
  BY DEF Forest, Shaped
<1>3. /\ node \in NodeOf(T) /\ node.name = t /\ node.parent = 0 /\ node.child = 0 /\ node.prev = 0
      /\ node.next = 0
  BY DEF NodeOf
<1>4. h2 = Append(h, node)  BY DEF Node
<1> HIDE DEF node, h2
<1>5. /\ Len(h) \in Nat /\ h2 \in Seq(NodeOf(T)) /\ Len(h2) = new /\ h2[new] = node
      /\ \A x \in D: h2[x] = h[x]
  BY <1>2, <1>3, <1>4, AppendProperties
<1>6. /\ new \in E /\ new # 0 /\ 0 \in 0..Len(h) /\ \A x \in 0..Len(h): x # new /\ x \in 0..Len(h2)
      /\ \A x \in D: x \in E /\ x # 0 /\ x \in 0..Len(h)
      /\ \A x \in E: x \in D \/ x = new
      /\ \A x \in 0..Len(h2): x \in 0..Len(h) \/ x = new
      /\ new \in 0..Len(h2) /\ new \notin D
  BY <1>5
<1>7. /\ \A x \in E: home[x] = IF x = new THEN new ELSE G.home[x]
      /\ \A x \in E: rank[x] = IF x = new THEN 0 ELSE G.rank[x]
      /\ \A x \in D: x \in edge <=> x \in G.edge
      /\ new \in edge
  BY <1>6
<1>8. \A x \in 0..Len(h2): text2[x] = IF x = new THEN Operands(<<t>>) ELSE G.text[x]
  OBVIOUS
<1> HIDE DEF home, rank, text2, edge, new, E
<1>9. Operands(<<t>>) \in Seq(T) /\ Word(h2, new) = Operands(<<t>>)
  <2>1. Word(h2, new) = Operands(<<t>>)  BY <1>3, <1>5 DEF Word
  <2>2. Word(h2, new) \in Seq(T)  BY <1>5, <1>6, WordIs DEF E
  <2> QED  BY <2>1, <2>2
<1>10. Shaped(T, h2, G2)
  <2>1. \A x \in E: home[x] \in E /\ rank[x] \in 0..G.top  BY <1>2, <1>6, <1>7, SMTT(60)
  <2>2. \A x \in 0..Len(h2): text2[x] \in Seq(T)  BY <1>2, <1>6, <1>8, <1>9
  <2> QED  BY <1>1, <1>2, <1>5, <2>1, <2>2 DEF Shaped, E
<1>11. ChildrenLinked(h2, G2)
  <2> SUFFICES ASSUME NEW x \in E, h2[x].child # 0
               PROVE  LET c == h2[x].child IN
                      /\ c \in E /\ h2[c].parent = x /\ h2[c].prev = 0
                      /\ home[c] = home[x] /\ rank[c] < rank[x]
                      /\ c \in edge <=> x \in edge /\ h2[x].next = 0
    BY <1>1 DEF ChildrenLinked, E
  <2>1. x \in D /\ h2[x] = h[x]  BY <1>3, <1>5, <1>6
  <2> DEFINE c == h[x].child
  <2>2. /\ c \in D /\ h[c].parent = x /\ h[c].prev = 0
        /\ G.home[c] = G.home[x] /\ G.rank[c] < G.rank[x]
        /\ c \in G.edge <=> x \in G.edge /\ h[x].next = 0
    BY <2>1 DEF Forest, ChildrenLinked
  <2> HIDE DEF c
  <2>3. c \in E /\ h2[c] = h[c] /\ c # new /\ x # new  BY <1>5, <1>6, <2>1, <2>2
  <2>4. home[c] = home[x] /\ rank[c] < rank[x]  BY <1>7, <2>2, <2>3
  <2>5. c \in edge <=> x \in edge /\ h2[x].next = 0  BY <1>7, <2>1, <2>2
  <2> QED  BY <2>1, <2>2, <2>3, <2>4, <2>5 DEF c
<1>12. NextLinked(h2, G2)
  <2> SUFFICES ASSUME NEW x \in E, h2[x].next # 0
               PROVE  LET n == h2[x].next IN
                      /\ n \in E /\ h2[n].prev = x /\ h2[n].parent = 0
                      /\ home[n] = home[x] /\ rank[n] < rank[x]
                      /\ n \in edge <=> x \in edge
    BY <1>1 DEF NextLinked, E
  <2>1. x \in D /\ h2[x] = h[x]  BY <1>3, <1>5, <1>6
  <2> DEFINE n == h[x].next
  <2>2. /\ n \in D /\ h[n].prev = x /\ h[n].parent = 0
        /\ G.home[n] = G.home[x] /\ G.rank[n] < G.rank[x]
        /\ n \in G.edge <=> x \in G.edge
    BY <2>1 DEF Forest, NextLinked
  <2> HIDE DEF n
  <2>3. n \in E /\ h2[n] = h[n] /\ n # new /\ x # new  BY <1>5, <1>6, <2>1, <2>2
  <2>4. home[n] = home[x] /\ rank[n] < rank[x]  BY <1>7, <2>2, <2>3
  <2>5. n \in edge <=> x \in edge  BY <1>7, <2>1, <2>2
  <2> QED  BY <2>1, <2>2, <2>3, <2>4, <2>5 DEF n
<1>13. BackLinked(h2)
  <2> SUFFICES ASSUME NEW x \in E
               PROVE  /\ h2[x].parent # 0 => h2[x].parent \in E /\ h2[h2[x].parent].child = x
                      /\ h2[x].prev # 0 => h2[x].prev \in E /\ h2[h2[x].prev].next = x
    BY DEF BackLinked, E
  <2>1. CASE x = new  BY <1>3, <1>5, <2>1
  <2>2. CASE x \in D
    <3>1. /\ h[x].parent # 0 => h[x].parent \in D /\ h[h[x].parent].child = x
          /\ h[x].prev # 0 => h[x].prev \in D /\ h[h[x].prev].next = x
      BY <2>2 DEF Forest, BackLinked
    <3> QED  BY <1>5, <1>6, <2>2, <3>1
  <2> QED  BY <1>6, <2>1, <2>2
<1>14. /\ IsRoot(h2, new)
       /\ \A x \in D: IsRoot(h2, x) <=> IsRoot(h, x)
  BY <1>3, <1>5 DEF IsRoot
<1>15. Rooted(h2, G2)
  <2> SUFFICES ASSUME NEW x \in E
               PROVE  /\ IsRoot(h2, x) => home[x] = x /\ x \in edge
                      /\ IsRoot(h2, home[x])
    BY <1>1 DEF Rooted, E
  <2>1. CASE x = new  BY <1>6, <1>7, <1>14, <2>1
  <2>2. CASE x \in D
    <3>1. /\ IsRoot(h, x) => G.home[x] = x /\ x \in G.edge
          /\ IsRoot(h, G.home[x])
      BY <2>2 DEF Forest, Rooted
    <3>2. home[x] = G.home[x] /\ home[x] \in D  BY <1>2, <1>6, <1>7, <2>2
    <3> QED  BY <1>7, <1>14, <2>2, <3>1, <3>2
  <2> QED  BY <1>6, <2>1, <2>2
<1>16. ReadThrough(h2, G2)
  <2>1. text2[0] = << >>  BY <1>6, <1>8 DEF Forest, ReadThrough
  <2>2. ASSUME NEW x \in E
        PROVE  text2[x] = (Word(h2, x) \o text2[h2[x].child]) \o text2[h2[x].next]
    <3>1. CASE x = new
      <4>1. h2[x].child = 0 /\ h2[x].next = 0 /\ text2[x] = Operands(<<t>>) /\ Word(h2, x) = Operands(<<t>>)
        BY <1>3, <1>5, <1>6, <1>8, <1>9, <3>1
      <4> DEFINE g == Operands(<<t>>)
      <4>2. g \in Seq(T)  BY <1>9
      <4> HIDE DEF g
      <4>3. g \o << >> = g  BY <4>2, ConcatEmptySeq
      <4>4. (g \o << >>) \o << >> = g  BY <4>3
      <4> QED  BY <2>1, <4>1, <4>4 DEF g
    <3>2. CASE x \in D
      <4> DEFINE c == h[x].child
                 n == h[x].next
      <4>1. G.text[x] = (Word(h, x) \o G.text[c]) \o G.text[n]  BY <3>2 DEF Forest, ReadThrough
      <4>2. /\ c # 0 => c \in D
            /\ n # 0 => n \in D
        BY <3>2 DEF Forest, ChildrenLinked, NextLinked
      <4>3. c \in 0..Len(h) /\ n \in 0..Len(h) /\ x \in 0..Len(h)  BY <1>6, <3>2, <4>2
      <4>4. text2[c] = G.text[c] /\ text2[n] = G.text[n] /\ text2[x] = G.text[x]
        BY <1>6, <1>8, <4>3
      <4>5. h2[x].child = c /\ h2[x].next = n /\ Word(h2, x) = Word(h, x)  BY <1>5, <3>2 DEF Word
      <4> HIDE DEF c, n
      <4> QED  BY <4>1, <4>4, <4>5
    <3> QED  BY <1>6, <3>1, <3>2
  <2> QED  BY <1>1, <2>1, <2>2 DEF ReadThrough, E
<1>17. Elsewhere(h, G, h2, G2, {})
  <2> SUFFICES ASSUME NEW x \in D
               PROVE  /\ h2[x].child = h[x].child /\ home[x] = G.home[x] /\ text2[x] = G.text[x]
                      /\ x \in edge <=> x \in G.edge
    BY <1>1 DEF Elsewhere
  <2>1. x \in E /\ x \in 0..Len(h2) /\ x # new  BY <1>6
  <2> QED  BY <1>5, <1>7, <1>8, <2>1
<1>18. Forest(T, h2, G2)  BY <1>10, <1>11, <1>12, <1>13, <1>15, <1>16 DEF Forest
<1>19. home[new] = new /\ new \in edge /\ text2[new] = Operands(<<t>>)  BY <1>6, <1>7, <1>8
<1>20. /\ Len(h2) = new /\ h2[new].child = 0 /\ h2[new].next = 0 /\ h2[new].name = t
       /\ \A x \in D: h2[x] = h[x]
  BY <1>3, <1>5
<1> HIDE DEF h2, new, home, text2, edge
<1>21. Made(T, h, G, h2, G2, new, t)  BY <1>1, <1>14, <1>17, <1>18, <1>19, <1>20 DEF Made
<1> QED  BY <1>21 DEF h2, new

-----------------------------------------------------------------------------
(* The ways through a tree *)

(* A walk that goes upwards stays in its tree, and at the end of its text. *)
UpFrom(h, G, n, y) ==
  /\ y \in 1..Len(h) /\ G.home[y] = G.home[n] /\ G.rank[n] <= G.rank[y]
  /\ n \in G.edge => y \in G.edge

UpStep(h, G, n, y) == UpFrom(h, G, n, y) /\ G.rank[n] < G.rank[y]

LEMMA UpWalk ==
  ASSUME NEW T, NEW h, NEW G, Forest(T, h, G), NEW S, NEW st, NEW v, NEW f, Walks(1..Len(h), S, st, v, f),
         \A x \in 1..Len(h) \ S: UpStep(h, G, x, st[x]),
         NEW n \in 1..Len(h)
  PROVE  \E y \in S: UpFrom(h, G, n, y) /\ f[n] = v[y]
<1> DEFINE D == 1..Len(h)
           far == [x \in D |-> G.top - G.rank[x]]
           C == {y \in D: UpFrom(h, G, n, y)}
<1>1. G.top \in Nat /\ \A x \in D: G.rank[x] \in 0..G.top  BY DEF Forest, Shaped
<1>2. \A x \in D: far[x] = G.top - G.rank[x] /\ far[x] \in Nat  BY <1>1
<1> HIDE DEF far
<1>3. \A x \in D \ S: st[x] \in D /\ far[st[x]] < far[x]
  <2> SUFFICES ASSUME NEW x \in D \ S PROVE st[x] \in D /\ far[st[x]] < far[x]  OBVIOUS
  <2>1. st[x] \in D /\ G.rank[x] < G.rank[st[x]]  BY DEF UpStep, UpFrom
  <2>2. far[x] = G.top - G.rank[x] /\ far[st[x]] = G.top - G.rank[st[x]]  BY <1>2, <2>1
  <2>3. G.rank[x] \in 0..G.top /\ G.rank[st[x]] \in 0..G.top  BY <1>1, <2>1
  <2> QED  BY <1>1, <2>1, <2>2, <2>3
<1>4. C \in SUBSET D /\ n \in C  BY <1>1 DEF UpFrom
<1>5. ASSUME NEW x \in C \ S PROVE st[x] \in C
  <2>1. x \in D /\ UpFrom(h, G, n, x) /\ UpFrom(h, G, x, st[x])  BY DEF UpStep
  <2>2. G.rank[n] \in Int /\ G.rank[x] \in Int /\ G.rank[st[x]] \in Int  BY <1>1, <2>1 DEF UpFrom
  <2> QED  BY <2>1, <2>2 DEF UpFrom
<1> HIDE DEF C
<1>6. \A x \in C: \E y \in C \cap S: f[x] = v[y]
  <2> HIDE DEF D
  <2> QED  BY <1>2, <1>3, <1>4, <1>5, WalkEnds DEF D
<1> QED  BY <1>4, <1>6 DEF C

LEMMA FirstIs ==
  ASSUME NEW T, NEW h, NEW G, Forest(T, h, G), NEW n \in 1..Len(h)
  PROVE  UpFrom(h, G, n, First(h, n)) /\ h[First(h, n)].prev = 0
<1> DEFINE D == 1..Len(h)
           S == {x \in D: h[x].prev = 0}
           st == [x \in D |-> h[x].prev]
           v == [x \in D |-> x]
           F(g) == [x \in DOMAIN h |-> IF h[x].prev = 0 THEN x ELSE g[h[x].prev]]
           W(g) == [x \in D |-> IF x \in S THEN v[x] ELSE g[st[x]]]
           first == CHOOSE g: g = F(g)
<1>0. DOMAIN h = D
  <2>1. h \in Seq(NodeOf(T))  BY DEF Forest, Shaped
  <2> QED  BY <2>1, HeapIs
<1>1. \A g: F(g) = W(g)  BY <1>0
<1>2. ASSUME NEW x \in D \ S PROVE UpStep(h, G, x, st[x])
  <2>1. x \in D /\ h[x].prev # 0 /\ st[x] = h[x].prev  OBVIOUS
  <2>2. \A y \in D: G.rank[y] \in Int  BY DEF Forest, Shaped
  <2> HIDE DEF st
  <2> QED  BY <2>1, <2>2, UpIs DEF UpStep, UpFrom
<1>3. \A x \in D \ S: st[x] \in D  BY <1>2 DEF UpStep, UpFrom
<1>4. First(h, n) = first[n]  BY DEF First
<1> HIDE DEF F
<1>5. PICK g: Walks(D, S, st, v, g)
  <2> HIDE DEF S, st, v, D
  <2> QED  BY <1>3, WalkExists
<1>6. g = F(g)  BY <1>1, <1>5 DEF Walks
<1>7. first = F(first)  BY <1>6
<1> HIDE DEF first
<1>8. Walks(D, S, st, v, first)  BY <1>1, <1>7 DEF Walks
<1>9. \E y \in S: UpFrom(h, G, n, y) /\ first[n] = v[y]
  <2> HIDE DEF S, st, v
  <2> QED  BY <1>2, <1>8, UpWalk
<1> QED  BY <1>4, <1>9

LEMMA LastSiblingIs ==
  ASSUME NEW T, NEW h, NEW G, Forest(T, h, G), NEW n \in 1..Len(h)
  PROVE  LET l == LastSibling(h, n) IN
         /\ l \in 1..Len(h) /\ G.home[l] = G.home[n] /\ (n \in G.edge => l \in G.edge)
         /\ h[l].next = 0 /\ (l # n => h[l].parent = 0)
<1> DEFINE D == 1..Len(h)
           S == {x \in D: h[x].next = 0}
           st == [x \in D |-> h[x].next]
           v == [x \in D |-> x]
           F(g) == [x \in DOMAIN h |-> IF h[x].next = 0 THEN x ELSE g[h[x].next]]
           W(g) == [x \in D |-> IF x \in S THEN v[x] ELSE g[st[x]]]
           last == CHOOSE g: g = F(g)
           far == G.rank
           C == {y \in D: G.home[y] = G.home[n] /\ (n \in G.edge => y \in G.edge) /\ (y # n => h[y].parent = 0)}
<1>0. DOMAIN h = D
  <2>1. h \in Seq(NodeOf(T))  BY DEF Forest, Shaped
  <2> QED  BY <2>1, HeapIs
<1>1. \A g: F(g) = W(g)  BY <1>0
<1>2. ASSUME NEW x \in D \ S
      PROVE  /\ st[x] \in D /\ far[st[x]] < far[x] /\ G.home[st[x]] = G.home[x]
             /\ (x \in G.edge => st[x] \in G.edge) /\ h[st[x]].parent = 0
  <2>1. x \in D /\ h[x].next # 0 /\ st[x] = h[x].next  OBVIOUS
  <2> HIDE DEF st
  <2> QED  BY <2>1 DEF Forest, NextLinked
<1>3. \A x \in D: far[x] \in Nat
  <2>1. G.top \in Nat /\ \A x \in D: G.rank[x] \in 0..G.top  BY DEF Forest, Shaped
  <2> QED  BY <2>1
<1>4. LastSibling(h, n) = last[n]  BY DEF LastSibling
<1> HIDE DEF F
<1>5. PICK g: Walks(D, S, st, v, g)
  <2> HIDE DEF S, st, v, D
  <2> QED  BY <1>2, WalkExists
<1>6. g = F(g)  BY <1>1, <1>5 DEF Walks
<1>7. last = F(last)  BY <1>6
<1> HIDE DEF last
<1>8. Walks(D, S, st, v, last)  BY <1>1, <1>7 DEF Walks
<1>9. C \in SUBSET D /\ n \in C /\ \A x \in C \ S: st[x] \in C
  <2>1. C \in SUBSET D /\ n \in C  OBVIOUS
  <2>2. ASSUME NEW x \in C \ S PROVE st[x] \in C
    <3>1. x \in D \ S /\ G.home[x] = G.home[n] /\ (n \in G.edge => x \in G.edge)  OBVIOUS
    <3> HIDE DEF S, st
    <3> QED  BY <1>2, <3>1
  <2> QED  BY <2>1, <2>2
<1>10. \E y \in C \cap S: last[n] = v[y]
  <2> HIDE DEF C, S, st, v, D, far
  <2>1. \A x \in D \ S: st[x] \in D /\ far[st[x]] < far[x]  BY <1>2
  <2>2. C \in SUBSET D  BY <1>9
  <2>3. \A x \in C \ S: st[x] \in C  BY <1>9
  <2>4. \A x \in C: \E y \in C \cap S: last[x] = v[y]  BY <1>3, <1>8, <2>1, <2>2, <2>3, WalkEnds
  <2> QED  BY <1>9, <2>4
<1> QED  BY <1>4, <1>10

LEMMA RootOfIs ==
  ASSUME NEW T, NEW h, NEW G, Forest(T, h, G), NEW n \in 1..Len(h)
  PROVE  RootOf(h, n) = G.home[n]
<1> DEFINE D == 1..Len(h)
           S == {x \in D: h[First(h, x)].parent = 0}
           st == [x \in D |-> h[First(h, x)].parent]
           v == [x \in D |-> First(h, x)]
           F(g) == [x \in DOMAIN h |-> LET p == h[First(h, x)].parent IN IF p = 0 THEN First(h, x) ELSE g[p]]
           W(g) == [x \in D |-> IF x \in S THEN v[x] ELSE g[st[x]]]
           root == CHOOSE g: g = F(g)
<1>0. DOMAIN h = D
  <2>1. h \in Seq(NodeOf(T))  BY DEF Forest, Shaped
  <2> QED  BY <2>1, HeapIs
<1>1. \A g: F(g) = W(g)  BY <1>0
<1>2. ASSUME NEW x \in D \ S PROVE UpStep(h, G, x, st[x])
  <2>1. x \in D /\ h[First(h, x)].parent # 0 /\ st[x] = h[First(h, x)].parent  OBVIOUS
  <2>2. UpFrom(h, G, x, First(h, x))  BY FirstIs
  <2>3. \A y \in D: G.rank[y] \in Int  BY DEF Forest, Shaped
  <2> DEFINE f == First(h, x)
  <2> HIDE DEF st, f
  <2>4. f \in D  BY <2>2 DEF UpFrom, f
  <2>5. /\ h[f].parent \in D /\ G.rank[f] < G.rank[h[f].parent] /\ G.home[h[f].parent] = G.home[f]
        /\ f \in G.edge => h[f].parent \in G.edge
    BY <2>1, <2>4, UpIs DEF f
  <2>6. UpFrom(h, G, x, f) /\ st[x] = h[f].parent  BY <2>1, <2>2 DEF f
  <2> QED  BY <2>3, <2>4, <2>5, <2>6, SMTT(60) DEF UpStep, UpFrom
<1>3. \A x \in D \ S: st[x] \in D  BY <1>2 DEF UpStep, UpFrom
<1>4. RootOf(h, n) = root[n]
  <2>1. n # 0
    <3>1. h \in Seq(NodeOf(T))  BY DEF Forest, Shaped
    <3>2. Len(h) \in Nat  BY <3>1, HeapIs
    <3> QED  BY <3>2
  <2> QED  BY <2>1 DEF RootOf
<1> HIDE DEF F
<1>5. PICK g: Walks(D, S, st, v, g)
  <2> HIDE DEF S, st, v, D
  <2> QED  BY <1>3, WalkExists
<1>6. g = F(g)  BY <1>1, <1>5 DEF Walks
<1>7. root = F(root)  BY <1>6
<1> HIDE DEF root
<1>8. Walks(D, S, st, v, root)  BY <1>1, <1>7 DEF Walks
<1>9. \E y \in S: UpFrom(h, G, n, y) /\ root[n] = v[y]
  <2> HIDE DEF S, st, v
  <2> QED  BY <1>2, <1>8, UpWalk
<1>10. PICK y \in S: UpFrom(h, G, n, y) /\ root[n] = v[y]  BY <1>9
<1>11. y \in D /\ h[First(h, y)].parent = 0 /\ root[n] = First(h, y)  BY <1>10
<1>12. UpFrom(h, G, y, First(h, y)) /\ h[First(h, y)].prev = 0  BY <1>11, FirstIs
<1> DEFINE r == First(h, y)
<1>13. r \in D /\ IsRoot(h, r) /\ G.home[r] = G.home[n]
  <2> HIDE DEF S, st, v
  <2> QED  BY <1>10, <1>11, <1>12 DEF UpFrom, IsRoot
<1>14. G.home[r] = r
  <2> HIDE DEF r
  <2> QED  BY <1>13 DEF Forest, Rooted
<1> QED  BY <1>4, <1>11, <1>13, <1>14

LEMMA HighPrecedenceIs ==
  ASSUME NEW T, NEW h, NEW G, Forest(T, h, G), NEW t, NEW n \in 1..Len(h)
  PROVE  UpFrom(h, G, n, HighPrecedence(h, n, t))
<1> DEFINE D == 1..Len(h)
           Q(x) == h[x].prev = 0 \/ (IsOperator(h[x].name) /\ Prec(h[x].name) < Prec(t))
           S == {x \in D: Q(x)}
           st == [x \in D |-> h[x].prev]
           v == [x \in D |-> x]
           F(g) == [x \in DOMAIN h |-> IF Q(x) THEN x ELSE g[h[x].prev]]
           W(g) == [x \in D |-> IF x \in S THEN v[x] ELSE g[st[x]]]
           high == CHOOSE g: g = F(g)
<1>0. DOMAIN h = D
  <2>1. h \in Seq(NodeOf(T))  BY DEF Forest, Shaped
  <2> QED  BY <2>1, HeapIs
<1>4. HighPrecedence(h, n, t) = high[n]  BY DEF HighPrecedence
<1>11. \A x \in D: ~Q(x) => h[x].prev # 0  OBVIOUS
<1> HIDE DEF Q
<1>1. \A g: F(g) = W(g)  BY <1>0
<1>2. ASSUME NEW x \in D \ S PROVE UpStep(h, G, x, st[x])
  <2>1. x \in D /\ h[x].prev # 0 /\ st[x] = h[x].prev  BY <1>11
  <2>2. \A y \in D: G.rank[y] \in Int  BY DEF Forest, Shaped
  <2> HIDE DEF st
  <2> QED  BY <2>1, <2>2, UpIs DEF UpStep, UpFrom
<1>3. \A x \in D \ S: st[x] \in D  BY <1>2 DEF UpStep, UpFrom
<1> HIDE DEF F
<1>5. PICK g: Walks(D, S, st, v, g)
  <2> HIDE DEF S, st, v, D
  <2> QED  BY <1>3, WalkExists
<1>6. g = F(g)  BY <1>1, <1>5 DEF Walks
<1>7. high = F(high)  BY <1>6
<1> HIDE DEF high
<1>8. Walks(D, S, st, v, high)  BY <1>1, <1>7 DEF Walks
<1>9. \E y \in S: UpFrom(h, G, n, y) /\ high[n] = v[y]
  <2> HIDE DEF S, st, v
  <2> QED  BY <1>2, <1>8, UpWalk
<1> QED  BY <1>4, <1>9

LEMMA MostHighPrecedenceIs ==
  ASSUME NEW T, NEW h, NEW G, Forest(T, h, G), NEW t, NEW n \in 1..Len(h)
  PROVE  /\ UpFrom(h, G, n, MostHighPrecedence(h, n, t))
         /\ h[MostHighPrecedence(h, n, t)].parent = 0
<1> DEFINE D == 1..Len(h)
           over(x) == HighPrecedence(h, IF h[x].prev # 0 THEN h[x].prev ELSE h[x].parent, t)
           S == {x \in D: h[x].parent = 0}
           st == [x \in D |-> over(x)]
           v == [x \in D |-> x]
           F(g) == [x \in DOMAIN h |-> IF h[x].parent = 0 THEN x ELSE g[over(x)]]
           W(g) == [x \in D |-> IF x \in S THEN v[x] ELSE g[st[x]]]
           most == CHOOSE g: g = F(g)
           m == HighPrecedence(h, n, t)
<1>0. DOMAIN h = D
  <2>1. h \in Seq(NodeOf(T))  BY DEF Forest, Shaped
  <2> QED  BY <2>1, HeapIs
<1>4. MostHighPrecedence(h, n, t) = most[m]  BY DEF MostHighPrecedence
<1>11. \A y \in D: G.rank[y] \in Int  BY DEF Forest, Shaped
<1>12. UpFrom(h, G, n, m)  BY HighPrecedenceIs
<1> HIDE DEF m
<1>1. \A g: F(g) = W(g)
  <2> HIDE DEF over
  <2> QED  BY <1>0
<1>2. ASSUME NEW x \in D \ S PROVE UpStep(h, G, x, st[x])
  <2> DEFINE p == h[x].parent
  <2>1. x \in D /\ p # 0 /\ st[x] = over(x)
    <3> HIDE DEF over
    <3> QED  OBVIOUS
  <2>2. h[x].prev = 0 /\ p \in D /\ UpStep(h, G, x, p)  BY <1>11, <2>1, UpIs DEF UpStep, UpFrom
  <2>3. st[x] = HighPrecedence(h, p, t)  BY <2>1, <2>2
  <2> HIDE DEF st, p
  <2>4. UpFrom(h, G, p, st[x])  BY <2>2, <2>3, HighPrecedenceIs
  <2> QED  BY <1>11, <2>1, <2>2, <2>4 DEF UpStep, UpFrom
<1>3. \A x \in D \ S: st[x] \in D  BY <1>2 DEF UpStep, UpFrom
<1> HIDE DEF F
<1>5. PICK g: Walks(D, S, st, v, g)
  <2> HIDE DEF S, st, v, D
  <2> QED  BY <1>3, WalkExists
<1>6. g = F(g)  BY <1>1, <1>5 DEF Walks
<1>7. most = F(most)  BY <1>6
<1> HIDE DEF most
<1>8. Walks(D, S, st, v, most)  BY <1>1, <1>7 DEF Walks
<1>13. m \in D  BY <1>12 DEF UpFrom
<1>9. \E y \in S: UpFrom(h, G, m, y) /\ most[m] = v[y]
  <2> HIDE DEF S, st, v
  <2> QED  BY <1>2, <1>8, <1>13, UpWalk
<1>10. PICK y \in S: UpFrom(h, G, m, y) /\ most[m] = v[y]  BY <1>9
<1>14. y \in D /\ h[y].parent = 0 /\ most[m] = y  BY <1>10
<1>15. UpFrom(h, G, n, y)
  <2> HIDE DEF S, v, st
  <2> QED  BY <1>10, <1>11, <1>12, <1>14 DEF UpFrom
<1> QED  BY <1>4, <1>14, <1>15

LEMMA ChainedIs ==
  ASSUME NEW T, NEW G, Forest(T, heap, G), NEW c \in 1..Len(heap)
  PROVE  UpFrom(heap, G, c, Chained(c))
<1> DEFINE h == heap
           D == 1..Len(h)
           Q(x) == h[x].name = Token \/ h[x].prev = 0
           S == {x \in D: Q(x)}
           st == [x \in D |-> h[x].prev]
           v == [x \in D |-> x]
           F(g) == [x \in DOMAIN h |-> IF Q(x) THEN x ELSE g[h[x].prev]]
           W(g) == [x \in D |-> IF x \in S THEN v[x] ELSE g[st[x]]]
           chain == CHOOSE g: g = F(g)
           f == chain[c]
<1>0. DOMAIN h = D
  <2>1. h \in Seq(NodeOf(T))  BY DEF Forest, Shaped
  <2> QED  BY <2>1, HeapIs
<1>4. Chained(c) = IF h[f].name = Token THEN f
                   ELSE IF h[f].parent # 0 /\ h[h[f].parent].name = Token THEN h[f].parent ELSE c
  BY DEF Chained
<1>11. \A x \in D: ~Q(x) => h[x].prev # 0  OBVIOUS
<1> HIDE DEF Q
<1>1. \A g: F(g) = W(g)  BY <1>0
<1>10. \A y \in D: G.rank[y] \in Int  BY DEF Forest, Shaped
<1>2. ASSUME NEW x \in D \ S PROVE UpStep(h, G, x, st[x])
  <2>1. x \in D /\ h[x].prev # 0 /\ st[x] = h[x].prev  BY <1>11
  <2> HIDE DEF st
  <2> QED  BY <2>1, <1>10, UpIs DEF UpStep, UpFrom
<1>3. \A x \in D \ S: st[x] \in D  BY <1>2 DEF UpStep, UpFrom
<1> HIDE DEF F
<1>5. PICK g: Walks(D, S, st, v, g)
  <2> HIDE DEF S, st, v, D
  <2> QED  BY <1>3, WalkExists
<1>6. g = F(g)  BY <1>1, <1>5 DEF Walks
<1>7. chain = F(chain)  BY <1>6
<1> HIDE DEF chain
<1>8. Walks(D, S, st, v, chain)  BY <1>1, <1>7 DEF Walks
<1>9. \E y \in S: UpFrom(h, G, c, y) /\ chain[c] = v[y]
  <2> HIDE DEF S, st, v
  <2> QED  BY <1>2, <1>8, UpWalk
<1>12. UpFrom(h, G, c, f) /\ f \in D  BY <1>9 DEF UpFrom
<1> HIDE DEF f
<1>13. h[f].parent # 0 => UpFrom(h, G, c, h[f].parent)  BY <1>10, <1>12, UpIs DEF UpFrom
<1>14. UpFrom(h, G, c, c)  BY <1>10 DEF UpFrom
<1> QED  BY <1>4, <1>12, <1>13, <1>14

(* The names of the tree that a node is in. *)
Txt(G, c) == IF c = 0 THEN << >> ELSE G.text[G.home[c]]

Joint(h, x, g) == (Word(h, x) \o g[h[x].child]) \o g[h[x].next]

LEMMA NamesIs ==
  ASSUME NEW T, NEW G, Forest(T, heap, G), NEW n \in 0..Len(heap)
  PROVE  Names(n) = Txt(G, n)
<1> DEFINE E == 0..Len(heap)
           F(g) == [x \in E |-> IF x = 0 THEN << >> ELSE Joint(heap, x, g)]
           f == CHOOSE g: g = F(g)
           text2 == [x \in E |-> G.text[x]]
<1>1. Names(n) = f[RootOf(heap, n)]  BY DEF Names, Joint, Word
<1>2. Len(heap) \in Nat
  <2>1. heap \in Seq(NodeOf(T))  BY DEF Forest, Shaped
  <2> QED  BY <2>1, HeapIs
<1>3. \A x \in E \ {0}: x \in 1..Len(heap)  BY <1>2
<1>4. ASSUME NEW x \in E \ {0}
      PROVE  /\ heap[x].child \in E /\ (heap[x].child # 0 => G.rank[heap[x].child] < G.rank[x])
             /\ heap[x].next \in E /\ (heap[x].next # 0 => G.rank[heap[x].next] < G.rank[x])
             /\ G.text[x] = Joint(heap, x, G.text)
  <2>1. x \in 1..Len(heap)  BY <1>3
  <2>2. /\ heap[x].child # 0 => heap[x].child \in 1..Len(heap) /\ G.rank[heap[x].child] < G.rank[x]
        /\ heap[x].next # 0 => heap[x].next \in 1..Len(heap) /\ G.rank[heap[x].next] < G.rank[x]
    BY <2>1 DEF Forest, ChildrenLinked, NextLinked
  <2>3. G.text[x] = Joint(heap, x, G.text)  BY <2>1, Zenon DEF Forest, ReadThrough, Joint
  <2> QED  BY <1>2, <2>2, <2>3
<1>5. G.text[0] = << >> /\ 0 \in E  BY <1>2 DEF Forest, ReadThrough
<1>6. text2 = F(text2)
  <2>1. \A x \in E \ {0}: Joint(heap, x, text2) = Joint(heap, x, G.text)
    <3> SUFFICES ASSUME NEW x \in E \ {0} PROVE Joint(heap, x, text2) = Joint(heap, x, G.text)  OBVIOUS
    <3>1. text2[heap[x].child] = G.text[heap[x].child] /\ text2[heap[x].next] = G.text[heap[x].next]
      BY <1>4
    <3> HIDE DEF text2
    <3> QED  BY <3>1, Zenon DEF Joint
  <2>2. \A x \in E: G.text[x] = IF x = 0 THEN << >> ELSE Joint(heap, x, text2)  BY <1>4, <1>5, <2>1
  <2> DEFINE t == text2
  <2>3. \A x \in E: G.text[x] = IF x = 0 THEN << >> ELSE Joint(heap, x, t)  BY <2>2
  <2>4. t = [x \in E |-> G.text[x]]  OBVIOUS
  <2> HIDE DEF t
  <2>5. [x \in E |-> G.text[x]] = F(t)  BY <2>3
  <2>6. t = F(t)  BY <2>4, <2>5
  <2> QED  BY <2>6 DEF t
<1>7. f = F(f)
  <2> HIDE DEF F, text2
  <2> QED  BY <1>6
<1> HIDE DEF f
<1>8. \A x \in E \ {0}: f[x] = Joint(heap, x, f)
  <2>1. \A g: g = F(g) => \A x \in E \ {0}: g[x] = Joint(heap, x, g)  OBVIOUS
  <2> HIDE DEF F
  <2> QED  BY <1>7, <2>1
<1>9. f[0] = << >>
  <2>1. \A g: g = F(g) => g[0] = << >>  BY <1>5
  <2> HIDE DEF F
  <2> QED  BY <1>7, <2>1
<1> HIDE DEF F, text2
<1> DEFINE N == {k \in Nat: \A x \in E: x = 0 \/ G.rank[x] < k => f[x] = G.text[x]}
<1>10. \A x \in E \ {0}: G.rank[x] \in Nat
  <2>1. G.top \in Nat /\ \A x \in 1..Len(heap): G.rank[x] \in 0..G.top  BY DEF Forest, Shaped
  <2> QED  BY <1>3, <2>1
<1>11. 0 \in N
  <2>1. \A x \in E: x = 0 \/ G.rank[x] < 0 => x = 0  BY <1>10
  <2> QED  BY <1>5, <1>9, <2>1
<1>12. ASSUME NEW k \in N \cap Nat PROVE k + 1 \in N
  <2> SUFFICES ASSUME NEW x \in E, x = 0 \/ G.rank[x] < k + 1 PROVE f[x] = G.text[x]  OBVIOUS
  <2>1. CASE x = 0  BY <1>5, <1>9, <2>1
  <2>2. CASE x # 0
    <3> DEFINE c == heap[x].child
               m == heap[x].next
    <3>4. f[x] = Joint(heap, x, f) /\ G.text[x] = Joint(heap, x, G.text)  BY <1>4, <1>8, <2>2
    <3>1. c \in E /\ m \in E /\ (c # 0 => G.rank[c] < G.rank[x]) /\ (m # 0 => G.rank[m] < G.rank[x])
      BY <1>4, <2>2
    <3> HIDE DEF c, m
    <3>2. (c # 0 => G.rank[c] < k) /\ (m # 0 => G.rank[m] < k)
      <4>1. G.rank[x] \in Nat /\ (c # 0 => G.rank[c] \in Nat) /\ (m # 0 => G.rank[m] \in Nat)
        BY <1>10, <2>2, <3>1
      <4> QED  BY <2>2, <3>1, <4>1
    <3>3. f[c] = G.text[c] /\ f[m] = G.text[m]  BY <1>12, <3>1, <3>2
    <3>5. Joint(heap, x, f) = Joint(heap, x, G.text)  BY <3>3, Zenon DEF Joint, c, m
    <3> QED  BY <3>4, <3>5
  <2> QED  BY <2>1, <2>2
<1> HIDE DEF N
<1>13. Nat \subseteq N  BY <1>11, <1>12, SetInduction
<1>14. CASE n = 0
  <2>1. RootOf(heap, n) = 0  BY <1>14 DEF RootOf
  <2> QED  BY <1>1, <1>9, <1>14, <2>1 DEF Txt
<1>15. CASE n # 0
  <2>1. n \in 1..Len(heap)  BY <1>3, <1>15
  <2>2. RootOf(heap, n) = G.home[n] /\ G.home[n] \in 1..Len(heap)  BY <2>1, RootOfIs DEF Forest, Shaped
  <2> DEFINE r == G.home[n]
  <2>3. r \in E \ {0}  BY <1>2, <2>2
  <2>4. G.rank[r] + 1 \in N /\ G.rank[r] < G.rank[r] + 1  BY <1>10, <1>13, <2>3
  <2>5. f[r] = G.text[r]  BY <2>3, <2>4 DEF N
  <2> QED  BY <1>1, <1>15, <2>2, <2>5 DEF Txt
<1> QED  BY <1>14, <1>15

(* What is below the last node of a text goes on to its end. *)
LEMMA LastChildIs ==
  ASSUME NEW T, NEW h, NEW G, Forest(T, h, G), NEW n \in 1..Len(h), n \in G.edge, h[n].next = 0
  PROVE  LET l == LastChild(h, n) IN
         /\ l \in 1..Len(h) /\ G.home[l] = G.home[n] /\ l \in G.edge /\ h[l].next = 0
         /\ h[n].child # 0 /\ l # h[n].child => h[l].parent = 0
<1>1. CASE h[n].child = 0
  <2>1. LastChild(h, n) = LastSibling(h, n)  BY <1>1 DEF LastChild
  <2> QED  BY <1>1, <2>1, LastSiblingIs
<1>2. CASE h[n].child # 0
  <2> DEFINE c == h[n].child
  <2>1. c \in 1..Len(h) /\ G.home[c] = G.home[n] /\ c \in G.edge  BY <1>2 DEF Forest, ChildrenLinked
  <2>2. LastChild(h, n) = LastSibling(h, c)  BY <1>2 DEF LastChild
  <2> HIDE DEF c
  <2>3. /\ LastSibling(h, c) \in 1..Len(h) /\ G.home[LastSibling(h, c)] = G.home[c]
        /\ LastSibling(h, c) \in G.edge /\ h[LastSibling(h, c)].next = 0
        /\ LastSibling(h, c) # c => h[LastSibling(h, c)].parent = 0
    BY <2>1, LastSiblingIs
  <2> QED  BY <2>1, <2>2, <2>3 DEF c
<1> QED  BY <1>1, <1>2

-----------------------------------------------------------------------------
(* Tokens *)

Signs == DOMAIN Precedence \cup {"(", ")", ","}

LEMMA SignsAre ==
  /\ \A t: t \in Signs <=> IsOperator(t) \/ t = ","
  /\ Commutative \subseteq DOMAIN Precedence
  /\ \A t: Operands(<<t>>) = IF t \in Signs THEN << >> ELSE <<t>>
<1>1. \A t: t \in Signs <=> IsOperator(t) \/ t = ","  BY DEF Signs, IsOperator
<1>2. Commutative \subseteq DOMAIN Precedence  
  <2>1. {4, 6, 9, 11, 12, 13} \subseteq DOMAIN Levels  BY DEF Levels
  <2>2. /\ Levels[4] = {"*"} /\ Levels[6] = {"+"} /\ Levels[9] = {"&"}
        /\ Levels[11] = {"|"} /\ Levels[12] = {"&&"} /\ Levels[13] = {"||"}
    BY DEF Levels
  <2>3. DOMAIN Precedence = UNION {Levels[i]: i \in DOMAIN Levels}  BY DEF Precedence, Range
  <2> QED  BY <2>1, <2>2, <2>3 DEF Commutative
<1>3. ASSUME NEW t PROVE Operands(<<t>>) = IF t \in Signs THEN << >> ELSE <<t>>
  <2>1. t \in {t}  OBVIOUS
  <2>2. Operands(<<t>>) = Bit(t, Signs)  BY <2>1, WithoutOne, Zenon DEF Operands, Signs
  <2> QED  BY <2>2 DEF Bit
<1> QED  BY <1>1, <1>2, <1>3, Zenon

LEMMA ReadOne ==
  ASSUME NEW T, made \in Seq(T), NEW i \in 1..Len(made)
  PROVE  Operands(SubSeq(made, 1, i)) =
           IF made[i] \in Signs THEN Operands(SubSeq(made, 1, i - 1))
           ELSE Operands(SubSeq(made, 1, i - 1)) \o <<made[i]>>
<1> DEFINE s == SubSeq(made, 1, i - 1)
           t == SubSeq(made, 1, i)
           a == made[i]
<1>1. Len(made) \in Nat /\ i \in Nat /\ i - 1 \in 0..Len(made) /\ i \in 0..Len(made) /\ a \in T /\ i - 1 + 1 = i
  OBVIOUS
<1>2. s \in Seq(T) /\ Len(s) = i - 1 /\ \A k \in 1..i - 1: s[k] = made[k]  BY <1>1, UptoIs
<1>3. t \in Seq(T) /\ Len(t) = i /\ \A k \in 1..i: t[k] = made[k]  BY <1>1, UptoIs
<1>4. a = made[i]  OBVIOUS
<1> HIDE DEF s, t, a
<1>5. t = Append(s, a)
  <2>1. /\ Append(s, a) \in Seq(T) /\ Len(Append(s, a)) = i
        /\ Append(s, a)[i] = a /\ \A k \in 1..i - 1: Append(s, a)[k] = made[k]
    BY <1>1, <1>2, AppendProperties
  <2>2. \A k \in 1..i: t[k] = Append(s, a)[k]
    <3>1. \A k \in 1..i: k = i \/ k \in 1..i - 1  BY <1>1
    <3> QED  BY <1>3, <1>4, <2>1, <3>1
  <2> QED  BY <1>3, <2>1, <2>2, SeqEqual
<1>6. Operands(t) = Operands(s) \o Bit(a, Signs)
  <2>1. \A u \in T: Without(Append(s, u), Signs) = Without(s, Signs) \o Bit(u, Signs)
    BY <1>2, WithoutIs
  <2> QED  BY <1>1, <1>5, <2>1, Zenon DEF Operands, Signs
<1>7. Operands(s) \in Seq(T)
  <2>1. Without(s, Signs) \in Seq(T)  BY <1>2, WithoutIs
  <2> QED  BY <2>1, Zenon DEF Operands, Signs
<1>8. CASE a \in Signs
  <2>1. Operands(t) = Operands(s)  BY <1>6, <1>7, <1>8, ConcatEmptySeq DEF Bit
  <2> QED  BY <1>4, <1>8, <2>1 DEF s, t
<1>9. CASE a \notin Signs
  <2>1. Operands(t) = Operands(s) \o <<a>>  BY <1>6, <1>9 DEF Bit
  <2> QED  BY <1>4, <1>9, <2>1 DEF s, t
<1> QED  BY <1>8, <1>9

-----------------------------------------------------------------------------
(* The calls that wait *)

Frames(h) == [kind: {"call", "group"}, cur: 0..Len(h), empty: BOOLEAN]

(* What stands in the trees of the waiting calls, the outermost first. *)
HeldBy(G, st) == [k \in 0..Len(st) - 1 |-> Txt(G, st[Len(st) - k].cur)]
Held(G, st) == Joined(HeldBy(G, st), Len(st))

(* They wait for trees of their own, each at the end of its text. *)
Waiting(h, G, st) ==
  /\ \A i \in 1..Len(st):
       /\ st[i].cur # 0 => st[i].cur \in G.edge
       /\ st[i].kind = "call" => st[i].cur # 0 /\ (st[i].empty => h[st[i].cur].child = 0)
  /\ \A i, j \in 1..Len(st):
       i # j /\ st[i].cur # 0 /\ st[j].cur # 0 => G.home[st[i].cur] # G.home[st[j].cur]
Clear(G, st, K) == \A i \in 1..Len(st): st[i].cur # 0 => G.home[st[i].cur] \notin K

LEMMA TxtIs ==
  ASSUME NEW T, NEW h, NEW G, Forest(T, h, G), NEW c \in 0..Len(h)
  PROVE  Txt(G, c) \in Seq(T)
<1>1. Len(h) \in Nat
  <2>1. h \in Seq(NodeOf(T))  BY DEF Forest, Shaped
  <2> QED  BY <2>1, HeapIs
<1>2. << >> \in Seq(T)  OBVIOUS
<1>3. ASSUME c # 0 PROVE G.text[G.home[c]] \in Seq(T)
  <2>1. c \in 1..Len(h)  BY <1>1, <1>3
  <2>2. G.home[c] \in 1..Len(h)  BY <2>1 DEF Forest, Shaped
  <2>3. G.home[c] \in 0..Len(h)  BY <1>1, <2>2
  <2> QED  BY <2>3 DEF Forest, Shaped
<1> QED  BY <1>2, <1>3 DEF Txt

LEMMA FrameIs ==
  ASSUME NEW h, NEW st \in Seq(Frames(h)), NEW i \in 1..Len(st)
  PROVE  st[i].cur \in 0..Len(h) /\ st[i].kind \in {"call", "group"} /\ st[i].empty \in BOOLEAN
<1>1. st[i] \in Frames(h)  OBVIOUS
<1> QED  BY <1>1 DEF Frames

LEMMA HeldIs ==
  ASSUME NEW T, NEW h, NEW G, Forest(T, h, G), NEW st \in Seq(Frames(h))
  PROVE  Held(G, st) \in Seq(T) /\ Held(G, << >>) = << >>
<1>1. Len(st) \in Nat /\ \A k \in 0..Len(st) - 1: Len(st) - k \in 1..Len(st)  OBVIOUS
<1>2. \A k \in 0..Len(st) - 1: HeldBy(G, st)[k] \in Seq(T)
  <2> SUFFICES ASSUME NEW k \in 0..Len(st) - 1 PROVE HeldBy(G, st)[k] \in Seq(T)  OBVIOUS
  <2>1. st[Len(st) - k].cur \in 0..Len(h)  BY <1>1, FrameIs
  <2>2. Txt(G, st[Len(st) - k].cur) \in Seq(T)  BY <2>1, TxtIs
  <2> QED  BY <2>2 DEF HeldBy
<1>3. Held(G, st) \in Seq(T)  BY <1>1, <1>2, JoinedIs DEF Held
<1>4. Held(G, << >>) = << >>
  <2> DEFINE f == HeldBy(G, << >>)
  <2>1. Len(<< >>) = 0 /\ 0 \in Nat /\ \A k \in 0..0 - 1: f[k] \in Seq(T)  OBVIOUS
  <2> HIDE DEF f
  <2>2. Joined(f, 0) = << >>  BY <2>1, JoinedIs
  <2> QED  BY <2>1, <2>2 DEF Held, f
<1> QED  BY <1>3, <1>4

Pushed(h, G, st, f, st2) ==
  /\ st2 \in Seq(Frames(h)) /\ Len(st2) = Len(st) + 1
  /\ st2[1] = f /\ \A i \in 1..Len(st): st2[i + 1] = st[i]
  /\ Held(G, st2) = Held(G, st) \o Txt(G, f.cur)

LEMMA HeldPush ==
  ASSUME NEW T, NEW h, NEW G, Forest(T, h, G), NEW st \in Seq(Frames(h)), NEW f \in Frames(h)
  PROVE  Pushed(h, G, st, f, <<f>> \o st)
<1> DEFINE s == <<f>> \o st
           n == Len(st)
           F == HeldBy(G, st)
           E == HeldBy(G, s)
<1>1. n \in Nat /\ <<f>> \in Seq(Frames(h)) /\ Len(<<f>>) = 1 /\ <<f>>[1] = f /\ n + 1 - 1 = n /\ n + 1 > 0
  OBVIOUS
<1>2. /\ s \in Seq(Frames(h)) /\ Len(s) = 1 + n
      /\ \A k \in 1..1: s[k] = <<f>>[k]
      /\ \A k \in 1..n: s[1 + k] = st[k]
  <2> USE <1>1
  <2> QED  BY ConcatParts
<1>3. Len(s) = n + 1 /\ s[1] = f /\ \A k \in 1..n: s[k + 1] = st[k]
  <2>1. \A k \in 1..n: k + 1 = 1 + k  BY <1>1
  <2>2. 1 \in 1..1 /\ n + 1 = 1 + n  BY <1>1
  <2> HIDE DEF s
  <2> QED  BY <1>1, <1>2, <2>1, <2>2
<1> HIDE DEF s
<1>4. \A k \in 0..n - 1: n - k \in 1..n /\ n + 1 - k = n - k + 1 /\ k \in 0..n + 1 - 1  BY <1>1
<1>5. \A k \in 0..n: E[k] = Txt(G, s[n + 1 - k].cur)  BY <1>1, <1>3 DEF HeldBy
<1>6. \A k \in 0..n - 1: F[k] = Txt(G, st[n - k].cur)  BY DEF HeldBy
<1>7. \A k \in 0..n - 1: E[k] = F[k]
  <2>1. \A k \in 0..n - 1: k \in 0..n /\ s[n + 1 - k] = st[n - k]  BY <1>1, <1>3, <1>4
  <2> QED  BY <1>5, <1>6, <2>1
<1>8. E[n] = Txt(G, f.cur)
  <2>1. n \in 0..n /\ n + 1 - n = 1  BY <1>1
  <2> QED  BY <1>3, <1>5, <2>1
<1>9. \A k \in 0..n + 1 - 1: E[k] \in Seq(T)
  <2> SUFFICES ASSUME NEW k \in 0..n + 1 - 1 PROVE E[k] \in Seq(T)  OBVIOUS
  <2>1. k \in 0..n /\ n + 1 - k \in 1..Len(s)  BY <1>1, <1>3
  <2>2. s[n + 1 - k].cur \in 0..Len(h)  BY <1>2, <2>1, FrameIs
  <2>3. Txt(G, s[n + 1 - k].cur) \in Seq(T)  BY <2>2, TxtIs
  <2> QED  BY <1>5, <2>1, <2>3
<1> HIDE DEF E, F, n
<1>10. n + 1 \in Nat  BY <1>1
<1>11. Joined(E, n + 1) = Joined(E, n) \o E[n]
  <2> DEFINE m == n + 1
  <2>1. m \in Nat /\ m > 0 /\ m - 1 = n /\ \A k \in 0..m - 1: E[k] \in Seq(T)  BY <1>1, <1>9, <1>10
  <2> HIDE DEF m
  <2>2. Joined(E, m) = Joined(E, m - 1) \o E[m - 1]  BY <2>1, JoinedIs
  <2> QED  BY <2>1, <2>2 DEF m
<1>12. Joined(E, n) = Joined(F, n)  BY <1>1, <1>7, JoinedSame
<1>13. Held(G, s) = Joined(E, n + 1) /\ Held(G, st) = Joined(F, n)  BY <1>3 DEF Held, E, F, n
<1>14. Pushed(h, G, st, f, s)  BY <1>2, <1>3, <1>8, <1>11, <1>12, <1>13 DEF Pushed, n
<1> QED  BY <1>14 DEF s

LEMMA HomeIs ==
  ASSUME NEW T, NEW h, NEW G, Forest(T, h, G), NEW x \in 1..Len(h)
  PROVE  /\ Len(h) \in Nat /\ x # 0 /\ G.home[x] \in 1..Len(h) /\ G.home[x] # 0
         /\ IsRoot(h, G.home[x]) /\ G.home[G.home[x]] = G.home[x] /\ G.home[x] \in G.edge
<1>1. h \in Seq(NodeOf(T))  BY DEF Forest, Shaped
<1>2. Len(h) \in Nat  BY <1>1, HeapIs
<1>3. G.home[x] \in 1..Len(h)  BY DEF Forest, Shaped
<1>4. IsRoot(h, G.home[x])  BY DEF Forest, Rooted
<1>5. G.home[G.home[x]] = G.home[x] /\ G.home[x] \in G.edge  BY <1>3, <1>4 DEF Forest, Rooted
<1> QED  BY <1>2, <1>3, <1>4, <1>5

(* What happens in other trees does not touch those that wait. *)
LEMMA Settle ==
  ASSUME NEW T, NEW h, NEW G, Forest(T, h, G), NEW h2, NEW G2, Forest(T, h2, G2), Len(h) <= Len(h2),
         NEW K, Elsewhere(h, G, h2, G2, K),
         NEW st \in Seq(Frames(h)), Waiting(h, G, st), Clear(G, st, K)
  PROVE  /\ st \in Seq(Frames(h2)) /\ Waiting(h2, G2, st) /\ Held(G2, st) = Held(G, st)
         /\ \A i \in 1..Len(st): st[i].cur # 0 => G2.home[st[i].cur] = G.home[st[i].cur]
<1> DEFINE n == Len(st)
<1>1. Len(h) \in Nat /\ Len(h2) \in Nat
  <2>1. h \in Seq(NodeOf(T)) /\ h2 \in Seq(NodeOf(T))  BY DEF Forest, Shaped
  <2> QED  BY <2>1, HeapIs
<1>2. n \in Nat /\ \A i \in 1..n: st[i] \in Frames(h)  OBVIOUS
<1>3. st \in Seq(Frames(h2))
  <2>1. Frames(h) \subseteq Frames(h2)
    <3>1. 0..Len(h) \subseteq 0..Len(h2)  BY <1>1
    <3> QED  BY <3>1 DEF Frames
  <2> QED  BY <2>1
<1>4. ASSUME NEW i \in 1..n, st[i].cur # 0
      PROVE  LET c == st[i].cur IN
             /\ c \in 1..Len(h) /\ h2[c].child = h[c].child
             /\ G2.home[c] = G.home[c] /\ G2.text[G.home[c]] = G.text[G.home[c]]
             /\ c \in G2.edge <=> c \in G.edge
  <2> DEFINE c == st[i].cur
  <2>1. c \in 0..Len(h)  BY FrameIs
  <2>2. c \in 1..Len(h) /\ G.home[c] \notin K  BY <1>1, <1>4, <2>1 DEF Clear
  <2> HIDE DEF c
  <2>3. G.home[c] \in 1..Len(h) /\ G.home[G.home[c]] = G.home[c]  BY <2>2, HomeIs
  <2>4. G2.text[G.home[c]] = G.text[G.home[c]]  BY <2>2, <2>3 DEF Elsewhere
  <2>5. h2[c].child = h[c].child /\ G2.home[c] = G.home[c] /\ (c \in G2.edge <=> c \in G.edge)
    BY <2>2 DEF Elsewhere
  <2> QED  BY <2>2, <2>4, <2>5 DEF c
<1>5. Waiting(h2, G2, st)
  <2>1. \A i \in 1..n: /\ st[i].cur # 0 => st[i].cur \in G2.edge
                       /\ st[i].kind = "call" => st[i].cur # 0 /\ (st[i].empty => h2[st[i].cur].child = 0)
    BY <1>4 DEF Waiting
  <2>2. \A i, j \in 1..n: i # j /\ st[i].cur # 0 /\ st[j].cur # 0 => G2.home[st[i].cur] # G2.home[st[j].cur]
    BY <1>4 DEF Waiting
  <2> QED  BY <2>1, <2>2 DEF Waiting
<1>6. Held(G2, st) = Held(G, st)
  <2>1. \A i \in 1..n: Txt(G2, st[i].cur) = Txt(G, st[i].cur)  BY <1>4 DEF Txt
  <2>2. \A k \in 0..n - 1: n - k \in 1..n  BY <1>2
  <2>3. \A k \in 0..n - 1: HeldBy(G2, st)[k] = HeldBy(G, st)[k]  BY <2>1, <2>2 DEF HeldBy
  <2> QED  BY <1>2, <2>3, JoinedSame DEF Held
<1> QED  BY <1>3, <1>4, <1>5, <1>6

(* Whatever has been read stands in the forest. *)
AllKept(T, G, h, c, i, st) ==
  /\ Forest(T, h, G) /\ st \in Seq(Frames(h)) /\ Waiting(h, G, st)
  /\ c \in 0..Len(h) /\ (c # 0 => c \in G.edge /\ Clear(G, st, {G.home[c]}))
  /\ i \in 1..Len(made) + 1
  /\ Held(G, st) \o Txt(G, c) = Operands(SubSeq(made, 1, i - 1))
Stands(T, G, h, c, i, st) ==
  /\ AllKept(T, G, h, c, i, st)
  /\ i > 1 /\ made[i - 1] \notin Signs => c # 0 /\ h[c].child = 0

(* A sign has been read and the trees have been changed but for the        *)
(* operands.                                                               *)
LEMMA SignRead ==
  ASSUME NEW T, made \in Seq(T), NEW G, NEW h, NEW c, NEW i, NEW st,
         i \in 1..Len(made), made[i] \in Signs, AllKept(T, G, h, c, i, st)
  PROVE  Stands(T, G, h, c, i + 1, st)
<1>1. Len(made) \in Nat /\ i \in Nat /\ i + 1 \in 1..Len(made) + 1 /\ i + 1 - 1 = i  OBVIOUS
<1>2. Operands(SubSeq(made, 1, i)) = Operands(SubSeq(made, 1, i - 1))  BY ReadOne
<1> QED  BY <1>1, <1>2 DEF Stands, AllKept

There(t) == t # ""

LEMMA TokenIs ==
  ASSUME NEW T, made \in Seq(T), NEW i, There(TokenAt(i))
  PROVE  i \in 1..Len(made) /\ made[i] = TokenAt(i) /\ made[i] \in T
<1>1. i \in DOMAIN made /\ made[i] = TokenAt(i)  BY Zenon DEF TokenAt, There
<1> QED  BY <1>1

(* The token's node has been made. *)
IsGrown(T, G, G2) ==
  LET h == Grown IN
  /\ Forest(T, h, G2) /\ Len(h) = Top /\ Top \in 1..Len(h)
  /\ IsRoot(h, Top) /\ h[Top].child = 0 /\ h[Top].next = 0 /\ Word(h, Top) = Operands(<<Token>>)
  /\ G2.home[Top] = Top /\ Top \in G2.edge /\ G2.text[Top] = Operands(<<Token>>)
  /\ stack \in Seq(Frames(h)) /\ Waiting(h, G2, stack) /\ Held(G2, stack) = Held(G, stack)
  /\ Clear(G2, stack, {Top})
  /\ cur # 0 => /\ cur \in 1..Len(h) /\ cur \in G2.edge /\ Clear(G2, stack, {G2.home[cur]})
                /\ G2.home[cur] # Top /\ G2.text[G2.home[cur]] = Txt(G, cur)
                /\ cur # Top
  /\ \A x \in 1..Len(heap): h[x] = heap[x]

LEMMA GrownKept ==
  ASSUME NEW T, made \in Seq(T), NEW G, Stands(T, G, heap, cur, idx, stack), There(Token)
  PROVE  \E G2: IsGrown(T, G, G2)
<1> DEFINE h == Grown
<1>1. Forest(T, heap, G) /\ stack \in Seq(Frames(heap)) /\ Waiting(heap, G, stack)  BY DEF Stands, AllKept
<1>2. Token \in T  BY TokenIs DEF Token
<1>3. Len(stack) \in Nat /\ Len(heap) \in Nat
  <2>1. heap \in Seq(NodeOf(T))  BY <1>1 DEF Forest, Shaped
  <2>2. Len(heap) \in Nat  BY <2>1, HeapIs
  <2> QED  BY <1>1, <2>2
<1>4. PICK G2:
        /\ Forest(T, h, G2) /\ Elsewhere(heap, G, h, G2, {})
        /\ Len(h) = Top /\ IsRoot(h, Top) /\ h[Top].child = 0 /\ h[Top].next = 0
        /\ h[Top].name = Token /\ G2.home[Top] = Top /\ Top \in G2.edge
        /\ G2.text[Top] = Operands(<<Token>>)
        /\ \A x \in 1..Len(heap): h[x] = heap[x]
  <2> DEFINE t == Token
             p == Len(stack)
  <2>1. Forest(T, heap, G) /\ t \in T /\ p \in Nat  BY <1>1, <1>2, <1>3
  <2>2. h = Node(heap, t, p) /\ Top = Len(heap) + 1  BY DEF Grown, Top
  <2> HIDE DEF t, p, h
  <2>3. \E G2: Made(T, heap, G, Node(heap, t, p), G2, Len(heap) + 1, t)  BY <2>1, GrownForest
  <2> QED  BY <2>2, <2>3 DEF Made, t
<1>5. Top = Len(heap) + 1  BY DEF Top
<1> HIDE DEF h
<1>6. Len(heap) <= Len(h) /\ Top \in 1..Len(h) /\ \A x \in 1..Len(heap): x \in 1..Len(h) /\ x # Top
  <2>1. Len(h) = Top  BY <1>4
  <2> QED  BY <1>3, <1>5, <2>1
<1>7. Clear(G, stack, {})  BY DEF Clear
<1>8. /\ stack \in Seq(Frames(h)) /\ Waiting(h, G2, stack) /\ Held(G2, stack) = Held(G, stack)
      /\ \A i \in 1..Len(stack): stack[i].cur # 0 => G2.home[stack[i].cur] = G.home[stack[i].cur]
  <2>1. Forest(T, h, G2) /\ Elsewhere(heap, G, h, G2, {})  BY <1>4
  <2>2. Len(heap) <= Len(h)  BY <1>6
  <2> QED  BY <1>1, <1>7, <2>1, <2>2, Settle
<1>9. \A x \in 1..Len(heap): /\ G2.home[x] = G.home[x] /\ G2.text[x] = G.text[x]
                             /\ x \in G2.edge <=> x \in G.edge
                             /\ G.home[x] \in 1..Len(heap) /\ G.home[x] # Top
  <2>1. \A x \in 1..Len(heap): G.home[x] \in 1..Len(heap)  BY <1>1, HomeIs
  <2> QED  BY <1>4, <1>6, <2>1 DEF Elsewhere
<1>10. Clear(G2, stack, {Top})
  <2>1. \A i \in 1..Len(stack): stack[i].cur # 0 => stack[i].cur \in 1..Len(heap)
    <3> SUFFICES ASSUME NEW i \in 1..Len(stack), stack[i].cur # 0 PROVE stack[i].cur \in 1..Len(heap)
      OBVIOUS
    <3>1. stack[i].cur \in 0..Len(heap)  BY <1>1, FrameIs
    <3> QED  BY <1>3, <3>1
  <2> QED  BY <1>9, <2>1 DEF Clear
<1>11. ASSUME cur # 0
       PROVE  /\ cur \in 1..Len(heap) /\ cur \in G2.edge /\ Clear(G2, stack, {G2.home[cur]})
              /\ G2.home[cur] # Top /\ G2.text[G2.home[cur]] = Txt(G, cur)
  <2>1. cur \in 1..Len(heap) /\ cur \in G.edge /\ Clear(G, stack, {G.home[cur]})
    <3>1. cur \in 0..Len(heap) /\ cur \in G.edge /\ Clear(G, stack, {G.home[cur]})
      BY <1>11 DEF Stands, AllKept
    <3> QED  BY <1>3, <1>11, <3>1
  <2>2. cur \in G2.edge /\ G2.home[cur] = G.home[cur] /\ G2.home[cur] # Top  BY <1>9, <2>1
  <2>3. Clear(G2, stack, {G2.home[cur]})  BY <1>8, <2>1, <2>2 DEF Clear
  <2>4. G2.text[G2.home[cur]] = Txt(G, cur)  BY <1>9, <1>11, <2>1 DEF Txt
  <2> QED  BY <2>1, <2>2, <2>3, <2>4
<1>12. Word(h, Top) = Operands(<<Token>>)  BY <1>4 DEF Word
<1>13. \A x \in 1..Len(heap): h[x] = heap[x]  BY <1>4
<1> QED  BY <1>4, <1>6, <1>8, <1>10, <1>11, <1>12, <1>13 DEF IsGrown, h

(* A tree comes to stand behind another one, those that wait do not move. *)
Adjoins(T, h, G, st, h2, G2, l, r) ==
  /\ Forest(T, h2, G2) /\ Len(h2) = Len(h)
  /\ st \in Seq(Frames(h2)) /\ Waiting(h2, G2, st) /\ Held(G2, st) = Held(G, st)
  /\ Clear(G2, st, {G2.home[l]}) /\ G2.home[r] = G2.home[l]
  /\ l \in G2.edge /\ r \in G2.edge
  /\ G2.text[G2.home[l]] = G.text[G.home[l]] \o G.text[r]

LEMMA LinkKept ==
  ASSUME NEW T, NEW h, NEW G, Forest(T, h, G), NEW st \in Seq(Frames(h)), Waiting(h, G, st),
         NEW h2, NEW below \in BOOLEAN, NEW l \in 1..Len(h), NEW r \in 1..Len(h),
         Linked(T, h, h2, l, r, below),
         l \in G.edge, h[l].next = 0, below => h[l].child = 0, IsRoot(h, r), G.home[l] # r,
         Clear(G, st, {G.home[l]}), Clear(G, st, {r})
  PROVE  \E G2: Adjoins(T, h, G, st, h2, G2, l, r)
<1>1. PICK G2: Attached(T, h, G, h2, G2, l, r)  BY Attach, SMTT(60)
<1>2. /\ Forest(T, h2, G2) /\ Elsewhere(h, G, h2, G2, {G.home[l], r})
      /\ G2.home[l] = G.home[l] /\ G2.home[r] = G.home[l] /\ r \in G2.edge /\ l \in G2.edge
      /\ G2.text[G.home[l]] = G.text[G.home[l]] \o G.text[r]
  BY <1>1 DEF Attached
<1>3. Len(h2) = Len(h) /\ Len(h) \in Nat
  <2>1. Len(h2) = Len(h) /\ h \in Seq(NodeOf(T))  BY DEF Linked, Relinked
  <2> QED  BY <2>1, HeapIs
<1>4. Clear(G, st, {G.home[l], r})  BY DEF Clear
<1>5. /\ st \in Seq(Frames(h2)) /\ Waiting(h2, G2, st) /\ Held(G2, st) = Held(G, st)
      /\ \A i \in 1..Len(st): st[i].cur # 0 => G2.home[st[i].cur] = G.home[st[i].cur]
  <2>1. Len(h) <= Len(h2)  BY <1>3
  <2> QED  BY <1>2, <1>4, <2>1, Settle
<1>6. Clear(G2, st, {G2.home[l]})  BY <1>2, <1>4, <1>5 DEF Clear
<1> QED  BY <1>2, <1>3, <1>5, <1>6, Zenon DEF Adjoins

LEMMA NameRead ==
  ASSUME NEW T, made \in Seq(T), NEW G, NEW h, NEW c, NEW i, NEW st,
         i \in 1..Len(made), made[i] \notin Signs,
         Forest(T, h, G), st \in Seq(Frames(h)), Waiting(h, G, st),
         c \in 1..Len(h), c \in G.edge, Clear(G, st, {G.home[c]}), h[c].child = 0,
         Held(G, st) \o G.text[G.home[c]] = Operands(SubSeq(made, 1, i - 1)) \o <<made[i]>>
  PROVE  Stands(T, G, h, c, i + 1, st)
<1>1. Len(made) \in Nat /\ i \in Nat /\ i + 1 \in 1..Len(made) + 1 /\ i + 1 - 1 = i  OBVIOUS
<1>2. Operands(SubSeq(made, 1, i)) = Operands(SubSeq(made, 1, i - 1)) \o <<made[i]>>  BY ReadOne
<1>3. c # 0 /\ c \in 0..Len(h)
  <2>1. Len(h) \in Nat  BY HomeIs
  <2> QED  BY <2>1
<1>4. Held(G, st) \o Txt(G, c) = Operands(SubSeq(made, 1, i))  BY <1>2, <1>3 DEF Txt
<1> QED  BY <1>1, <1>3, <1>4 DEF Stands, AllKept

(* What is in a forest is in its order. *)
LEMMA NodeTextIs ==
  ASSUME NEW T, NEW h, NEW G, Forest(T, h, G), NEW x \in 1..Len(h)
  PROVE  G.text[x] \in Seq(T) /\ G.text[G.home[x]] \in Seq(T)
<1>1. Len(h) \in Nat /\ G.home[x] \in 1..Len(h)  BY HomeIs
<1>2. x \in 0..Len(h) /\ G.home[x] \in 0..Len(h)  BY <1>1
<1> QED  BY <1>2 DEF Forest, Shaped

LEMMA OperandKept ==
  ASSUME NEW T, made \in Seq(T), NEW G, Stands(T, G, heap, cur, idx, stack), InPlace, Operand
  PROVE  \E G2: Stands(T, G2, heap', cur', idx', stack')
<1> DEFINE h == Grown
<1>1. /\ There(Token) /\ Token # "," /\ ~IsOperator(Token) /\ Building /\ ~Returning
      /\ cur' = Top /\ idx' = idx + 1 /\ stack' = stack
      /\ heap' = IF cur = 0 THEN h ELSE IF heap[cur].child = 0 THEN Child(h, cur, Top)
                 ELSE Behind(h, LastChild(h, cur), Top)
  <2>1. /\ Building /\ Token \notin {"", ","} /\ ~IsOperator(Token)
        /\ At(IF cur = 0 THEN h ELSE IF heap[cur].child = 0 THEN Child(h, cur, Top)
              ELSE Behind(h, LastChild(h, cur), Top), Top, idx + 1, stack)
    BY Zenon DEF Operand
  <2>2. \A t: t \notin {"", ","} => There(t) /\ t # ","  BY Zenon DEF There
  <2>3. \A t: t \notin {"", ","} /\ ~IsOperator(t) => t \notin {"", ")", ","}  BY Zenon DEF IsOperator
  <2>4. There(Token) /\ Token # "," /\ ~Returning  BY <2>1, <2>2, <2>3, Zenon DEF Returning
  <2> QED  BY <2>1, <2>4, Zenon DEF At
<1>2. cur # 0 => heap[cur].next = 0  BY <1>1, Zenon DEF InPlace, IsLast
<1>3. idx \in 1..Len(made) /\ made[idx] = Token  BY <1>1, TokenIs, Zenon DEF Token
<1>4. Token \notin Signs /\ Operands(<<Token>>) = <<Token>> /\ Token \in T
  <2>1. Token \in T  BY <1>1, TokenIs, Zenon DEF Token
  <2> QED  BY <1>1, <2>1, SignsAre, Zenon
<1>5. PICK G1: IsGrown(T, G, G1)  BY <1>1, GrownKept, Zenon
<1> HIDE DEF h
<1>6. /\ Forest(T, h, G1) /\ Len(h) = Top /\ Top \in 1..Len(h) /\ IsRoot(h, Top) /\ h[Top].child = 0
      /\ G1.home[Top] = Top /\ Top \in G1.edge /\ G1.text[Top] = <<Token>>
      /\ stack \in Seq(Frames(h)) /\ Waiting(h, G1, stack) /\ Held(G1, stack) = Held(G, stack)
      /\ Clear(G1, stack, {Top})
      /\ cur # 0 => /\ cur \in 1..Len(h) /\ cur \in G1.edge /\ Clear(G1, stack, {G1.home[cur]})
                    /\ G1.home[cur] # Top /\ G1.text[G1.home[cur]] = Txt(G, cur)
      /\ cur # 0 => h[cur] = heap[cur]
  <2>1. cur # 0 => cur \in 1..Len(heap)
    <3>1. cur \in 0..Len(heap) /\ heap \in Seq(NodeOf(T))  BY DEF Stands, AllKept, Forest, Shaped
    <3>2. Len(heap) \in Nat  BY <3>1, HeapIs
    <3> QED  BY <3>1, <3>2
  <2> QED  BY <1>4, <1>5, <2>1 DEF IsGrown, h
<1>7. /\ Held(G, stack) \o Txt(G, cur) = Operands(SubSeq(made, 1, idx - 1))
      /\ Forest(T, heap, G) /\ stack \in Seq(Frames(heap)) /\ cur \in 0..Len(heap)
  BY DEF Stands, AllKept
<1>8. Held(G, stack) \in Seq(T) /\ Txt(G, cur) \in Seq(T) /\ <<Token>> \in Seq(T)
  BY <1>4, <1>7, HeldIs, TxtIs
<1>9. CASE cur = 0
  <2>1. heap' = h  BY <1>1, <1>9, Zenon
  <2>2. Held(G, stack) = Operands(SubSeq(made, 1, idx - 1))
    <3>1. Txt(G, cur) = << >>  BY <1>9 DEF Txt
    <3> QED  BY <1>7, <1>8, <3>1, ConcatEmptySeq
  <2>3. Held(G1, stack) \o G1.text[G1.home[Top]] = Operands(SubSeq(made, 1, idx - 1)) \o <<made[idx]>>
    BY <1>3, <1>6, <2>2
  <2>4. Clear(G1, stack, {G1.home[Top]})  BY <1>6
  <2>5. Stands(T, G1, h, Top, idx + 1, stack)  BY <1>3, <1>4, <1>6, <2>3, <2>4, NameRead
  <2> QED  BY <1>1, <2>1, <2>5, Zenon
<1>10. ASSUME cur # 0, NEW l \in 1..Len(h), NEW below \in BOOLEAN, Linked(T, h, heap', l, Top, below),
              l \in G1.edge, h[l].next = 0, below => h[l].child = 0, G1.home[l] = G1.home[cur], l # Top
       PROVE  \E G2: Stands(T, G2, heap', cur', idx', stack')
  <2>1. G1.home[l] # Top /\ Clear(G1, stack, {G1.home[l]})  BY <1>6, <1>10
  <2>2. PICK G2: Adjoins(T, h, G1, stack, heap', G2, l, Top)
    <3> DEFINE h2 == heap'
    <3>1. Forest(T, h, G1) /\ stack \in Seq(Frames(h)) /\ Waiting(h, G1, stack) /\ IsRoot(h, Top)
          /\ Top \in 1..Len(h) /\ Clear(G1, stack, {Top})
      BY <1>6
    <3>2. /\ Linked(T, h, h2, l, Top, below) /\ l \in G1.edge /\ h[l].next = 0
          /\ below => h[l].child = 0
      BY <1>10
    <3> HIDE DEF h2
    <3>3. \E G2: Adjoins(T, h, G1, stack, h2, G2, l, Top)  BY <2>1, <3>1, <3>2, LinkKept
    <3> QED  BY <3>3 DEF h2
  <2>8. /\ Forest(T, heap', G2) /\ Len(heap') = Len(h)
        /\ stack \in Seq(Frames(heap')) /\ Waiting(heap', G2, stack)
        /\ Held(G2, stack) = Held(G1, stack)
        /\ Clear(G2, stack, {G2.home[l]}) /\ G2.home[Top] = G2.home[l]
        /\ l \in G2.edge /\ Top \in G2.edge
    BY <2>2, Zenon DEF Adjoins
  <2>3. heap'[Top].child = 0  BY <1>6, <1>10 DEF Linked
  <2>4. G2.text[G2.home[Top]] = Txt(G, cur) \o <<Token>>
    <3>1. G2.text[G2.home[l]] = G1.text[G1.home[l]] \o G1.text[Top]  BY <2>2, Zenon DEF Adjoins
    <3>2. G1.text[G1.home[l]] = Txt(G, cur) /\ G1.text[Top] = <<Token>>  BY <1>6, <1>10
    <3>3. G2.home[Top] = G2.home[l]  BY <2>8
    <3> QED  BY <3>1, <3>2, <3>3, Zenon
  <2>5. Held(G2, stack) \o G2.text[G2.home[Top]] = Operands(SubSeq(made, 1, idx - 1)) \o <<made[idx]>>
    <3>1. (Held(G, stack) \o Txt(G, cur)) \o <<Token>> = Held(G, stack) \o (Txt(G, cur) \o <<Token>>)
      <4> DEFINE x == Held(G, stack)
                 y == Txt(G, cur)
                 z == <<Token>>
      <4>1. x \in Seq(T) /\ y \in Seq(T) /\ z \in Seq(T)  BY <1>8
      <4> HIDE DEF x, y, z
      <4>2. Associates(T)  BY Reassociate
      <4>3. (x \o y) \o z = x \o (y \o z)  BY <4>1, <4>2, ZenonT(60) DEF Associates
      <4> QED  BY <4>3 DEF x, y, z
    <3>2. Held(G2, stack) = Held(G, stack)  BY <1>6, <2>8
    <3>3. Held(G, stack) \o Txt(G, cur) = Operands(SubSeq(made, 1, idx - 1))  BY <1>7
    <3>4. made[idx] = Token  BY <1>3
    <3> QED  BY <2>4, <3>1, <3>2, <3>3, <3>4, Zenon
  <2>6. Top \in 1..Len(heap') /\ Clear(G2, stack, {G2.home[Top]})  BY <1>6, <2>8
  <2>7. Stands(T, G2, heap', Top, idx + 1, stack)  BY <1>3, <1>4, <2>3, <2>5, <2>6, <2>8, NameRead, Zenon
  <2> QED  BY <1>1, <2>7, Zenon
<1>11. h \in Seq(NodeOf(T))  BY <1>6 DEF Forest, Shaped
<1>12. CASE cur # 0 /\ heap[cur].child = 0
  <2>1. /\ cur \in 1..Len(h) /\ cur \in G1.edge /\ h[cur].child = 0 /\ h[cur].next = 0 /\ cur # Top
        /\ heap' = Child(h, cur, Top)
    BY <1>1, <1>2, <1>6, <1>12, Zenon
  <2>2. Linked(T, h, heap', cur, Top, TRUE)  BY <1>6, <1>11, <2>1, LinkIs
  <2>3. cur # 0 /\ TRUE \in BOOLEAN  BY <1>12
  <2> QED  BY <1>10, <2>1, <2>2, <2>3
<1>13. CASE cur # 0 /\ heap[cur].child # 0
  <2> DEFINE l == LastChild(h, cur)
  <2>1. /\ cur \in 1..Len(h) /\ cur \in G1.edge /\ h[cur].next = 0
        /\ heap' = Behind(h, l, Top) /\ G1.home[cur] # Top
    BY <1>1, <1>2, <1>6, <1>13, Zenon
  <2>2. l \in 1..Len(h) /\ G1.home[l] = G1.home[cur] /\ l \in G1.edge /\ h[l].next = 0
    BY <1>6, <2>1, LastChildIs
  <2> HIDE DEF l
  <2>3. l # Top  BY <1>6, <2>1, <2>2
  <2>4. Linked(T, h, heap', l, Top, FALSE)  BY <1>6, <1>11, <2>1, <2>2, <2>3, LinkIs
  <2>5. cur # 0 /\ FALSE \in BOOLEAN  BY <1>13
  <2> QED  BY <1>10, <2>2, <2>3, <2>4, <2>5
<1> QED  BY <1>9, <1>12, <1>13

(* An operator's node comes above a node that has another one above it at  *)
(* most as its previous sibling.                                           *)
LEMMA OverKept ==
  ASSUME NEW T, made \in Seq(T), NEW G, Stands(T, G, heap, cur, idx, stack), There(Token), Token \in Signs,
         cur # 0, NEW G1, IsGrown(T, G, G1),
         NEW old \in 1..Len(Grown), old \in G1.edge, G1.home[old] = G1.home[cur], Grown[old].parent = 0,
         Over(Grown, old)
  PROVE  \E G2: Stands(T, G2, heap', cur', idx', stack')
<1> DEFINE h == Grown
           h2 == Insert(h, old, Top)
<1>1. heap' = h2 /\ cur' = Top /\ idx' = idx + 1 /\ stack' = stack  BY Zenon DEF Over, At
<1>2. idx \in 1..Len(made) /\ made[idx] = Token  BY TokenIs DEF Token
<1>3. Operands(<<Token>>) = << >>  BY SignsAre, Zenon
<1>4. /\ Forest(T, h, G1) /\ Len(h) = Top /\ Top \in 1..Len(h) /\ IsRoot(h, Top)
      /\ h[Top].child = 0 /\ h[Top].next = 0 /\ Word(h, Top) = << >> /\ G1.home[Top] = Top
      /\ stack \in Seq(Frames(h)) /\ Waiting(h, G1, stack) /\ Held(G1, stack) = Held(G, stack)
      /\ Clear(G1, stack, {Top}) /\ Clear(G1, stack, {G1.home[cur]}) /\ G1.home[cur] # Top
      /\ G1.text[G1.home[cur]] = Txt(G, cur)
  BY <1>3 DEF IsGrown
<1>5. /\ old \in 1..Len(h) /\ old \in G1.edge /\ G1.home[old] = G1.home[cur] /\ h[old].parent = 0
      /\ old # Top
  BY <1>4
<1> HIDE DEF h, h2
<1>6. h \in Seq(NodeOf(T)) /\ Len(h) \in Nat
  <2>1. h \in Seq(NodeOf(T))  BY <1>4 DEF Forest, Shaped
  <2> QED  BY <2>1, HeapIs
<1>7. Inserted(T, h, h2, old, Top)
  <2>1. h[old].prev # 0 => /\ h[old].prev \in 1..Len(h) /\ G1.rank[old] < G1.rank[h[old].prev]
                           /\ G1.home[h[old].prev] = G1.home[old]
    BY <1>4, <1>5, UpIs
  <2>2. G1.rank[old] \in Nat
    <3>1. G1.top \in Nat /\ G1.rank[old] \in 0..G1.top  BY <1>4, <1>5 DEF Forest, Shaped
    <3> QED  BY <3>1
  <2>3. h[old].prev # 0 => h[old].prev \in 1..Len(h) \ {old, Top}  BY <1>4, <1>5, <2>1, <2>2
  <2>4. h[Top].prev = 0  BY <1>4 DEF IsRoot
  <2>5. old \in 1..Len(h) /\ Top \in 1..Len(h) /\ old # Top  BY <1>4, <1>5
  <2> QED  BY <1>6, <2>3, <2>4, <2>5, InsertedIs DEF h2
<1>8. PICK G2: /\ Forest(T, h2, G2)
               /\ Elsewhere(h, G1, h2, G2, {G1.home[old], Top})
               /\ G2.home[Top] \in {G1.home[old], Top} /\ Top \in G2.edge
               /\ G2.text[G2.home[Top]] = G1.text[G1.home[old]]
  <2>1. G1.home[old] # Top  BY <1>4, <1>5
  <2>2. \E G2: StandsOver(T, h, G1, h2, G2, old, Top)  BY <1>4, <1>5, <1>7, <2>1, InsertedForest
  <2> QED  BY <2>2 DEF StandsOver
<1>9. Len(h2) = Len(h)  BY <1>7 DEF Inserted, Relinked
<1>10. /\ stack \in Seq(Frames(h2)) /\ Waiting(h2, G2, stack) /\ Held(G2, stack) = Held(G1, stack)
       /\ \A i \in 1..Len(stack): stack[i].cur # 0 => G2.home[stack[i].cur] = G1.home[stack[i].cur]
  <2>1. Clear(G1, stack, {G1.home[old], Top})  BY <1>4, <1>5 DEF Clear
  <2>2. Len(h) <= Len(h2)  BY <1>6, <1>9
  <2> QED  BY <1>4, <1>8, <2>1, <2>2, Settle
<1>11. Clear(G2, stack, {G2.home[Top]})  BY <1>4, <1>5, <1>8, <1>10 DEF Clear
<1>12. Top \in 0..Len(h2) /\ Top # 0  BY <1>4, <1>6, <1>9
<1>13. Held(G2, stack) \o Txt(G2, Top) = Operands(SubSeq(made, 1, idx - 1))
  <2>1. Txt(G2, Top) = Txt(G, cur)  BY <1>4, <1>5, <1>8, <1>12 DEF Txt
  <2>2. Held(G, stack) \o Txt(G, cur) = Operands(SubSeq(made, 1, idx - 1))  BY DEF Stands, AllKept
  <2> QED  BY <1>4, <1>10, <2>1, <2>2
<1>14. Stands(T, G2, h2, Top, idx + 1, stack)
  <2>1. idx \in 1..Len(made) + 1  BY <1>2
  <2>2. AllKept(T, G2, h2, Top, idx, stack)  BY <1>8, <1>10, <1>11, <1>12, <1>13, <2>1 DEF AllKept
  <2> QED  BY <1>2, <2>2, SignRead
<1> QED  BY <1>1, <1>14

(* A sign has been read and nothing else has changed, but that cur may     *)
(* have moved up its tree.                                                 *)
LEMMA StayKept ==
  ASSUME NEW T, made \in Seq(T), NEW G, Stands(T, G, heap, cur, idx, stack), There(Token), Token \in Signs,
         NEW c, c = cur \/ (cur # 0 /\ UpFrom(heap, G, cur, c))
  PROVE  Stands(T, G, heap, c, idx + 1, stack)
<1>1. idx \in 1..Len(made) /\ made[idx] = Token  BY TokenIs DEF Token
<1>2. /\ Forest(T, heap, G) /\ stack \in Seq(Frames(heap)) /\ Waiting(heap, G, stack) /\ cur \in 0..Len(heap)
      /\ cur # 0 => cur \in G.edge /\ Clear(G, stack, {G.home[cur]})
      /\ Held(G, stack) \o Txt(G, cur) = Operands(SubSeq(made, 1, idx - 1))
  BY DEF Stands, AllKept
<1>3. /\ c \in 0..Len(heap) /\ (c # 0 => c \in G.edge /\ Clear(G, stack, {G.home[c]}))
      /\ Txt(G, c) = Txt(G, cur)
  <2>1. CASE c = cur  BY <1>2, <2>1
  <2>2. CASE cur # 0 /\ UpFrom(heap, G, cur, c)
    <3>1. c \in 1..Len(heap) /\ G.home[c] = G.home[cur] /\ c \in G.edge  BY <1>2, <2>2 DEF UpFrom
    <3>2. Len(heap) \in Nat  BY <1>2, <3>1, HomeIs
    <3>3. c \in 0..Len(heap) /\ c # 0  BY <3>1, <3>2
    <3> QED  BY <1>2, <2>2, <3>1, <3>3 DEF Txt
  <2> QED  BY <2>1, <2>2
<1>4. Held(G, stack) \o Txt(G, c) = Operands(SubSeq(made, 1, idx - 1))  BY <1>2, <1>3
<1>5. AllKept(T, G, heap, c, idx, stack)
  <2>1. idx \in 1..Len(made) + 1  BY <1>1
  <2> QED  BY <1>2, <1>3, <1>4, <2>1 DEF AllKept
<1> QED  BY <1>1, <1>5, SignRead

LEMMA BelowKept ==
  ASSUME NEW T, made \in Seq(T), NEW G, Stands(T, G, heap, cur, idx, stack), There(Token), Token \in Signs,
         cur # 0, NEW G1, IsGrown(T, G, G1), NEW op, UpFrom(Grown, G1, cur, op),
         Grown[op].child # 0 => Grown[op].next = 0 /\ LastChild(Grown, op) # Grown[op].child,
         Below(Grown, op)
  PROVE  \E G2: Stands(T, G2, heap', cur', idx', stack')
<1>1. CASE Grown[op].child = 0
  <2>1. heap' = heap /\ cur' = cur /\ idx' = idx + 1 /\ stack' = stack  BY <1>1, Zenon DEF Below, At
  <2>2. Stands(T, G, heap, cur, idx + 1, stack)  BY StayKept
  <2> QED  BY <2>1, <2>2
<1>2. CASE Grown[op].child # 0
  <2> DEFINE h == Grown
             l == LastChild(h, op)
  <2>1. Over(h, l)  BY <1>2, Zenon DEF Below
  <2>2. Forest(T, h, G1) /\ cur \in G1.edge  BY DEF IsGrown
  <2>3. op \in 1..Len(h) /\ G1.home[op] = G1.home[cur] /\ op \in G1.edge  BY <2>2 DEF UpFrom
  <2>4. /\ l \in 1..Len(h) /\ G1.home[l] = G1.home[op] /\ l \in G1.edge /\ h[l].parent = 0
    <3> HIDE DEF h
    <3>1. h[op].next = 0 /\ l # h[op].child /\ h[op].child # 0  BY <1>2 DEF h
    <3> QED  BY <2>2, <2>3, <3>1, LastChildIs
  <2>5. l \in 1..Len(Grown) /\ G1.home[l] = G1.home[cur] /\ Grown[l].parent = 0 /\ Over(Grown, l)
    BY <2>1, <2>3, <2>4
  <2> HIDE DEF l, h
  <2> QED  BY <2>4, <2>5, OverKept
<1> QED  BY <1>1, <1>2

LEMMA PrecIs == \A t: Prec(t) \in Nat
<1>1. DOMAIN Levels = 1..14  BY DEF Levels
<1>2. DOMAIN Precedence = UNION {Levels[i]: i \in DOMAIN Levels}  BY DEF Precedence, Range
<1>3. ASSUME NEW t \in DOMAIN Precedence PROVE Precedence[t] \in 1..14
  <2>1. PICK i \in DOMAIN Levels: t \in Levels[i]  BY <1>2
  <2>2. Precedence[t] = CHOOSE j \in DOMAIN Levels: t \in Levels[j]  BY DEF Precedence
  <2> QED  BY <1>1, <2>1, <2>2
<1> QED  BY <1>3 DEF Prec

LEMMA OperatorsAre ==
  /\ \A t: IsOperator(t) => There(t) /\ t \in Signs
  /\ \A t: t \in Commutative => There(t) /\ t \in Signs /\ IsOperator(t) /\ t \notin {"(", ")"}
<1>1. DOMAIN Precedence = UNION {Levels[i]: i \in DOMAIN Levels}  BY DEF Precedence, Range
<1>2. ASSUME NEW t, t \in DOMAIN Precedence
      PROVE  t \in {"->", "%", "/", "*", "-", "+", "<", "<=", ">", ">=", "==", "!=", "&", "^", "|",
                    "&&", "||", "=", "+=", "-=", "&=", "|="}
  BY <1>1, <1>2 DEF Levels, Comparisons
<1>3. ASSUME NEW t, t \in DOMAIN Precedence PROVE There(t)  BY <1>2, <1>3, Zenon DEF There
<1>4. There("(") /\ There(")")  BY Zenon DEF There
<1>5. \A t: IsOperator(t) => There(t) /\ t \in Signs  BY <1>3, <1>4, SignsAre, Zenon DEF IsOperator
<1>6. \A t: t \in Commutative => t \in DOMAIN Precedence /\ t \notin {"(", ")"}
  <2>1. Commutative \subseteq DOMAIN Precedence  BY SignsAre, Zenon
  <2>2. \A t: t \in Commutative => t \notin {"(", ")"}  BY DEF Commutative
  <2> QED  BY <2>1, <2>2
<1> QED  BY <1>5, <1>6 DEF IsOperator

LEMMA CommutativeKept ==
  ASSUME NEW T, made \in Seq(T), NEW G, Stands(T, G, heap, cur, idx, stack), InPlace, CommutativeOperator
  PROVE  \E G2: Stands(T, G2, heap', cur', idx', stack')
<1> DEFINE h == Grown
           op == MostHighPrecedence(h, cur, Token)
<1>1. /\ Building /\ Token \in Commutative /\ cur # 0
      /\ IF heap[cur].name = Token THEN At(heap, cur, idx + 1, stack)
         ELSE IF ~IsTop(h, op) \/ Prec(h[op].name) < Prec(Token) THEN Over(h, op)
         ELSE IF Prec(h[op].name) = Prec(Token) THEN At(heap, Chained(cur), idx + 1, stack)
         ELSE Below(h, op)
  BY Zenon DEF CommutativeOperator
<1>2. There(Token) /\ Token \in Signs /\ IsOperator(Token) /\ Token \notin {"(", ")"}
  BY <1>1, OperatorsAre
<1>3. IsTop(h, op) /\ Prec(h[op].name) > Prec(Token) /\ h[op].child # 0 =>
        h[op].next = 0 /\ LastChild(h, op) # h[op].child
  BY <1>1, <1>2, Zenon DEF InPlace
<1>4. PICK G1: IsGrown(T, G, G1)  BY <1>2, GrownKept
<1>5. Forest(T, h, G1) /\ cur \in 1..Len(h) /\ cur \in G1.edge  BY <1>1, <1>4 DEF IsGrown
<1>6. UpFrom(h, G1, cur, op) /\ h[op].parent = 0
  <2> HIDE DEF h
  <2> QED  BY <1>5, MostHighPrecedenceIs
<1>7. Forest(T, heap, G) /\ cur \in 1..Len(heap)
  <2>1. Forest(T, heap, G) /\ cur \in 0..Len(heap)  BY DEF Stands, AllKept
  <2>2. heap \in Seq(NodeOf(T))  BY <2>1 DEF Forest, Shaped
  <2>3. Len(heap) \in Nat  BY <2>2, HeapIs
  <2> QED  BY <1>1, <2>1, <2>3
<1> HIDE DEF op
<1>8. ASSUME Over(h, op) PROVE \E G2: Stands(T, G2, heap', cur', idx', stack')
  <2>1. op \in 1..Len(h) /\ op \in G1.edge /\ G1.home[op] = G1.home[cur]  BY <1>5, <1>6 DEF UpFrom
  <2> QED  BY <1>1, <1>2, <1>4, <1>6, <1>8, <2>1, OverKept
<1>9. CASE heap[cur].name = Token
  <2>1. At(heap, cur, idx + 1, stack)  BY <1>1, <1>9
  <2>2. Stands(T, G, heap, cur, idx + 1, stack)  BY <1>2, StayKept
  <2> QED  BY <2>1, <2>2, Zenon DEF At
<1>10. CASE heap[cur].name # Token /\ (~IsTop(h, op) \/ Prec(h[op].name) < Prec(Token))
  BY <1>1, <1>8, <1>10
<1>11. CASE heap[cur].name # Token /\ ~(~IsTop(h, op) \/ Prec(h[op].name) < Prec(Token))
            /\ Prec(h[op].name) = Prec(Token)
  <2>1. At(heap, Chained(cur), idx + 1, stack)  BY <1>1, <1>11
  <2>2. UpFrom(heap, G, cur, Chained(cur))  BY <1>7, ChainedIs
  <2>3. Stands(T, G, heap, Chained(cur), idx + 1, stack)  BY <1>1, <1>2, <2>2, StayKept
  <2> QED  BY <2>1, <2>3, Zenon DEF At
<1>12. CASE heap[cur].name # Token /\ ~(~IsTop(h, op) \/ Prec(h[op].name) < Prec(Token))
            /\ Prec(h[op].name) # Prec(Token)
  <2>1. Below(h, op) /\ IsTop(h, op)  BY <1>1, <1>12
  <2>2. Prec(h[op].name) > Prec(Token)
    <3>1. Prec(h[op].name) \in Nat /\ Prec(Token) \in Nat  BY PrecIs
    <3> HIDE DEF h
    <3> QED  BY <1>12, <3>1
  <2>3. h[op].child # 0 => h[op].next = 0 /\ LastChild(h, op) # h[op].child
    BY <1>3, <2>1, <2>2 DEF op
  <2> QED  BY <1>1, <1>2, <1>4, <1>6, <2>1, <2>3, BelowKept
<1> QED  BY <1>9, <1>10, <1>11, <1>12

LEMMA OtherKept ==
  ASSUME NEW T, made \in Seq(T), NEW G, Stands(T, G, heap, cur, idx, stack), InPlace, OtherOperator
  PROVE  \E G2: Stands(T, G2, heap', cur', idx', stack')
<1> DEFINE h == Grown
           op == MostHighPrecedence(h, cur, Token)
           over == \/ h[op].parentheses > Len(stack) \/ ~IsTop(h, op)
                   \/ Prec(h[op].name) <= Prec(Token)
<1>1. /\ Building /\ IsOperator(Token) /\ Token \notin {"(", ")"}
      /\ IF cur = 0 THEN At(h, Top, idx + 1, stack)
         ELSE IF over THEN Over(h, op)
         ELSE Below(h, op)
  BY Zenon DEF OtherOperator
<1>2. There(Token) /\ Token \in Signs  BY <1>1, OperatorsAre
<1>3. cur # 0 /\ IsTop(h, op) /\ Prec(h[op].name) > Prec(Token) /\ h[op].child # 0 =>
        h[op].next = 0 /\ LastChild(h, op) # h[op].child
  BY <1>1, <1>2, Zenon DEF InPlace
<1>4. PICK G1: IsGrown(T, G, G1)  BY <1>2, GrownKept
<1>5. CASE cur = 0
  <2>1. heap' = h /\ cur' = Top /\ idx' = idx + 1 /\ stack' = stack  BY <1>1, <1>5, Zenon DEF At
  <2> HIDE DEF h
  <2>2. idx \in 1..Len(made) /\ made[idx] = Token  BY <1>2, TokenIs DEF Token
  <2>3. Operands(<<Token>>) = << >>  BY <1>2, SignsAre, Zenon
  <2>4. /\ Forest(T, h, G1) /\ Len(h) = Top /\ Top \in 1..Len(h) /\ G1.home[Top] = Top /\ Top \in G1.edge
        /\ G1.text[Top] = << >> /\ stack \in Seq(Frames(h)) /\ Waiting(h, G1, stack)
        /\ Held(G1, stack) = Held(G, stack) /\ Clear(G1, stack, {Top})
    BY <1>4, <2>3 DEF IsGrown, h
  <2>5. Top \in 0..Len(h) /\ Top # 0
    <3>1. Len(h) \in Nat  BY <2>4, HomeIs
    <3> QED  BY <2>4, <3>1
  <2>6. Held(G1, stack) \o Txt(G1, Top) = Operands(SubSeq(made, 1, idx - 1))
    <3>1. Txt(G1, Top) = << >> /\ Txt(G, cur) = << >>  BY <1>5, <2>4, <2>5 DEF Txt
    <3>2. Held(G, stack) \o Txt(G, cur) = Operands(SubSeq(made, 1, idx - 1))  BY DEF Stands, AllKept
    <3> QED  BY <2>4, <3>1, <3>2
  <2>7. Clear(G1, stack, {G1.home[Top]})  BY <2>4
  <2>8. Stands(T, G1, h, Top, idx + 1, stack)
    <3>1. idx \in 1..Len(made) + 1  BY <2>2
    <3>2. AllKept(T, G1, h, Top, idx, stack)  BY <2>4, <2>5, <2>6, <2>7, <3>1 DEF AllKept
    <3> QED  BY <1>2, <2>2, <3>2, SignRead
  <2> QED  BY <2>1, <2>8
<1>6. CASE cur # 0
  <2>1. Forest(T, h, G1) /\ cur \in 1..Len(h) /\ cur \in G1.edge  BY <1>4, <1>6 DEF IsGrown
  <2>2. UpFrom(h, G1, cur, op) /\ h[op].parent = 0
    <3> HIDE DEF h
    <3> QED  BY <2>1, MostHighPrecedenceIs
  <2> HIDE DEF op
  <2>3. CASE over
    <3>1. Over(h, op)  BY <1>1, <1>6, <2>3
    <3>2. op \in 1..Len(h) /\ op \in G1.edge /\ G1.home[op] = G1.home[cur]  BY <2>1, <2>2 DEF UpFrom
    <3> QED  BY <1>2, <1>4, <1>6, <2>2, <3>1, <3>2, OverKept
  <2>4. CASE ~over
    <3>1. Below(h, op) /\ IsTop(h, op) /\ ~(Prec(h[op].name) <= Prec(Token))  BY <1>1, <1>6, <2>4
    <3>2. Prec(h[op].name) > Prec(Token)
      <4>1. Prec(h[op].name) \in Nat /\ Prec(Token) \in Nat  BY PrecIs
      <4> HIDE DEF h
      <4> QED  BY <3>1, <4>1
    <3>3. h[op].child # 0 => h[op].next = 0 /\ LastChild(h, op) # h[op].child
      BY <1>3, <1>6, <3>1, <3>2 DEF op
    <3> QED  BY <1>2, <1>4, <1>6, <2>2, <3>1, <3>3, BelowKept
  <2> QED  BY <2>3, <2>4
<1> QED  BY <1>5, <1>6

(* A call begins and cur becomes a waiting one. *)
LEMMA FramePushed ==
  ASSUME NEW T, made \in Seq(T), NEW G, NEW h, NEW c, NEW i, NEW st, AllKept(T, G, h, c, i, st),
         i \in 1..Len(made), made[i] \in Signs, NEW e \in BOOLEAN,
         NEW k \in {"call", "group"}, k = "call" => c # 0 /\ (e => h[c].child = 0)
  PROVE  Stands(T, G, h, 0, i + 1, <<Frame(k, c, e)>> \o st)
<1> DEFINE f == Frame(k, c, e)
           s == <<f>> \o st
<1>1. /\ Forest(T, h, G) /\ st \in Seq(Frames(h)) /\ Waiting(h, G, st) /\ c \in 0..Len(h)
      /\ c # 0 => c \in G.edge /\ Clear(G, st, {G.home[c]})
      /\ Held(G, st) \o Txt(G, c) = Operands(SubSeq(made, 1, i - 1))
  BY DEF AllKept
<1>2. f \in Frames(h) /\ f.cur = c /\ f.kind = k /\ f.empty = e  BY <1>1 DEF Frame, Frames
<1> HIDE DEF f
<1>3. /\ s \in Seq(Frames(h)) /\ Len(s) = Len(st) + 1 /\ s[1] = f
      /\ \A m \in 1..Len(st): s[m + 1] = st[m]
      /\ Held(G, s) = Held(G, st) \o Txt(G, c)
  <2>1. Pushed(h, G, st, f, s)  BY <1>1, <1>2, HeldPush
  <2> HIDE DEF s
  <2> QED  BY <1>2, <2>1 DEF Pushed
<1> HIDE DEF s
<1>4. Len(st) \in Nat /\ \A m \in 1..Len(s): m = 1 \/ (m - 1 \in 1..Len(st) /\ s[m] = st[m - 1])
  <2>1. Len(st) \in Nat  BY <1>1
  <2>2. \A m \in 1..Len(s): m = 1 \/ (m - 1 \in 1..Len(st) /\ m - 1 + 1 = m)  BY <1>3, <2>1
  <2> QED  BY <1>3, <2>1, <2>2
<1>5. Waiting(h, G, s)
  <2>1. ASSUME NEW m \in 1..Len(s)
        PROVE  /\ s[m].cur # 0 => s[m].cur \in G.edge
               /\ s[m].kind = "call" => s[m].cur # 0 /\ (s[m].empty => h[s[m].cur].child = 0)
    <3>1. CASE m = 1  BY <1>1, <1>2, <1>3, <3>1
    <3>2. CASE m # 1
      <4>1. m - 1 \in 1..Len(st) /\ s[m] = st[m - 1]  BY <1>4, <3>2
      <4> QED  BY <1>1, <4>1 DEF Waiting
    <3> QED  BY <3>1, <3>2
  <2>2. ASSUME NEW m \in 1..Len(s), NEW n \in 1..Len(s), m # n, s[m].cur # 0, s[n].cur # 0
        PROVE  G.home[s[m].cur] # G.home[s[n].cur]
    <3>1. CASE m = 1
      <4>1. n - 1 \in 1..Len(st) /\ s[n] = st[n - 1] /\ s[m].cur = c  BY <1>2, <1>3, <1>4, <2>2, <3>1
      <4> QED  BY <1>1, <2>2, <4>1 DEF Clear
    <3>2. CASE n = 1
      <4>1. m - 1 \in 1..Len(st) /\ s[m] = st[m - 1] /\ s[n].cur = c  BY <1>2, <1>3, <1>4, <2>2, <3>2
      <4> QED  BY <1>1, <2>2, <4>1 DEF Clear
    <3>3. CASE m # 1 /\ n # 1
      <4>1. /\ m - 1 \in 1..Len(st) /\ s[m] = st[m - 1]
            /\ n - 1 \in 1..Len(st) /\ s[n] = st[n - 1] /\ m - 1 # n - 1
        BY <1>4, <2>2, <3>3
      <4> QED  BY <1>1, <2>2, <4>1 DEF Waiting
    <3> QED  BY <3>1, <3>2, <3>3
  <2> QED  BY <2>1, <2>2 DEF Waiting
<1>6. Held(G, s) \o Txt(G, 0) = Operands(SubSeq(made, 1, i - 1))
  <2>1. Txt(G, 0) = << >>  BY DEF Txt
  <2>2. Held(G, s) \in Seq(T)  BY <1>1, <1>3, HeldIs
  <2>3. Held(G, s) \o << >> = Held(G, s)  BY <2>2, ConcatEmptySeq
  <2> QED  BY <1>1, <1>3, <2>1, <2>3
<1>7. 0 \in 0..Len(h)
  <2>1. h \in Seq(NodeOf(T))  BY <1>1 DEF Forest, Shaped
  <2> QED  BY <2>1, HeapIs
<1>8. i \in 1..Len(made) + 1  OBVIOUS
<1>9. AllKept(T, G, h, 0, i, s)  BY <1>1, <1>3, <1>5, <1>6, <1>7, <1>8 DEF AllKept
<1>10. Stands(T, G, h, 0, i + 1, s)  BY <1>9, SignRead
<1> QED  BY <1>10 DEF f, s

(* The innermost call ends. *)
Popped(h, G, st, f, left) ==
  /\ f \in Frames(h) /\ left \in Seq(Frames(h)) /\ Waiting(h, G, left)
  /\ Held(G, st) = Held(G, left) \o Txt(G, f.cur)
  /\ f.cur # 0 => f.cur \in G.edge /\ Clear(G, left, {G.home[f.cur]})
  /\ f.kind = "call" => f.cur # 0 /\ (f.empty => h[f.cur].child = 0)
  /\ \A K: Clear(G, st, K) => Clear(G, left, K) /\ (f.cur # 0 => G.home[f.cur] \notin K)

LEMMA FramePopped ==
  ASSUME NEW T, NEW h, NEW G, Forest(T, h, G), NEW st \in Seq(Frames(h)), st # << >>, Waiting(h, G, st)
  PROVE  Popped(h, G, st, Head(st), Tail(st))
<1> DEFINE f == Head(st)
           s == Tail(st)
<1>1. /\ f \in Frames(h) /\ s \in Seq(Frames(h)) /\ Len(s) = Len(st) - 1 /\ Len(st) \in Nat
      /\ f = st[1] /\ \A m \in 1..Len(s): s[m] = st[m + 1]
      /\ st = <<f>> \o s
  <2>1. Len(st) \in Nat \ {0}  OBVIOUS
  <2>2. f \in Frames(h) /\ s \in Seq(Frames(h)) /\ Len(s) = Len(st) - 1 /\ f = st[1]
        /\ \A m \in 1..Len(s): s[m] = st[m + 1]
    OBVIOUS
  <2> HIDE DEF f, s
  <2>3. <<f>> \in Seq(Frames(h)) /\ Len(<<f>>) = 1 /\ <<f>>[1] = f  BY <2>2
  <2> DEFINE r == <<f>> \o s
  <2>4. /\ r \in Seq(Frames(h)) /\ Len(r) = 1 + Len(s)
        /\ \A m \in 1..1: r[m] = <<f>>[m]
        /\ \A m \in 1..Len(s): r[1 + m] = s[m]
    <3> DEFINE a == <<f>>
    <3>1. a \in Seq(Frames(h)) /\ Len(a) = 1  BY <2>3
    <3> HIDE DEF a
    <3>2. /\ a \o s \in Seq(Frames(h)) /\ Len(a \o s) = 1 + Len(s)
          /\ \A m \in 1..1: (a \o s)[m] = a[m]
          /\ \A m \in 1..Len(s): (a \o s)[1 + m] = s[m]
      BY <2>2, <3>1, ConcatParts, SMTT(60)
    <3> QED  BY <3>2 DEF a
  <2> HIDE DEF r
  <2>5. Len(r) = Len(st) /\ \A m \in 1..Len(st): r[m] = st[m]
    <3>1. Len(r) = Len(st)  BY <2>1, <2>2, <2>4
    <3>2. r[1] = st[1]  BY <2>2, <2>3, <2>4
    <3>3. \A m \in 1..Len(st): m = 1 \/ (m - 1 \in 1..Len(s) /\ 1 + (m - 1) = m /\ m - 1 + 1 = m)
      BY <2>1, <2>2
    <3>4. ASSUME NEW m \in 1..Len(st), m # 1 PROVE r[m] = st[m]
      <4> DEFINE k == m - 1
      <4>1. k \in 1..Len(s) /\ 1 + k = m /\ k + 1 = m  BY <3>3, <3>4
      <4> HIDE DEF k
      <4>2. r[1 + k] = s[k] /\ s[k] = st[k + 1]  BY <2>2, <2>4, <4>1
      <4> QED  BY <4>1, <4>2
    <3> QED  BY <3>1, <3>2, <3>4
  <2>6. r = st  BY <2>4, <2>5, SeqEqual
  <2> QED  BY <2>1, <2>2, <2>6 DEF r
<1> HIDE DEF f, s
<1>2. 1 \in 1..Len(st) /\ \A m \in 1..Len(s): m + 1 \in 1..Len(st) /\ m + 1 # 1
  <2>1. Len(st) # 0  OBVIOUS
  <2> QED  BY <1>1, <2>1
<1>3. Held(G, st) = Held(G, s) \o Txt(G, f.cur)
  <2>1. Pushed(h, G, s, f, st)  BY <1>1, HeldPush
  <2> QED  BY <2>1 DEF Pushed
<1>4. Waiting(h, G, s)
  <2>1. \A m \in 1..Len(s):
          /\ s[m].cur # 0 => s[m].cur \in G.edge
          /\ s[m].kind = "call" => s[m].cur # 0 /\ (s[m].empty => h[s[m].cur].child = 0)
    <3> SUFFICES ASSUME NEW m \in 1..Len(s)
                 PROVE  /\ s[m].cur # 0 => s[m].cur \in G.edge
                        /\ s[m].kind = "call" => s[m].cur # 0 /\ (s[m].empty => h[s[m].cur].child = 0)
      OBVIOUS
    <3> DEFINE k == m + 1
    <3>1. k \in 1..Len(st) /\ s[m] = st[k]  BY <1>1, <1>2
    <3> HIDE DEF k
    <3> QED  BY <3>1 DEF Waiting
  <2>2. ASSUME NEW m \in 1..Len(s), NEW n \in 1..Len(s), m # n, s[m].cur # 0, s[n].cur # 0
        PROVE  G.home[s[m].cur] # G.home[s[n].cur]
    <3> DEFINE j == m + 1
               k == n + 1
    <3>1. j \in 1..Len(st) /\ k \in 1..Len(st) /\ s[m] = st[j] /\ s[n] = st[k]  BY <1>1, <1>2
    <3>2. j # k  BY <2>2
    <3> HIDE DEF j, k
    <3> QED  BY <2>2, <3>1, <3>2 DEF Waiting
  <2> QED  BY <2>1, <2>2 DEF Waiting
<1>5. \A K: Clear(G, st, K) => Clear(G, s, K) /\ (f.cur # 0 => G.home[f.cur] \notin K)
  BY <1>1, <1>2 DEF Clear
<1>6. /\ f.cur # 0 => f.cur \in G.edge
      /\ f.kind = "call" => f.cur # 0 /\ (f.empty => h[f.cur].child = 0)
  BY <1>1, <1>2 DEF Waiting
<1>7. f.cur # 0 => Clear(G, s, {G.home[f.cur]})
  <2> SUFFICES ASSUME f.cur # 0, NEW m \in 1..Len(s), s[m].cur # 0 PROVE G.home[s[m].cur] # G.home[f.cur]
    BY DEF Clear
  <2> QED  BY <1>1, <1>2 DEF Waiting
<1>8. Popped(h, G, st, f, s)  BY <1>1, <1>3, <1>4, <1>5, <1>6, <1>7 DEF Popped
<1> QED  BY <1>8 DEF f, s

(* The next token is skipped. *)
LEMMA SignSkipped ==
  ASSUME NEW T, made \in Seq(T), NEW G, NEW h, NEW c, NEW i \in Nat, NEW st, Stands(T, G, h, c, i + 1, st),
         TokenAt(i + 1) = ")"
  PROVE  Stands(T, G, h, c, i + 2, st)
<1> DEFINE j == i + 1
<1>1. j + 1 = i + 2 /\ TokenAt(j) = ")"  OBVIOUS
<1>2. AllKept(T, G, h, c, j, st)  BY DEF Stands
<1> HIDE DEF j
<1>3. IsOperator(")")  BY DEF IsOperator
<1>4. There(TokenAt(j)) /\ TokenAt(j) \in Signs  BY <1>1, <1>3, OperatorsAre
<1>5. j \in 1..Len(made) /\ made[j] \in Signs  BY <1>4, TokenIs
<1>6. Stands(T, G, h, c, j + 1, st)  BY <1>2, <1>5, SignRead
<1> QED  BY <1>1, <1>6

LEMMA BracketsAre == There("(") /\ "(" \in Signs /\ There(")") /\ ")" \in Signs /\ There(",") /\ "," \in Signs
<1>1. There("(") /\ There(")") /\ There(",")  BY Zenon DEF There
<1>2. "(" \in Signs /\ ")" \in Signs /\ "," \in Signs  BY DEF Signs
<1> QED  BY <1>1, <1>2, Zenon

LEMMA OpenCallKept ==
  ASSUME NEW T, made \in Seq(T), NEW G, Stands(T, G, heap, cur, idx, stack), OpenCall
  PROVE  \E G2: Stands(T, G2, heap', cur', idx', stack')
<1>1. /\ Token = "(" /\ idx > 1 /\ ~IsOperator(TokenAt(idx - 1)) /\ TokenAt(idx - 1) # ","
      /\ IF TokenAt(idx + 1) = ")" THEN At(heap, cur, idx + 2, stack)
         ELSE At(heap, 0, idx + 1, <<Frame("call", cur, TRUE)>> \o stack)
  BY Zenon DEF OpenCall, OpensCall
<1>2. There(Token) /\ Token \in Signs  BY <1>1, BracketsAre, Zenon
<1>3. idx \in 1..Len(made) /\ made[idx] \in Signs  BY <1>2, TokenIs DEF Token
<1>4. Len(made) \in Nat /\ idx \in Nat  BY <1>3
<1>5. made[idx - 1] \notin Signs
  <2>1. idx - 1 \in DOMAIN made
    <3>1. idx > 1  BY <1>1, Zenon
    <3>2. DOMAIN made = 1..Len(made)  OBVIOUS
    <3> QED  BY <1>3, <1>4, <3>1, <3>2
  <2>2. TokenAt(idx - 1) = made[idx - 1]  BY <2>1, Zenon DEF TokenAt
  <2>3. TokenAt(idx - 1) \notin Signs  BY <1>1, SignsAre, Zenon
  <2> QED  BY <2>2, <2>3
<1>6. cur # 0 /\ heap[cur].child = 0  BY <1>1, <1>5, Zenon DEF Stands
<1>7. CASE TokenAt(idx + 1) = ")"
  <2>1. heap' = heap /\ cur' = cur /\ idx' = idx + 2 /\ stack' = stack  BY <1>1, <1>7, Zenon DEF At
  <2>2. Stands(T, G, heap, cur, idx + 1, stack)  BY <1>2, StayKept
  <2>3. Stands(T, G, heap, cur, idx + 2, stack)  BY <1>4, <1>7, <2>2, SignSkipped
  <2> QED  BY <2>1, <2>3
<1>8. CASE TokenAt(idx + 1) # ")"
  <2>1. heap' = heap /\ cur' = 0 /\ idx' = idx + 1 /\ stack' = <<Frame("call", cur, TRUE)>> \o stack
    BY <1>1, <1>8, Zenon DEF At
  <2>2. AllKept(T, G, heap, cur, idx, stack)  BY DEF Stands
  <2>3. TRUE \in BOOLEAN /\ "call" \in {"call", "group"}  OBVIOUS
  <2>4. Stands(T, G, heap, 0, idx + 1, <<Frame("call", cur, TRUE)>> \o stack)
    BY <1>3, <1>6, <2>2, <2>3, FramePushed
  <2> QED  BY <2>1, <2>4
<1> QED  BY <1>7, <1>8

LEMMA OpenGroupKept ==
  ASSUME NEW T, made \in Seq(T), NEW G, Stands(T, G, heap, cur, idx, stack), OpenGroup
  PROVE  \E G2: Stands(T, G2, heap', cur', idx', stack')
<1>1. Token = "(" /\ At(heap, 0, idx + 1, <<Frame("group", cur, TRUE)>> \o stack)  BY Zenon DEF OpenGroup
<1>2. There(Token) /\ Token \in Signs  BY <1>1, BracketsAre, Zenon
<1>3. idx \in 1..Len(made) /\ made[idx] \in Signs  BY <1>2, TokenIs DEF Token
<1>4. heap' = heap /\ cur' = 0 /\ idx' = idx + 1 /\ stack' = <<Frame("group", cur, TRUE)>> \o stack
  BY <1>1, Zenon DEF At
<1>5. AllKept(T, G, heap, cur, idx, stack)  BY DEF Stands
<1>6. TRUE \in BOOLEAN /\ "group" \in {"call", "group"} /\ "group" # "call"  OBVIOUS
<1>7. Stands(T, G, heap, 0, idx + 1, <<Frame("group", cur, TRUE)>> \o stack)
  BY <1>3, <1>5, <1>6, FramePushed
<1> QED  BY <1>4, <1>7

(* The tree of l and then that of r are the end of what has been read. *)
ReadBefore(G, st, l, r, i) ==
  (Held(G, st) \o G.text[G.home[l]]) \o G.text[r] = Operands(SubSeq(made, 1, i - 1))

(* The tree of an inner call comes to stand behind, or below, that of the  *)
(* call that waited for it.                                                *)
LEMMA TreeReturned ==
  ASSUME NEW T, made \in Seq(T), NEW G, NEW h, Forest(T, h, G),
         NEW st \in Seq(Frames(h)), Waiting(h, G, st),
         NEW l \in 1..Len(h), l \in G.edge, h[l].next = 0, Clear(G, st, {G.home[l]}),
         NEW r \in 1..Len(h), IsRoot(h, r), Clear(G, st, {r}), G.home[l] # r,
         NEW h2, NEW below \in BOOLEAN, Linked(T, h, h2, l, r, below), below => h[l].child = 0,
         NEW i \in 1..Len(made) + 1,
         ReadBefore(G, st, l, r, i), NEW c \in {l, r}
  PROVE  \E G2: AllKept(T, G2, h2, c, i, st)
<1>1. PICK G2: Adjoins(T, h, G, st, h2, G2, l, r)  BY LinkKept
<1>2. /\ Forest(T, h2, G2) /\ Len(h2) = Len(h)
      /\ st \in Seq(Frames(h2)) /\ Waiting(h2, G2, st) /\ Held(G2, st) = Held(G, st)
      /\ Clear(G2, st, {G2.home[l]}) /\ G2.home[r] = G2.home[l]
      /\ l \in G2.edge /\ r \in G2.edge
  BY <1>1, Zenon DEF Adjoins
<1>3. Len(h) \in Nat /\ c # 0 /\ c \in 0..Len(h2)
  <2>1. Len(h) \in Nat  BY HomeIs
  <2>2. c \in 1..Len(h) /\ Len(h2) = Len(h)  BY <1>2
  <2> QED  BY <2>1, <2>2
<1>4. G2.home[c] = G2.home[l] /\ c \in G2.edge  BY <1>2
<1>5. Held(G2, st) \o Txt(G2, c) = Operands(SubSeq(made, 1, i - 1))
  <2>0. Txt(G2, c) = G2.text[G2.home[l]]  BY <1>3, <1>4 DEF Txt
  <2>1. Txt(G2, c) = G.text[G.home[l]] \o G.text[r]  BY <1>1, <2>0, Zenon DEF Adjoins
  <2>2. Held(G, st) \in Seq(T) /\ G.text[G.home[l]] \in Seq(T) /\ G.text[r] \in Seq(T)  BY HeldIs, NodeTextIs
  <2>3. (Held(G, st) \o G.text[G.home[l]]) \o G.text[r] = Held(G, st) \o (G.text[G.home[l]] \o G.text[r])
    <3> DEFINE x == Held(G, st)
               y == G.text[G.home[l]]
               z == G.text[r]
    <3>1. x \in Seq(T) /\ y \in Seq(T) /\ z \in Seq(T)  BY <2>2
    <3> HIDE DEF x, y, z
    <3>2. Associates(T)  BY Reassociate
    <3>3. (x \o y) \o z = x \o (y \o z)  BY <3>1, <3>2, ZenonT(60) DEF Associates
    <3> QED  BY <3>3, Zenon DEF x, y, z
  <2> QED  BY <1>2, <2>1, <2>3, Zenon DEF ReadBefore
<1>6. Clear(G2, st, {G2.home[c]})  BY <1>2, <1>4, Zenon
<1>7. AllKept(T, G2, h2, c, i, st)  BY <1>2, <1>3, <1>4, <1>5, <1>6, Zenon DEF AllKept
<1> QED  BY <1>7

(* An inner call that returns has a token to return at. *)
Returned(T, G, f, st) ==
  /\ There(Token) /\ Token \in Signs /\ idx \in 1..Len(made) /\ made[idx] \in Signs
  /\ Forest(T, heap, G) /\ Len(heap) \in Nat /\ Popped(heap, G, stack, f, st)
  /\ f.cur \in 0..Len(heap) /\ cur \in 0..Len(heap)
  /\ f.cur # 0 => heap[f.cur].next = 0
  /\ RootOf(heap, cur) = IF cur = 0 THEN 0 ELSE G.home[cur]
  /\ cur # 0 => /\ G.home[cur] # 0 /\ G.home[cur] \in 1..Len(heap) /\ IsRoot(heap, G.home[cur])
                /\ G.home[G.home[cur]] = G.home[cur] /\ G.home[cur] \in G.edge
                /\ Clear(G, st, {G.home[cur]}) /\ (f.cur # 0 => G.home[f.cur] # G.home[cur])
  /\ Held(G, st) \in Seq(T) /\ Txt(G, f.cur) \in Seq(T) /\ Txt(G, cur) \in Seq(T)
  /\ (Held(G, st) \o Txt(G, f.cur)) \o Txt(G, cur) = Operands(SubSeq(made, 1, idx - 1))

LEMMA ReturnIs ==
  ASSUME NEW T, made \in Seq(T), NEW G, Stands(T, G, heap, cur, idx, stack), InPlace,
         Returning, There(Token), stack # << >>
  PROVE  Returned(T, G, Head(stack), Tail(stack))
<1> DEFINE f == Head(stack)
           st == Tail(stack)
<1>1. /\ Forest(T, heap, G) /\ stack \in Seq(Frames(heap)) /\ Waiting(heap, G, stack) /\ cur \in 0..Len(heap)
      /\ cur # 0 => cur \in G.edge /\ Clear(G, stack, {G.home[cur]})
      /\ Held(G, stack) \o Txt(G, cur) = Operands(SubSeq(made, 1, idx - 1))
  BY DEF Stands, AllKept
<1>2. There(Token) /\ (f.cur # 0 => heap[f.cur].next = 0)  BY Zenon DEF InPlace, IsLast
<1>3. Token \in Signs
  <2>1. \A t: There(t) /\ t \in {"", ")", ","} => t \in {")", ","}  BY Zenon DEF There
  <2>2. Token \in {")", ","}  BY <1>2, <2>1, Zenon DEF Returning
  <2> QED  BY <2>2, BracketsAre, Zenon
<1>4. idx \in 1..Len(made) /\ made[idx] \in Signs  BY <1>2, <1>3, TokenIs DEF Token
<1>5. Popped(heap, G, stack, f, st)  BY <1>1, FramePopped
<1> HIDE DEF f, st
<1>6. Len(heap) \in Nat
  <2>1. heap \in Seq(NodeOf(T))  BY <1>1 DEF Forest, Shaped
  <2> QED  BY <2>1, HeapIs
<1>7. f \in Frames(heap) /\ st \in Seq(Frames(heap)) /\ Held(G, stack) = Held(G, st) \o Txt(G, f.cur)
  BY <1>5 DEF Popped
<1>8. f.cur \in 0..Len(heap)  BY <1>7 DEF Frames
<1>9. Held(G, st) \in Seq(T) /\ Txt(G, f.cur) \in Seq(T) /\ Txt(G, cur) \in Seq(T)
  BY <1>1, <1>7, <1>8, HeldIs, TxtIs
<1>10. ASSUME cur # 0
       PROVE  /\ RootOf(heap, cur) = G.home[cur]
              /\ G.home[cur] # 0 /\ G.home[cur] \in 1..Len(heap) /\ IsRoot(heap, G.home[cur])
              /\ G.home[G.home[cur]] = G.home[cur] /\ G.home[cur] \in G.edge
              /\ Clear(G, st, {G.home[cur]}) /\ (f.cur # 0 => G.home[f.cur] # G.home[cur])
  <2>1. cur \in 1..Len(heap)  BY <1>1, <1>6, <1>10
  <2>2. RootOf(heap, cur) = G.home[cur]  BY <1>1, <2>1, RootOfIs
  <2>3. /\ G.home[cur] # 0 /\ G.home[cur] \in 1..Len(heap) /\ IsRoot(heap, G.home[cur])
        /\ G.home[G.home[cur]] = G.home[cur] /\ G.home[cur] \in G.edge
    BY <1>1, <2>1, HomeIs
  <2>4. Clear(G, st, {G.home[cur]}) /\ (f.cur # 0 => G.home[f.cur] \notin {G.home[cur]})
    BY <1>1, <1>5, <1>10 DEF Popped
  <2> QED  BY <2>2, <2>3, <2>4
<1>11. RootOf(heap, cur) = IF cur = 0 THEN 0 ELSE G.home[cur]
  <2>1. cur = 0 => RootOf(heap, cur) = 0  BY DEF RootOf
  <2> QED  BY <1>10, <2>1
<1>12. (Held(G, st) \o Txt(G, f.cur)) \o Txt(G, cur) = Operands(SubSeq(made, 1, idx - 1))  BY <1>1, <1>7
<1>13. Returned(T, G, f, st)
  BY <1>1, <1>2, <1>3, <1>4, <1>5, <1>6, <1>8, <1>9, <1>10, <1>11, <1>12 DEF Returned
<1> QED  BY <1>13 DEF f, st

(* An argument stands below or behind what waited for it, if there is one. *)
LEMMA ArgumentKept ==
  ASSUME NEW T, made \in Seq(T), NEW G, NEW f, NEW st, Returned(T, G, f, st), f.kind = "call",
         NEW new, new = RootOf(heap, cur),
         NEW h, h = IF new = 0 THEN heap
                    ELSE IF f.empty THEN Child(heap, f.cur, new) ELSE Behind(heap, f.cur, new),
         NEW c, c = IF new = 0 THEN f.cur ELSE new
  PROVE  \E G2: AllKept(T, G2, h, c, idx, st) /\ c # 0 /\ (f.empty /\ new = 0 => h[c].child = 0)
<1> DEFINE l == f.cur
<1>1. /\ idx \in 1..Len(made) /\ Forest(T, heap, G) /\ Len(heap) \in Nat
      /\ l \in 0..Len(heap) /\ cur \in 0..Len(heap)
      /\ Held(G, st) \in Seq(T) /\ Txt(G, l) \in Seq(T) /\ Txt(G, cur) \in Seq(T)
      /\ (Held(G, st) \o Txt(G, l)) \o Txt(G, cur) = Operands(SubSeq(made, 1, idx - 1))
  BY DEF Returned
<1>2. /\ f \in Frames(heap) /\ st \in Seq(Frames(heap)) /\ Waiting(heap, G, st)
      /\ l # 0 => l \in G.edge /\ Clear(G, st, {G.home[l]})
      /\ l # 0 /\ (f.empty => heap[l].child = 0)
  BY DEF Returned, Popped
<1>3. heap[l].next = 0 /\ f.empty \in BOOLEAN  BY <1>2 DEF Returned, Frames
<1>4. new = IF cur = 0 THEN 0 ELSE G.home[cur]  BY DEF Returned
<1>5. cur # 0 => /\ G.home[cur] # 0 /\ G.home[cur] \in 1..Len(heap) /\ IsRoot(heap, G.home[cur])
                 /\ Clear(G, st, {G.home[cur]}) /\ G.home[l] # G.home[cur]
  BY <1>2 DEF Returned
<1> HIDE DEF l
<1>6. idx \in 1..Len(made) + 1 /\ l \in 1..Len(heap)  BY <1>1, <1>2
<1>7. CASE cur = 0
  <2>1. h = heap /\ c = l /\ new = 0  BY <1>4, <1>7 DEF l
  <2>2. Held(G, st) \o Txt(G, l) = Operands(SubSeq(made, 1, idx - 1))
    <3> DEFINE x == Held(G, st)
               y == Txt(G, l)
    <3>1. x \in Seq(T) /\ y \in Seq(T) /\ Txt(G, cur) = << >>  BY <1>1, <1>7 DEF Txt
    <3>2. (x \o y) \o Txt(G, cur) = Operands(SubSeq(made, 1, idx - 1))  BY <1>1
    <3> HIDE DEF x, y
    <3>3. x \o y \in Seq(T)  BY <3>1, ConcatProperties
    <3>4. (x \o y) \o << >> = x \o y  BY <3>3, ConcatEmptySeq
    <3>5. x \o y = Operands(SubSeq(made, 1, idx - 1))  BY <3>1, <3>2, <3>4
    <3> QED  BY <3>5 DEF x, y
  <2>3. AllKept(T, G, heap, l, idx, st)  BY <1>1, <1>2, <1>6, <2>2 DEF AllKept
  <2>4. f.empty => heap[l].child = 0  BY <1>2 DEF l
  <2> QED  BY <1>2, <2>1, <2>3, <2>4
<1>8. CASE cur # 0
  <2>1. /\ new = G.home[cur] /\ new # 0 /\ new \in 1..Len(heap) /\ IsRoot(heap, new)
        /\ Clear(G, st, {new}) /\ G.home[l] # new /\ c = new
        /\ h = IF f.empty THEN Child(heap, l, new) ELSE Behind(heap, l, new)
    BY <1>4, <1>5, <1>8 DEF l
  <2>2. l # new
    <3>1. G.home[new] = new  BY <1>1, <2>1 DEF Forest, Rooted
    <3> QED  BY <2>1, <3>1
  <2>3. heap \in Seq(NodeOf(T))  BY <1>1 DEF Forest, Shaped
  <2>4. Linked(T, heap, h, l, new, f.empty)
    <3>1. CASE f.empty
      <4>1. h = Child(heap, l, new)  BY <2>1, <3>1
      <4>2. Linked(T, heap, Child(heap, l, new), l, new, TRUE)  BY <1>6, <2>1, <2>2, <2>3, LinkIs
      <4> QED  BY <1>3, <3>1, <4>1, <4>2
    <3>2. CASE ~f.empty
      <4>1. h = Behind(heap, l, new)  BY <2>1, <3>2
      <4>2. Linked(T, heap, Behind(heap, l, new), l, new, FALSE)
        BY <1>6, <2>1, <2>2, <2>3, LinkIs
      <4> QED  BY <1>3, <3>2, <4>1, <4>2
    <3> QED  BY <3>1, <3>2
  <2>5. ReadBefore(G, st, l, new, idx)
    <3>1. Txt(G, l) = G.text[G.home[l]] /\ Txt(G, cur) = G.text[new]  BY <1>2, <1>8, <2>1 DEF Txt, l
    <3> QED  BY <1>1, <3>1 DEF ReadBefore
  <2>6. l \in G.edge /\ Clear(G, st, {G.home[l]}) /\ (f.empty => heap[l].child = 0) /\ c \in {l, new}
    BY <1>2, <2>1 DEF l
  <2>7. \E G2: AllKept(T, G2, h, c, idx, st)
    <3> DEFINE e == f.empty
    <3>1. e \in BOOLEAN /\ Linked(T, heap, h, l, new, e) /\ (e => heap[l].child = 0)  BY <1>3, <2>4, <2>6
    <3> HIDE DEF e
    <3>2. /\ Forest(T, heap, G) /\ st \in Seq(Frames(heap)) /\ Waiting(heap, G, st)
          /\ l \in 1..Len(heap) /\ heap[l].next = 0 /\ idx \in 1..Len(made) + 1
      BY <1>1, <1>2, <1>3, <1>6
    <3>3. /\ new \in 1..Len(heap) /\ IsRoot(heap, new) /\ Clear(G, st, {new}) /\ G.home[l] # new
      BY <2>1
    <3> QED  BY <2>5, <2>6, <3>1, <3>2, <3>3, TreeReturned, SMTT(60)
  <2> QED  BY <2>1, <2>7
<1> QED  BY <1>7, <1>8

LEMMA CallReturnsKept ==
  ASSUME NEW T, made \in Seq(T), NEW G, Stands(T, G, heap, cur, idx, stack), InPlace, CallReturns
  PROVE  \E G2: Stands(T, G2, heap', cur', idx', stack')
<1> DEFINE f == Head(stack)
           st == Tail(stack)
           new == RootOf(heap, cur)
           h == IF new = 0 THEN heap
                ELSE IF f.empty THEN Child(heap, f.cur, new) ELSE Behind(heap, f.cur, new)
           c == IF new = 0 THEN f.cur ELSE new
           more == Token = "," /\ TokenAt(idx + 1) # ")"
<1>1. /\ Returning /\ There(Token) /\ stack # << >> /\ f.kind = "call"
      /\ IF more THEN At(h, 0, idx + 1, <<Frame("call", c, f.empty /\ new = 0)>> \o st)
         ELSE At(h, c, IF Token = "," THEN idx + 2 ELSE idx + 1, st)
  BY Zenon DEF CallReturns, There
<1>2. Returned(T, G, f, st)  BY <1>1, ReturnIs, Zenon
<1> HIDE DEF f, st, new
<1>3. PICK G2: AllKept(T, G2, h, c, idx, st) /\ c # 0 /\ (f.empty /\ new = 0 => h[c].child = 0)
  <2>1. new = RootOf(heap, cur) /\ f.kind = "call"  BY <1>1, Zenon DEF new
  <2>2. /\ h = IF new = 0 THEN heap ELSE IF f.empty THEN Child(heap, f.cur, new) ELSE Behind(heap, f.cur, new)
        /\ c = IF new = 0 THEN f.cur ELSE new
    OBVIOUS
  <2> HIDE DEF h, c
  <2> QED  BY <1>2, <2>1, <2>2, ArgumentKept
<1> HIDE DEF h, c
<1>4. There(Token) /\ Token \in Signs /\ idx \in 1..Len(made) /\ made[idx] \in Signs  BY <1>2 DEF Returned
<1>5. CASE more
  <2> DEFINE e == f.empty /\ new = 0
  <2>1. heap' = h /\ cur' = 0 /\ idx' = idx + 1 /\ stack' = <<Frame("call", c, e)>> \o st
    BY <1>1, <1>5, Zenon DEF At
  <2>2. e \in BOOLEAN /\ (e => h[c].child = 0) /\ "call" \in {"call", "group"}  BY <1>3
  <2> HIDE DEF e
  <2>3. Stands(T, G2, h, 0, idx + 1, <<Frame("call", c, e)>> \o st)  BY <1>3, <1>4, <2>2, FramePushed
  <2> QED  BY <2>1, <2>3
<1>6. CASE ~more
  <2>1. /\ heap' = h /\ cur' = c /\ stack' = st
        /\ idx' = IF Token = "," THEN idx + 2 ELSE idx + 1
    BY <1>1, <1>6, Zenon DEF At
  <2>2. Stands(T, G2, h, c, idx + 1, st)  BY <1>3, <1>4, SignRead
  <2>3. CASE Token = ","
    <3>1. TokenAt(idx + 1) = ")"  BY <1>6, <2>3, Zenon
    <3>2. idx \in Nat  BY <1>4
    <3>3. Stands(T, G2, h, c, idx + 2, st)  BY <2>2, <3>1, <3>2, SignSkipped
    <3> QED  BY <2>1, <2>3, <3>3, Zenon
  <2>4. CASE Token # ","  BY <2>1, <2>2, <2>4, Zenon
  <2> QED  BY <2>3, <2>4, Zenon
<1> QED  BY <1>5, <1>6, Zenon

(* What comes below the operator of a bracket that is taken over. *)
LEMMA SplicedKept ==
  ASSUME NEW T, made \in Seq(T), NEW G, Forest(T, heap, G),
         NEW st \in Seq(Frames(heap)), Waiting(heap, G, st),
         NEW l \in 1..Len(heap), l \in G.edge, heap[l].next = 0, Clear(G, st, {G.home[l]}),
         NEW new \in 1..Len(heap), IsRoot(heap, new), Clear(G, st, {new}), G.home[l] # new,
         heap[new].next = 0, heap[new].name \in Commutative,
         NEW i \in 1..Len(made) + 1, ReadBefore(G, st, l, new, i)
  PROVE  \E G2: AllKept(T, G2, Splice(heap, l, new), l, i, st)
<1>1. Word(heap, new) = << >>
  <2>1. heap[new].name \in Signs  BY SignsAre, Zenon DEF IsOperator
  <2> QED  BY <2>1, SignsAre, Zenon DEF Word
<1>2. /\ Len(heap) \in Nat /\ l # 0 /\ new # 0 /\ G.home[l] \in 1..Len(heap)
      /\ G.home[G.home[l]] = G.home[l] /\ IsRoot(heap, G.home[l])
  BY HomeIs
<1>3. CASE heap[new].child = 0
  <2>1. Splice(heap, l, new) = heap  BY <1>3 DEF Splice
  <2>2. G.text[new] = << >>
    <3>1. G.text[new] = (Word(heap, new) \o G.text[0]) \o G.text[0] /\ G.text[0] = << >>
      BY <1>3 DEF Forest, ReadThrough
    <3>2. << >> \in Seq(T)  BY EmptySeq
    <3>3. << >> \o << >> = << >>  BY <3>2, ConcatEmptySeq
    <3> QED  BY <1>1, <3>1, <3>3
  <2>3. Held(G, st) \o Txt(G, l) = Operands(SubSeq(made, 1, i - 1))
    <3> DEFINE x == Held(G, st)
               y == G.text[G.home[l]]
    <3>1. x \in Seq(T) /\ y \in Seq(T)  BY HeldIs, NodeTextIs
    <3>2. (x \o y) \o << >> = Operands(SubSeq(made, 1, i - 1))  BY <2>2 DEF ReadBefore
    <3>3. Txt(G, l) = y  BY <1>2 DEF Txt
    <3> HIDE DEF x, y
    <3>4. x \o y \in Seq(T)  BY <3>1, ConcatProperties
    <3>5. (x \o y) \o << >> = x \o y  BY <3>4, ConcatEmptySeq
    <3> QED  BY <3>2, <3>3, <3>5 DEF x
  <2>4. l \in 0..Len(heap)  BY <1>2
  <2>5. AllKept(T, G, heap, l, i, st)  BY <2>3, <2>4 DEF AllKept
  <2> QED  BY <2>1, <2>5
<1>4. CASE heap[new].child # 0
  <2> DEFINE d == heap[new].child
             h == Orphan(heap, new)
  <2>1. Splice(heap, l, new) = Behind(h, l, d)  BY <1>4 DEF Splice, Orphan
  <2>2. d \in 1..Len(heap) /\ ~IsRoot(heap, d)
    BY <1>2, <1>4 DEF Forest, ChildrenLinked, IsRoot
  <2>3. PICK G1: TakenOut(T, heap, G, h, G1, new, d)  BY <1>1, <1>4, OrphanForest
  <2> HIDE DEF d, h
  <2>4. /\ Forest(T, h, G1) /\ Elsewhere(heap, G, h, G1, {new}) /\ IsRoot(h, d)
        /\ G1.text[d] = G.text[new] /\ Len(h) = Len(heap) /\ h \in Seq(NodeOf(T)) /\ h[l].next = 0
    BY <2>3 DEF TakenOut, Relinked
  <2>5. /\ st \in Seq(Frames(h)) /\ Waiting(h, G1, st) /\ Held(G1, st) = Held(G, st)
        /\ \A k \in 1..Len(st): st[k].cur # 0 => G1.home[st[k].cur] = G.home[st[k].cur]
    <3>1. Len(heap) <= Len(h)  BY <1>2, <2>4
    <3> QED  BY <2>4, <3>1, Settle
  <2>6. /\ G1.home[l] = G.home[l] /\ l \in G1.edge /\ G1.text[G.home[l]] = G.text[G.home[l]]
    BY <1>2, <2>4 DEF Elsewhere
  <2>7. Clear(G1, st, {G1.home[l]})  BY <2>5, <2>6 DEF Clear
  <2>8. Clear(G1, st, {d})
    <3> SUFFICES ASSUME NEW k \in 1..Len(st), st[k].cur # 0 PROVE G1.home[st[k].cur] \notin {d}
      BY DEF Clear
    <3>1. st[k].cur \in 0..Len(heap)  BY FrameIs
    <3>2. st[k].cur \in 1..Len(heap)  BY <1>2, <3>1
    <3>3. IsRoot(heap, G.home[st[k].cur])  BY <3>2, HomeIs
    <3> QED  BY <2>2, <2>5, <3>3
  <2>9. G1.home[l] # d  BY <1>2, <2>2, <2>6
  <2>10. l \in 1..Len(h) /\ d \in 1..Len(h) /\ l # d
    <3>1. l \in 1..Len(h) /\ d \in 1..Len(h)  BY <2>2, <2>4
    <3>2. G1.home[d] = d  BY <2>4, <3>1 DEF Forest, Rooted
    <3> QED  BY <2>9, <3>1, <3>2
  <2>11. Linked(T, h, Behind(h, l, d), l, d, FALSE)  BY <2>4, <2>10, LinkIs
  <2>12. ReadBefore(G1, st, l, d, i)  BY <2>4, <2>5, <2>6 DEF ReadBefore
  <2> DEFINE e == FALSE
             h2 == Behind(h, l, d)
  <2>13. e \in BOOLEAN /\ Linked(T, h, h2, l, d, e) /\ (e => h[l].child = 0) /\ l \in {l, d}  BY <2>11
  <2> HIDE DEF e, h2
  <2>14. \E G2: AllKept(T, G2, h2, l, i, st)
    BY <2>4, <2>5, <2>6, <2>7, <2>8, <2>9, <2>10, <2>12, <2>13, TreeReturned
  <2> QED  BY <2>1, <2>14 DEF h2
<1> QED  BY <1>3, <1>4

(* A bracket stands behind what waited for it, or is taken over. *)
LEMMA BracketKept ==
  ASSUME NEW T, made \in Seq(T), NEW G, NEW f, NEW st, Returned(T, G, f, st), f.kind = "group",
         NEW new, new = RootOf(heap, cur), NEW back, back = LastChild(heap, f.cur),
         cur # 0 \/ f.cur = 0, f.cur # 0 => heap[new].next = 0
  PROVE  /\ f.cur = 0 => \E G2: AllKept(T, G2, heap, new, idx, st)
         /\ f.cur # 0 => \E G2: AllKept(T, G2, Behind(heap, back, new), new, idx, st)
         /\ f.cur # 0 /\ heap[new].name \in Commutative =>
              \E G2: AllKept(T, G2, Splice(heap, back, new), back, idx, st)
<1> DEFINE o == f.cur
<1>1. /\ idx \in 1..Len(made) /\ Forest(T, heap, G) /\ Len(heap) \in Nat
      /\ o \in 0..Len(heap) /\ cur \in 0..Len(heap) /\ (o # 0 => heap[o].next = 0)
      /\ Held(G, st) \in Seq(T) /\ Txt(G, o) \in Seq(T) /\ Txt(G, cur) \in Seq(T)
      /\ (Held(G, st) \o Txt(G, o)) \o Txt(G, cur) = Operands(SubSeq(made, 1, idx - 1))
  BY DEF Returned
<1>2. /\ st \in Seq(Frames(heap)) /\ Waiting(heap, G, st)
      /\ o # 0 => o \in G.edge /\ Clear(G, st, {G.home[o]})
  BY DEF Returned, Popped
<1>3. new = IF cur = 0 THEN 0 ELSE G.home[cur]  BY DEF Returned
<1>4. cur # 0 => /\ G.home[cur] # 0 /\ G.home[cur] \in 1..Len(heap) /\ IsRoot(heap, G.home[cur])
                 /\ G.home[G.home[cur]] = G.home[cur] /\ G.home[cur] \in G.edge
                 /\ Clear(G, st, {G.home[cur]}) /\ (o # 0 => G.home[o] # G.home[cur])
  BY DEF Returned
<1>5. back = LastChild(heap, o) /\ (cur # 0 \/ o = 0) /\ (o # 0 => heap[new].next = 0)  OBVIOUS
<1>6. (o = 0) = (f.cur = 0)  OBVIOUS
<1> HIDE DEF o
<1>7. idx \in 1..Len(made) + 1  BY <1>1
<1>8. CASE o = 0
  <2>1. Txt(G, new) = Txt(G, cur)  BY <1>3, <1>4 DEF Txt
  <2>2. Held(G, st) \o Txt(G, new) = Operands(SubSeq(made, 1, idx - 1))
    <3>1. Txt(G, o) = << >>  BY <1>8 DEF Txt
    <3>2. Held(G, st) \o << >> = Held(G, st)  BY <1>1, ConcatEmptySeq
    <3> QED  BY <1>1, <2>1, <3>1, <3>2
  <2>3. new \in 0..Len(heap) /\ (new # 0 => new \in G.edge /\ Clear(G, st, {G.home[new]}))
    <3>1. CASE cur = 0  BY <1>1, <1>3, <3>1
    <3>2. CASE cur # 0
      <4>1. new = G.home[cur] /\ G.home[new] = new  BY <1>3, <1>4, <3>2
      <4>2. new \in 0..Len(heap)  BY <1>1, <1>4, <3>2, <4>1
      <4>3. new \in G.edge /\ Clear(G, st, {new})  BY <1>4, <3>2, <4>1
      <4> QED  BY <4>1, <4>2, <4>3
    <3> QED  BY <3>1, <3>2
  <2>4. AllKept(T, G, heap, new, idx, st)  BY <1>1, <1>2, <1>7, <2>2, <2>3 DEF AllKept
  <2> QED  BY <1>6, <1>8, <2>4
<1>9. CASE o # 0
  <2>1. /\ new = G.home[cur] /\ new # 0 /\ new \in 1..Len(heap) /\ IsRoot(heap, new)
        /\ Clear(G, st, {new}) /\ G.home[o] # new /\ heap[new].next = 0 /\ G.home[new] = new
    BY <1>3, <1>4, <1>5, <1>9
  <2>2. o \in 1..Len(heap)  BY <1>1, <1>9
  <2>3. back \in 1..Len(heap) /\ G.home[back] = G.home[o] /\ back \in G.edge /\ heap[back].next = 0
    BY <1>1, <1>2, <1>5, <1>9, <2>2, LastChildIs, SMTT(60)
  <2>4. Clear(G, st, {G.home[back]}) /\ G.home[back] # new /\ back # new
    BY <1>2, <1>9, <2>1, <2>3
  <2>5. ReadBefore(G, st, back, new, idx)
    <3>1. Txt(G, o) = G.text[G.home[back]] /\ Txt(G, cur) = G.text[new]
      BY <1>5, <1>9, <2>1, <2>3 DEF Txt
    <3> QED  BY <1>1, <3>1 DEF ReadBefore
  <2>6. \E G2: AllKept(T, G2, Behind(heap, back, new), new, idx, st)
    <3> DEFINE e == FALSE
               h2 == Behind(heap, back, new)
    <3>1. heap \in Seq(NodeOf(T))  BY <1>1 DEF Forest, Shaped
    <3>2. Linked(T, heap, Behind(heap, back, new), back, new, FALSE)  BY <2>1, <2>3, <2>4, <3>1, LinkIs
    <3>3. e \in BOOLEAN /\ Linked(T, heap, h2, back, new, e) /\ (e => heap[back].child = 0)
          /\ new \in {back, new}
      BY <3>2
    <3> HIDE DEF e, h2
    <3>4. \E G2: AllKept(T, G2, h2, new, idx, st)
      BY <1>1, <1>2, <1>7, <2>1, <2>3, <2>4, <2>5, <3>3, TreeReturned
    <3> QED  BY <3>4 DEF h2
  <2>7. ASSUME heap[new].name \in Commutative
        PROVE  \E G2: AllKept(T, G2, Splice(heap, back, new), back, idx, st)
    BY <1>1, <1>2, <1>7, <2>1, <2>3, <2>4, <2>5, <2>7, SplicedKept
  <2> QED  BY <1>6, <1>9, <2>6, <2>7
<1> QED  BY <1>8, <1>9

LEMMA GroupReturnsKept ==
  ASSUME NEW T, made \in Seq(T), NEW G, Stands(T, G, heap, cur, idx, stack), InPlace, GroupReturns
  PROVE  \E G2: Stands(T, G2, heap', cur', idx', stack')
<1> DEFINE f == Head(stack)
           st == Tail(stack)
           new == RootOf(heap, cur)
           back == LastChild(heap, f.cur)
           joins == /\ heap[new].name = heap[f.cur].name /\ heap[new].name \in Commutative
                    /\ heap[new].name \in {"+", "*"} => ~Closes(heap[new].name)
<1>1. /\ Returning /\ stack # << >> /\ f.kind = "group" /\ (cur # 0 \/ f.cur = 0)
      /\ IF f.cur = 0 THEN At(heap, new, idx + 1, st)
         ELSE IF joins THEN At(Splice(heap, back, new), back, idx + 1, st)
         ELSE At(Behind(heap, back, new), new, idx + 1, st)
  BY Zenon DEF GroupReturns
<1>2. Returned(T, G, f, st)
  <2>1. There(Token)  BY <1>1, Zenon DEF InPlace, There
  <2> QED  BY <1>1, <2>1, ReturnIs
<1>3. f.cur # 0 => heap[new].next = 0
  <2>1. f.cur # 0 => IsLast(RootOf(heap, cur))  BY <1>1, Zenon DEF InPlace
  <2>2. f.cur # 0 => new # 0  BY <1>1, <1>2 DEF Returned
  <2> QED  BY <2>1, <2>2 DEF IsLast
<1>4. joins => heap[new].name \in Commutative  OBVIOUS
<1> HIDE DEF joins
<1>5. new = RootOf(heap, cur) /\ back = LastChild(heap, f.cur)  OBVIOUS
<1> HIDE DEF new, back
<1>6. /\ f.cur = 0 => \E G2: AllKept(T, G2, heap, new, idx, st)
      /\ f.cur # 0 => \E G2: AllKept(T, G2, Behind(heap, back, new), new, idx, st)
      /\ f.cur # 0 /\ heap[new].name \in Commutative =>
           \E G2: AllKept(T, G2, Splice(heap, back, new), back, idx, st)
  <2> HIDE DEF f, st
  <2> QED  BY <1>1, <1>2, <1>3, <1>5, BracketKept
<1> HIDE DEF f, st
<1>7. idx \in 1..Len(made) /\ made[idx] \in Signs  BY <1>2 DEF Returned
<1>8. ASSUME NEW h, NEW c, At(h, c, idx + 1, st), \E G2: AllKept(T, G2, h, c, idx, st)
      PROVE  \E G2: Stands(T, G2, heap', cur', idx', stack')
  <2>1. heap' = h /\ cur' = c /\ idx' = idx + 1 /\ stack' = st  BY <1>8, Zenon DEF At
  <2>2. PICK G2: AllKept(T, G2, h, c, idx, st)  BY <1>8
  <2>3. Stands(T, G2, h, c, idx + 1, st)  BY <1>7, <2>2, SignRead
  <2> QED  BY <2>1, <2>3
<1>9. CASE f.cur = 0  BY <1>1, <1>6, <1>8, <1>9
<1>10. CASE f.cur # 0 /\ joins  BY <1>1, <1>4, <1>6, <1>8, <1>10
<1>11. CASE f.cur # 0 /\ ~joins  BY <1>1, <1>6, <1>8, <1>11
<1> QED  BY <1>9, <1>10, <1>11

LEMMA MakeTreeKept ==
  ASSUME NEW T, made \in Seq(T), NEW G, Stands(T, G, heap, cur, idx, stack), InPlace, MakeTree
  PROVE  \E G2: Stands(T, G2, heap', cur', idx', stack')
<1>1. CASE Operand  BY <1>1, OperandKept
<1>2. CASE CommutativeOperator  BY <1>2, CommutativeKept
<1>3. CASE OtherOperator  BY <1>3, OtherKept
<1>4. CASE OpenCall  BY <1>4, OpenCallKept
<1>5. CASE OpenGroup  BY <1>5, OpenGroupKept
<1>6. CASE CallReturns  BY <1>6, CallReturnsKept
<1>7. CASE GroupReturns  BY <1>7, GroupReturnsKept
<1> QED  BY <1>1, <1>2, <1>3, <1>4, <1>5, <1>6, <1>7, Zenon DEF MakeTree

(* make_tree begins without a tree. *)
LEMMA NoTreeKept ==
  ASSUME NEW T, made \in Seq(T), NoTree
  PROVE  \E G: Stands(T, G, heap, cur, idx, stack)
<1> DEFINE N == [x \in 0..0 |-> << >>]
           G == [home |-> N, rank |-> N, edge |-> {}, text |-> N, top |-> 0]
<1>1. heap = << >> /\ cur = 0 /\ idx = 1 /\ stack = << >>  BY DEF NoTree
<1>2. << >> \in Seq(NodeOf(T)) /\ << >> \in Seq(T) /\ Len(<< >>) = 0  BY EmptySeq
<1>3. 1..Len(heap) = {} /\ 0..Len(heap) = {0} /\ 1..Len(stack) = {}  BY <1>1, <1>2
<1>4. G.top = 0 /\ G.text[0] = << >> /\ G.edge = {}  OBVIOUS
<1> HIDE DEF G
<1>5. Forest(T, heap, G)
  <2>1. ~\E x \in 1..Len(heap): TRUE  BY <1>3
  <2>2. Shaped(T, heap, G)
    <3>1. heap \in Seq(NodeOf(T)) /\ G.top \in Nat  BY <1>1, <1>2, <1>4
    <3>2. \A x \in 0..Len(heap): G.text[x] \in Seq(T)  BY <1>2, <1>3, <1>4
    <3> QED  BY <2>1, <3>1, <3>2, Zenon DEF Shaped
  <2>3. ChildrenLinked(heap, G) /\ NextLinked(heap, G) /\ BackLinked(heap) /\ Rooted(heap, G)
    BY <2>1, Zenon DEF ChildrenLinked, NextLinked, BackLinked, Rooted
  <2>4. ReadThrough(heap, G)  BY <1>4, <2>1, Zenon DEF ReadThrough
  <2> QED  BY <2>2, <2>3, <2>4 DEF Forest
<1>6. stack \in Seq(Frames(heap)) /\ Waiting(heap, G, stack)
  <2>1. stack \in Seq(Frames(heap))  BY <1>1, EmptySeq
  <2> QED  BY <1>3, <2>1 DEF Waiting
<1>7. Held(G, stack) \o Txt(G, cur) = Operands(SubSeq(made, 1, idx - 1))
  <2>1. Held(G, stack) = << >>  BY <1>1, <1>5, <1>6, HeldIs
  <2>2. Txt(G, cur) = << >>  BY <1>1 DEF Txt
  <2>3. << >> \o << >> = << >>  BY <1>2, ConcatEmptySeq
  <2>4. SubSeq(made, 1, idx - 1) = << >>
    <3>1. Len(made) \in Nat /\ idx - 1 = 0  BY <1>1
    <3> QED  BY <3>1, SubSeqProperties
  <2>5. Operands(<< >>) = << >>  BY <1>2, WithoutIs, Zenon DEF Operands
  <2> QED  BY <2>1, <2>2, <2>3, <2>4, <2>5
<1>8. cur \in 0..Len(heap) /\ idx \in 1..Len(made) + 1
  <2>1. Len(made) \in Nat  OBVIOUS
  <2> QED  BY <1>1, <1>3, <2>1
<1>9. AllKept(T, G, heap, cur, idx, stack)  BY <1>1, <1>5, <1>6, <1>7, <1>8 DEF AllKept
<1>10. Stands(T, G, heap, cur, idx, stack)  BY <1>1, <1>9 DEF Stands
<1> QED  BY <1>10

LEMMA KeptShows ==
  ASSUME NEW T, made \in Seq(T), NEW G, Stands(T, G, heap, cur, idx, stack)
  PROVE  TreeKept
<1>1. /\ Forest(T, heap, G) /\ stack \in Seq(Frames(heap)) /\ cur \in 0..Len(heap)
      /\ Held(G, stack) \o Txt(G, cur) = Operands(SubSeq(made, 1, idx - 1))
  BY DEF Stands, AllKept
<1>2. Len(stack) \in Nat /\ DOMAIN stack = 1..Len(stack)  BY <1>1
<1>3. Names(cur) = Txt(G, cur)  BY <1>1, NamesIs
<1>4. [i \in DOMAIN stack |-> Names(Reverse(stack)[i].cur)] = [i \in 1..Len(stack) |-> HeldBy(G, stack)[i - 1]]
  <2>1. ASSUME NEW i \in 1..Len(stack)
        PROVE  Names(Reverse(stack)[i].cur) = HeldBy(G, stack)[i - 1]
    <3> DEFINE k == Len(stack) - i + 1
    <3>1. k \in 1..Len(stack) /\ i - 1 \in 0..Len(stack) - 1 /\ Len(stack) - (i - 1) = k  BY <1>2
    <3>2. Reverse(stack)[i] = stack[k]  BY DEF Reverse
    <3> HIDE DEF k
    <3>3. HeldBy(G, stack)[i - 1] = Txt(G, stack[k].cur)  BY <3>1 DEF HeldBy
    <3>4. stack[k].cur \in 0..Len(heap)  BY <1>1, <3>1, FrameIs
    <3> QED  BY <1>1, <3>2, <3>3, <3>4, NamesIs
  <2> QED  BY <1>2, <2>1, Zenon
<1>5. FlattenSeq([i \in DOMAIN stack |-> Names(Reverse(stack)[i].cur)]) = Held(G, stack)
  BY <1>4 DEF Held, Joined
<1> QED  BY <1>1, <1>3, <1>5 DEF TreeKept
=============================================================================
