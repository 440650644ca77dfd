----------------------------- MODULE DataLemmas -----------------------------
(***************************************************************************)
(* Facts about numbers, finite sets and sequences the other proofs cite.   *)
(***************************************************************************)
EXTENDS Integers, SequencesExt, FiniteSetTheorems, SequenceTheorems, WellFoundedInduction, TLAPS

(* A set of naturals that is not empty has a least element. *)
LEMMA LeastNat ==
  ASSUME NEW T \in SUBSET Nat, T # {}
  PROVE  \E x \in T: \A y \in T: x <= y
<1> DEFINE R == OpToRel(<, Nat)
<1>1. IsWellFoundedOn(R, Nat)  BY NatLessThanWellFounded
<1> HIDE DEF R
<1>2. \E x \in T: \A y \in T: <<y, x>> \notin R  BY <1>1, WFMin
<1>3. \A x, y \in Nat: <<y, x>> \in R <=> y < x
  BY DEF R, OpToRel
<1>4. PICK x \in T: \A y \in T: <<y, x>> \notin R  BY <1>2
<1>5. \A y \in T: x <= y
  <2> SUFFICES ASSUME NEW y \in T PROVE x <= y OBVIOUS
  <2>1. x \in Nat /\ y \in Nat /\ ~(y < x) BY <1>3, <1>4
  <2> QED BY <2>1
<1> QED BY <1>5

(* Induction over the naturals, on a set instead of a predicate. *)
LEMMA SetInduction ==
  ASSUME NEW S, 0 \in S, \A n \in S \cap Nat: n + 1 \in S
  PROVE  Nat \subseteq S
<1> SUFFICES ASSUME Nat \ S # {} PROVE FALSE
  OBVIOUS
<1>1. PICK x \in Nat \ S: \A y \in Nat \ S: x <= y
  BY LeastNat
<1>2. x # 0 BY <1>1
<1>3. x - 1 \in Nat /\ x - 1 \notin Nat \ S  BY <1>1, <1>2
<1> QED BY <1>3

(* The image of a finite set under a function is finite. *)
LEMMA ImageFinite ==
  ASSUME NEW S, IsFiniteSet(S), NEW f
  PROVE  IsFiniteSet({f[x]: x \in S})
<1> DEFINE g == [x \in S |-> f[x]]
           T == {f[x]: x \in S}
<1>1. g \in Surjection(S, T)  BY DEF Surjection
<1> HIDE DEF g, T
<1>2. IsFiniteSet(T)  BY <1>1, FS_Surjection
<1> QED  BY <1>2 DEF T

(* Any order of a finite set's elements is a sequence of them. *)
LEMMA OrderIsSeq ==
  ASSUME NEW T, NEW S \in SUBSET T, IsFiniteSet(S), NEW order \in SetToSeqs(S)
  PROVE  order \in Seq(T) /\ Len(order) \in Nat /\ \A k \in 1..Len(order): order[k] \in S
<1>1. Cardinality(S) \in Nat  BY FS_CardinalityType
<1>2. order \in [1..Cardinality(S) -> S]  BY DEF SetToSeqs
<1> QED  BY <1>1, <1>2

LEMMA OrderHasAll ==
  ASSUME NEW S, IsFiniteSet(S), NEW order \in SetToSeqs(S), NEW x \in S
  PROVE  \E k \in 1..Len(order): order[k] = x
<1> DEFINE D == 1..Cardinality(S)
<1>1. Cardinality(S) \in Nat  BY FS_CardinalityType
<1>2. order \in [D -> S] /\ \A i, j \in D: i # j => order[i] # order[j]  BY DEF SetToSeqs
<1>3. order \in Injection(D, S)  BY <1>2 DEF Injection, IsInjective
<1>4. IsFiniteSet(D) /\ Cardinality(D) = Cardinality(S)  BY <1>1, FS_Interval
<1>5. order \in Surjection(D, S)  BY <1>3, <1>4, FS_Injection
<1>6. PICK k \in D: order[k] = x  BY <1>5 DEF Surjection
<1>7. Len(order) = Cardinality(S)  BY <1>1, <1>2
<1> QED  BY <1>6, <1>7

(* What is where in a concatenation. *)
LEMMA ConcatParts ==
  ASSUME NEW S, NEW a \in Seq(S), NEW b \in Seq(S)
  PROVE  /\ a \o b \in Seq(S) /\ Len(a \o b) = Len(a) + Len(b)
         /\ \A k \in 1..Len(a): (a \o b)[k] = a[k]
         /\ \A k \in 1..Len(b): (a \o b)[Len(a) + k] = b[k]
<1>1. \A i \in 1..(Len(a) + Len(b)): (a \o b)[i] = IF i <= Len(a) THEN a[i] ELSE b[i - Len(a)]
  BY ConcatProperties
<1>2. Len(a) \in Nat /\ Len(b) \in Nat  OBVIOUS
<1>3. a \o b \in Seq(S) /\ Len(a \o b) = Len(a) + Len(b)  BY ConcatProperties
<1> QED  BY <1>1, <1>2, <1>3

(* The first part of a sequence. *)
LEMMA UptoIs ==
  ASSUME NEW S, NEW p \in Seq(S), NEW k \in 0..Len(p)
  PROVE  SubSeq(p, 1, k) \in Seq(S) /\ Len(SubSeq(p, 1, k)) = k
         /\ \A i \in 1..k: SubSeq(p, 1, k)[i] = p[i]
<1>1. Len(p) \in Nat /\ k \in Nat /\ \A i \in 1..k: p[i] \in S  OBVIOUS
<1> QED  BY <1>1, SubSeqProperties

LEMMA PrefixIs ==
  ASSUME NEW S, NEW p \in Seq(S), NEW q \in Seq(S)
  PROVE  IsPrefix(p, q) <=> Len(p) <= Len(q) /\ \A i \in 1..Len(p): p[i] = q[i]
<1>1. Len(p) \in Nat /\ Len(q) \in Nat /\ SubSeq(p, 1, Len(p)) = p  BY SubSeqFull
<1>2. ASSUME Len(p) <= Len(q)
      PROVE  SubSeq(q, 1, Len(p)) = p <=> \A i \in 1..Len(p): p[i] = q[i]
  <2>1. SubSeq(q, 1, Len(p)) \in Seq(S) /\ Len(SubSeq(q, 1, Len(p))) = Len(p)
        /\ \A i \in 1..Len(p): SubSeq(q, 1, Len(p))[i] = q[i]
    BY <1>1, <1>2, UptoIs
  <2> QED  BY <2>1, SeqEqual
<1> QED  BY <1>1, <1>2 DEF IsPrefix

LEMMA StrictPrefixIs ==
  ASSUME NEW S, NEW p \in Seq(S), NEW q \in Seq(S)
  PROVE  /\ IsStrictPrefix(p, q) <=> IsPrefix(p, q) /\ Len(p) < Len(q)
         /\ IsPrefix(p, q) => p = SubSeq(q, 1, Len(p))
         /\ IsPrefix(p, q) /\ p # q => IsStrictPrefix(p, q)
<1>1. IsPrefix(p, q) /\ Len(p) = Len(q) => p = q  BY PrefixIs, SeqEqual
<1>2. Len(p) \in Nat /\ Len(q) \in Nat /\ SubSeq(p, 1, Len(p)) = p  BY SubSeqFull
<1>3. IsPrefix(p, q) => Len(p) <= Len(q)  BY PrefixIs
<1> QED  BY <1>1, <1>2, <1>3 DEF IsStrictPrefix, IsPrefix

LEMMA PrefixOrder ==
  ASSUME NEW S, NEW p \in Seq(S), NEW q \in Seq(S), NEW r \in Seq(S)
  PROVE  /\ IsPrefix(<< >>, p) /\ IsPrefix(p, p)
         /\ IsPrefix(p, q) /\ IsPrefix(q, r) => IsPrefix(p, r)
         /\ IsStrictPrefix(p, q) /\ IsPrefix(q, r) => IsStrictPrefix(p, r)
         /\ IsPrefix(p, q) /\ IsStrictPrefix(q, r) => IsStrictPrefix(p, r)
<1>1. << >> \in Seq(S) /\ Len(<< >>) = 0 /\ Len(p) \in Nat /\ Len(q) \in Nat /\ Len(r) \in Nat
  OBVIOUS
<1>2. IsPrefix(<< >>, p) /\ IsPrefix(p, p)
  <2>1. Len(<< >>) <= Len(p) /\ \A i \in 1..Len(<< >>): << >>[i] = p[i]  BY <1>1
  <2>2. << >> \in Seq(S)  BY <1>1
  <2>3. IsPrefix(<< >>, p)  BY <2>1, <2>2, PrefixIs
  <2>4. IsPrefix(p, p)  BY <1>1, PrefixIs
  <2> QED  BY <2>3, <2>4
<1>3. IsPrefix(p, q) /\ IsPrefix(q, r) => IsPrefix(p, r)
  <2> SUFFICES ASSUME IsPrefix(p, q), IsPrefix(q, r) PROVE IsPrefix(p, r)  OBVIOUS
  <2>1. Len(p) <= Len(q) /\ \A i \in 1..Len(p): p[i] = q[i]  BY PrefixIs
  <2>2. Len(q) <= Len(r) /\ \A i \in 1..Len(q): q[i] = r[i]  BY PrefixIs
  <2>3. \A i \in 1..Len(p): i \in 1..Len(q) /\ p[i] = r[i]  BY <1>1, <2>1, <2>2
  <2>4. Len(p) <= Len(r)  BY <1>1, <2>1, <2>2
  <2> QED  BY <2>3, <2>4, PrefixIs
<1>4. \A a, b \in Seq(S): /\ IsStrictPrefix(a, b) <=> IsPrefix(a, b) /\ Len(a) < Len(b)
                          /\ IsPrefix(a, b) => Len(a) <= Len(b)
  BY StrictPrefixIs, PrefixIs
<1> QED  BY <1>1, <1>2, <1>3, <1>4

LEMMA FrontIs ==
  ASSUME NEW S, NEW q \in Seq(S), q # << >>
  PROVE  /\ Front(q) \in Seq(S) /\ Len(Front(q)) = Len(q) - 1
         /\ IsStrictPrefix(Front(q), q)
         /\ \A p \in Seq(S): IsStrictPrefix(p, q) => IsPrefix(p, Front(q))
<1>1. Len(q) \in Nat /\ Len(q) - 1 \in 0..Len(q)  OBVIOUS
<1>2. Front(q) \in Seq(S) /\ Len(Front(q)) = Len(q) - 1 /\ \A i \in 1..(Len(q) - 1): Front(q)[i] = q[i]
  BY <1>1, UptoIs DEF Front
<1>3. IsStrictPrefix(Front(q), q)
  <2>1. Len(Front(q)) < Len(q) /\ \A i \in 1..Len(Front(q)): Front(q)[i] = q[i]  BY <1>1, <1>2
  <2>2. IsPrefix(Front(q), q)  BY <1>1, <1>2, <2>1, PrefixIs
  <2> QED  BY <1>2, <2>1, <2>2, StrictPrefixIs
<1>4. ASSUME NEW p \in Seq(S), IsStrictPrefix(p, q) PROVE IsPrefix(p, Front(q))
  <2>1. Len(p) < Len(q) /\ \A i \in 1..Len(p): p[i] = q[i]  BY <1>4, StrictPrefixIs, PrefixIs
  <2>2. Len(p) \in Nat /\ Len(p) <= Len(Front(q)) /\ \A i \in 1..Len(p): p[i] = Front(q)[i]
    BY <1>1, <1>2, <2>1
  <2> QED  BY <1>2, <2>2, PrefixIs
<1> QED  BY <1>2, <1>3, <1>4

(* The next sequence on the way from a prefix. *)
LEMMA OneFurther ==
  ASSUME NEW S, NEW p \in Seq(S), NEW q \in Seq(S), IsStrictPrefix(p, q)
  PROVE  \E r \in Seq(S) \ {<< >>}: Front(r) = p /\ IsPrefix(r, q) /\ Len(r) = Len(p) + 1
<1> DEFINE r == SubSeq(q, 1, Len(p) + 1)
<1>1. Len(p) \in Nat /\ Len(q) \in Nat /\ Len(p) < Len(q) /\ p = SubSeq(q, 1, Len(p))
  BY StrictPrefixIs
<1>2. r \in Seq(S) /\ Len(r) = Len(p) + 1 /\ \A i \in 1..(Len(p) + 1): r[i] = q[i]
  BY <1>1, UptoIs
<1>3. IsPrefix(r, q)
  <2> HIDE DEF r
  <2>1. Len(r) <= Len(q) /\ \A i \in 1..Len(r): r[i] = q[i]  BY <1>1, <1>2
  <2> QED  BY <1>2, <2>1, PrefixIs
<1>4. Front(r) = p
  <2>1. Front(r) \in Seq(S) /\ Len(Front(r)) = Len(p) /\ \A i \in 1..Len(p): Front(r)[i] = r[i]
    <3> HIDE DEF r
    <3>1. Len(r) - 1 = Len(p) /\ Len(p) \in 0..Len(r)  BY <1>1, <1>2
    <3> QED  BY <1>2, <3>1, UptoIs DEF Front
  <2>2. \A i \in 1..Len(p): p[i] = q[i]  BY <1>1, PrefixIs, StrictPrefixIs
  <2>3. \A i \in 1..Len(p): i \in 1..(Len(p) + 1)  BY <1>1
  <2> HIDE DEF r
  <2>4. \A i \in 1..Len(p): Front(r)[i] = p[i]  BY <1>2, <2>1, <2>2, <2>3
  <2> QED  BY <2>1, <2>4, SeqEqual
<1> HIDE DEF r
<1>5. r # << >>  BY <1>1, <1>2
<1> QED  BY <1>2, <1>3, <1>4, <1>5

LEMMA FrontAndLast ==
  ASSUME NEW S, NEW p \in Seq(S), NEW q \in Seq(S), p # << >>, q # << >>,
         Front(p) = Front(q), Last(p) = Last(q)
  PROVE  p = q
<1>1. Len(p) \in Nat \ {0} /\ Len(q) \in Nat \ {0}  OBVIOUS
<1>2. Len(p) = Len(q)
  <2>1. Len(Front(p)) = Len(p) - 1 /\ Len(Front(q)) = Len(q) - 1  BY FrontIs
  <2> QED  BY <1>1, <2>1
<1>3. /\ \A i \in 1..(Len(p) - 1): Front(p)[i] = p[i]
      /\ \A i \in 1..(Len(q) - 1): Front(q)[i] = q[i]
  <2>1. Len(p) - 1 \in 0..Len(p) /\ Len(q) - 1 \in 0..Len(q)  BY <1>1
  <2> QED  BY <2>1, UptoIs DEF Front
<1>4. \A i \in 1..Len(p): p[i] = q[i]
  <2> SUFFICES ASSUME NEW i \in 1..Len(p) PROVE p[i] = q[i]  OBVIOUS
  <2>1. CASE i = Len(p)  BY <1>2, <2>1 DEF Last
  <2>2. CASE i # Len(p)
    <3>1. i \in 1..(Len(p) - 1)  BY <1>1, <2>2
    <3> QED  BY <1>2, <1>3, <3>1
  <2> QED  BY <2>1, <2>2
<1> QED  BY <1>2, <1>4, SeqEqual

-----------------------------------------------------------------------------
(* Sequences put together *)

(* How FlattenSeq, a recursive function, goes on from part to part. *)
FlattensUpto(s, n, f) == f = [i \in 1..n |-> IF i = 1 THEN s[i] ELSE f[i - 1] \o s[i]]

LEMMA FlattenExists ==
  ASSUME NEW s, NEW n \in Nat
  PROVE  \E f: FlattensUpto(s, n, f)
<1> DEFINE S == {m \in Nat: \E f: FlattensUpto(s, m, f)}
<1>1. 0 \in S
  <2> DEFINE f == [i \in 1..0 |-> << >>]
  <2>1. f = [i \in 1..0 |-> IF i = 1 THEN s[i] ELSE f[i - 1] \o s[i]]  OBVIOUS
  <2>2. FlattensUpto(s, 0, f)  BY <2>1 DEF FlattensUpto
  <2> QED  BY <2>2
<1>2. ASSUME NEW m \in S \cap Nat PROVE m + 1 \in S
  <2>1. PICK f: FlattensUpto(s, m, f)  BY <1>2
  <2> DEFINE g == [i \in 1..m + 1 |-> IF i <= m THEN f[i] ELSE IF i = 1 THEN s[i] ELSE f[i - 1] \o s[i]]
             h == [i \in 1..m + 1 |-> IF i = 1 THEN s[i] ELSE g[i - 1] \o s[i]]
  <2>2. \A i \in 1..m + 1: g[i] = h[i]
    <3> SUFFICES ASSUME NEW i \in 1..m + 1 PROVE g[i] = h[i]  OBVIOUS
    <3>1. CASE i <= m
      <4>1. i \in 1..m /\ g[i] = f[i]  BY <3>1
      <4>2. f[i] = IF i = 1 THEN s[i] ELSE f[i - 1] \o s[i]  BY <2>1, <4>1 DEF FlattensUpto
      <4>3. i # 1 => i - 1 \in 1..m + 1 /\ i - 1 <= m  BY <3>1
      <4>4. i # 1 => g[i - 1] = f[i - 1]  BY <4>3
      <4> QED  BY <4>1, <4>2, <4>4
    <3>2. CASE ~(i <= m)
      <4>1. g[i] = IF i = 1 THEN s[i] ELSE f[i - 1] \o s[i]  BY <3>2
      <4>2. i # 1 => i - 1 \in 1..m + 1 /\ i - 1 <= m  OBVIOUS
      <4>3. i # 1 => g[i - 1] = f[i - 1]  BY <4>2
      <4> QED  BY <4>1, <4>3
    <3> QED  BY <3>1, <3>2
  <2>3. g = h
    <3> HIDE DEF g
    <3>1. DOMAIN g = 1..m + 1 /\ g = [i \in DOMAIN g |-> g[i]]  BY DEF g
    <3> QED  BY <2>2, <3>1
  <2>4. FlattensUpto(s, m + 1, g)
    <3> HIDE DEF g
    <3> QED  BY <2>3 DEF FlattensUpto
  <2> QED  BY <2>4
<1>3. Nat \subseteq S  BY <1>1, <1>2, SetInduction
<1> QED  BY <1>3

LEMMA FlattenUnique ==
  ASSUME NEW s, NEW t, NEW n \in Nat, NEW m \in Nat, m <= n, NEW f, NEW g,
         FlattensUpto(s, n, f), FlattensUpto(t, m, g), \A i \in 1..m: s[i] = t[i]
  PROVE  \A i \in 1..m: f[i] = g[i]
<1> DEFINE S == {k \in Nat: k \in 1..m => f[k] = g[k]}
<1>1. 0 \in S  OBVIOUS
<1>2. ASSUME NEW k \in S \cap Nat PROVE k + 1 \in S
  <2> SUFFICES ASSUME k + 1 \in 1..m PROVE f[k + 1] = g[k + 1]  OBVIOUS
  <2>1. /\ f[k + 1] = IF k + 1 = 1 THEN s[k + 1] ELSE f[k + 1 - 1] \o s[k + 1]
        /\ g[k + 1] = IF k + 1 = 1 THEN t[k + 1] ELSE g[k + 1 - 1] \o t[k + 1]
    <3> DEFINE F == [i \in 1..n |-> IF i = 1 THEN s[i] ELSE f[i - 1] \o s[i]]
               G == [i \in 1..m |-> IF i = 1 THEN t[i] ELSE g[i - 1] \o t[i]]
    <3>1. k + 1 \in 1..n  OBVIOUS
    <3>2. F[k + 1] = IF k + 1 = 1 THEN s[k + 1] ELSE f[k + 1 - 1] \o s[k + 1]  BY <3>1
    <3>3. G[k + 1] = IF k + 1 = 1 THEN t[k + 1] ELSE g[k + 1 - 1] \o t[k + 1]  OBVIOUS
    <3>4. f = F /\ g = G  BY DEF FlattensUpto
    <3> HIDE DEF F, G
    <3> QED  BY <3>2, <3>3, <3>4
  <2>2. k + 1 # 1 => f[k] = g[k]  OBVIOUS
  <2>3. k + 1 - 1 = k  OBVIOUS
  <2> QED  BY <2>1, <2>2, <2>3
<1>3. Nat \subseteq S  BY <1>1, <1>2, SetInduction
<1> QED  BY <1>3

LEMMA FlattenIs ==
  ASSUME NEW n \in Nat, NEW s, DOMAIN s = 1..n, Len(s) = n, n # 0, NEW f, FlattensUpto(s, n, f)
  PROVE  FlattenSeq(s) = f[n]
<1> DEFINE flatten == CHOOSE h: h = [i \in 1..n |-> IF i = 1 THEN s[i] ELSE h[i - 1] \o s[i]]
<1>1. \E h: h = [i \in 1..n |-> IF i = 1 THEN s[i] ELSE h[i - 1] \o s[i]]
  BY DEF FlattensUpto
<1>2. flatten = [i \in 1..n |-> IF i = 1 THEN s[i] ELSE flatten[i - 1] \o s[i]]
  BY <1>1
<1>3. FlattenSeq(s) = flatten[n]  BY DEF FlattenSeq
<1> HIDE DEF flatten
<1>4. FlattensUpto(s, n, flatten)  BY <1>2 DEF FlattensUpto
<1>5. n <= n /\ n \in 1..n  OBVIOUS
<1>6. \A i \in 1..n: flatten[i] = f[i]  BY <1>4, <1>5, FlattenUnique
<1> QED  BY <1>3, <1>5, <1>6

(* The parts f[0], ..., f[n - 1] put together. *)
Joined(f, n) == FlattenSeq([k \in 1..n |-> f[k - 1]])

LEMMA JoinedStep ==
  ASSUME NEW f, NEW n \in Nat, NEW S, \A k \in 0..n: f[k] \in Seq(S)
  PROVE  /\ Joined(f, 0) = << >>
         /\ Joined(f, n) \in Seq(S) => Joined(f, n + 1) = Joined(f, n) \o f[n]
<1> DEFINE s(m) == [k \in 1..m |-> f[k - 1]]
<1>1. \A m \in Nat: DOMAIN s(m) = 1..m /\ Len(s(m)) = m  OBVIOUS
<1>2. Joined(f, 0) = << >>
  <2>1. s(0) = << >>  OBVIOUS
  <2>2. FlattenSeq(<< >>) = << >>  BY DEF FlattenSeq
  <2> QED  BY <2>1, <2>2 DEF Joined
<1>3. PICK g: FlattensUpto(s(n + 1), n + 1, g)
  <2>1. n + 1 \in Nat  OBVIOUS
  <2> HIDE DEF s
  <2> QED  BY <2>1, FlattenExists
<1>4. Joined(f, n + 1) = g[n + 1]
  <2>1. n + 1 \in Nat /\ n + 1 # 0  OBVIOUS
  <2> HIDE DEF s
  <2>2. FlattenSeq(s(n + 1)) = g[n + 1]  BY <1>1, <1>3, <2>1, FlattenIs
  <2> QED  BY <2>2 DEF Joined, s
<1>5. g[n + 1] = IF n + 1 = 1 THEN s(n + 1)[n + 1] ELSE g[n + 1 - 1] \o s(n + 1)[n + 1]
  <2> DEFINE G == [i \in 1..n + 1 |-> IF i = 1 THEN s(n + 1)[i] ELSE g[i - 1] \o s(n + 1)[i]]
  <2> HIDE DEF s
  <2>1. g = G  BY <1>3 DEF FlattensUpto
  <2>2. n + 1 \in 1..n + 1  OBVIOUS
  <2>3. G[n + 1] = IF n + 1 = 1 THEN s(n + 1)[n + 1] ELSE g[n + 1 - 1] \o s(n + 1)[n + 1]  BY <2>2
  <2> HIDE DEF G
  <2> QED  BY <2>1, <2>3
<1>6. s(n + 1)[n + 1] = f[n] /\ n + 1 - 1 = n
  <2>1. n + 1 \in 1..n + 1 /\ n + 1 - 1 = n  OBVIOUS
  <2> QED  BY <2>1
<1>7. CASE n = 0
  <2>1. Joined(f, n + 1) = f[n]  BY <1>4, <1>5, <1>6, <1>7
  <2>2. f[n] \in Seq(S)  OBVIOUS
  <2>3. << >> \o f[n] = f[n]  BY <2>2, ConcatEmptySeq
  <2> QED  BY <1>2, <1>7, <2>1, <2>3
<1>8. CASE n # 0
  <2>1. PICK h: FlattensUpto(s(n), n, h)  BY FlattenExists
  <2>2. Joined(f, n) = h[n]
    <3> HIDE DEF s
    <3>1. FlattenSeq(s(n)) = h[n]  BY <1>1, <1>8, <2>1, FlattenIs
    <3> QED  BY <3>1 DEF Joined, s
  <2>3. \A i \in 1..n: s(n + 1)[i] = s(n)[i]  OBVIOUS
  <2>4. n <= n + 1 /\ n + 1 \in Nat /\ n \in 1..n  BY <1>8
  <2> HIDE DEF s
  <2> DEFINE a == s(n + 1)
             b == s(n)
             l == n + 1
  <2>5. /\ FlattensUpto(a, l, g) /\ FlattensUpto(b, n, h) /\ \A i \in 1..n: a[i] = b[i]
        /\ l \in Nat /\ n <= l
    BY <1>3, <2>1, <2>3, <2>4
  <2> HIDE DEF a, b, l
  <2>8. \A i \in 1..n: g[i] = h[i]  BY <2>5, FlattenUnique
  <2>6. g[n] = h[n]  BY <2>4, <2>8
  <2>7. n + 1 # 1  BY <1>8
  <2> QED  BY <1>2, <1>4, <1>5, <1>6, <2>2, <2>6, <2>7
<1> QED  BY <1>2, <1>7, <1>8

LEMMA JoinedIs ==
  ASSUME NEW f, NEW n \in Nat, NEW S, \A k \in 0..n - 1: f[k] \in Seq(S)
  PROVE  /\ Joined(f, n) \in Seq(S) /\ Joined(f, 0) = << >>
         /\ n > 0 => Joined(f, n) = Joined(f, n - 1) \o f[n - 1]
<1> DEFINE T == {m \in Nat: m <= n => /\ Joined(f, m) \in Seq(S)
                                      /\ m > 0 => Joined(f, m) = Joined(f, m - 1) \o f[m - 1]}
<1>1. Joined(f, 0) = << >>
  <2>1. [k \in 1..0 |-> f[k - 1]] = << >>  OBVIOUS
  <2>2. FlattenSeq(<< >>) = << >>  BY DEF FlattenSeq
  <2> QED  BY <2>1, <2>2 DEF Joined
<1>2. 0 \in T
  <2>1. Joined(f, 0) \in Seq(S)  BY <1>1, EmptySeq
  <2> QED  BY <2>1
<1>3. ASSUME NEW m \in T \cap Nat PROVE m + 1 \in T
  <2> SUFFICES ASSUME m + 1 <= n
               PROVE  Joined(f, m + 1) \in Seq(S) /\ Joined(f, m + 1) = Joined(f, m + 1 - 1) \o f[m + 1 - 1]
    OBVIOUS
  <2>1. Joined(f, m) \in Seq(S)
    <3>1. m <= n  OBVIOUS
    <3> QED  BY <1>3, <3>1
  <2>2. \A k \in 0..m: k \in 0..n - 1  OBVIOUS
  <2>3. \A k \in 0..m: f[k] \in Seq(S)  BY <2>2
  <2>4. Joined(f, m + 1) = Joined(f, m) \o f[m]  BY <2>1, <2>3, JoinedStep
  <2>5. f[m] \in Seq(S)  BY <2>3
  <2>6. Joined(f, m) \o f[m] \in Seq(S)  BY <2>1, <2>5, ConcatProperties
  <2>7. m + 1 - 1 = m  OBVIOUS
  <2> QED  BY <2>4, <2>6, <2>7
<1>4. Nat \subseteq T  BY <1>2, <1>3, SetInduction
<1> HIDE DEF T
<1>5. n \in T /\ n <= n  BY <1>4
<1> QED  BY <1>1, <1>5 DEF T

LEMMA JoinedSame ==
  ASSUME NEW f, NEW g, NEW n \in Nat, \A k \in 0..n - 1: f[k] = g[k]
  PROVE  Joined(f, n) = Joined(g, n)
<1>1. \A k \in 1..n: k - 1 \in 0..n - 1  OBVIOUS
<1>2. \A k \in 1..n: f[k - 1] = g[k - 1]  BY <1>1
<1>3. [k \in 1..n |-> f[k - 1]] = [k \in 1..n |-> g[k - 1]]  BY <1>2
<1> QED  BY <1>3 DEF Joined

(* Induction over sequences, on a set of them. *)
LEMMA SeqInduction ==
  ASSUME NEW S, NEW T, << >> \in T, \A s \in Seq(S) \cap T: \A u \in S: Append(s, u) \in T
  PROVE  Seq(S) \subseteq T
<1> DEFINE N == {n \in Nat: \A s \in Seq(S): Len(s) = n => s \in T}
<1>1. 0 \in N
  <2>1. \A s \in Seq(S): Len(s) = 0 => s = << >>  BY EmptySeq
  <2> QED  BY <2>1
<1>2. ASSUME NEW n \in N \cap Nat PROVE n + 1 \in N
  <2> SUFFICES ASSUME NEW s \in Seq(S), Len(s) = n + 1 PROVE s \in T  OBVIOUS
  <2>1. s # << >>  BY EmptySeq
  <2>2. PICK r \in Seq(S), u \in S: s = Append(r, u)  BY <2>1, SequenceEmptyOrAppend
  <2>3. Len(s) = Len(r) + 1 /\ Len(r) \in Nat  BY <2>2, AppendProperties
  <2>4. Len(r) = n  BY <2>3
  <2>5. r \in T  BY <1>2, <2>4
  <2> QED  BY <2>2, <2>5
<1> HIDE DEF N
<1>3. Nat \subseteq N  BY <1>1, <1>2, SetInduction
<1>4. \A s \in Seq(S): Len(s) \in N  BY <1>3
<1> QED  BY <1>4 DEF N

LEMMA ConcatAppend ==
  ASSUME NEW S, NEW a \in Seq(S), NEW b \in Seq(S), NEW u \in S
  PROVE  a \o Append(b, u) = Append(a \o b, u)
<1>1. Append(b, u) = b \o <<u>> /\ Append(a \o b, u) = (a \o b) \o <<u>> /\ a \o b \in Seq(S)
  BY AppendIsConcat, ConcatProperties
<1>2. <<u>> \in Seq(S)  OBVIOUS
<1> QED  BY <1>1, <1>2, ConcatAssociative

(* Parts that are the same, from place a on in one and b on in the other. *)
SameParts(S, f, g, a, b, n) ==
  /\ \A k \in 0..a + n - 1: f[k] \in Seq(S)
  /\ \A k \in 0..b + n - 1: g[k] \in Seq(S)
  /\ \A k \in 0..n - 1: f[a + k] = g[b + k]

LEMMA JoinedShift ==
  ASSUME NEW S, NEW f, NEW g, NEW a \in Nat, NEW b \in Nat, NEW n \in Nat,
         SameParts(S, f, g, a, b, n), Joined(f, a) = Joined(g, b)
  PROVE  Joined(f, a + n) = Joined(g, b + n)
<1>0. /\ \A k \in 0..a + n - 1: f[k] \in Seq(S)
      /\ \A k \in 0..b + n - 1: g[k] \in Seq(S)
      /\ \A k \in 0..n - 1: f[a + k] = g[b + k]
  BY DEF SameParts
<1> DEFINE T == {m \in Nat: m <= n => Joined(f, a + m) = Joined(g, b + m)}
<1>1. 0 \in T
  <2>1. a + 0 = a /\ b + 0 = b  OBVIOUS
  <2> QED  BY <2>1
<1>2. ASSUME NEW m \in T \cap Nat PROVE m + 1 \in T
  <2> SUFFICES ASSUME m + 1 <= n PROVE Joined(f, a + (m + 1)) = Joined(g, b + (m + 1))
    OBVIOUS
  <2> DEFINE i == a + (m + 1)
             j == b + (m + 1)
  <2>1. i \in Nat /\ j \in Nat /\ i > 0 /\ j > 0 /\ i - 1 = a + m /\ j - 1 = b + m  OBVIOUS
  <2>2. \A k \in 0..i - 1: k \in 0..a + n - 1  OBVIOUS
  <2>3. \A k \in 0..j - 1: k \in 0..b + n - 1  OBVIOUS
  <2>4. f[a + m] = g[b + m]
    <3>1. m \in 0..n - 1  OBVIOUS
    <3> QED  BY <1>0, <3>1
  <2>5. Joined(f, a + m) = Joined(g, b + m)
    <3>1. m <= n  OBVIOUS
    <3> QED  BY <1>2, <3>1
  <2> HIDE DEF i, j, T
  <2>6. \A k \in 0..i - 1: f[k] \in Seq(S)  BY <1>0, <2>2
  <2>7. \A k \in 0..j - 1: g[k] \in Seq(S)  BY <1>0, <2>3
  <2>8. Joined(f, i) = Joined(f, i - 1) \o f[i - 1]  BY <2>1, <2>6, JoinedIs
  <2>9. Joined(g, j) = Joined(g, j - 1) \o g[j - 1]  BY <2>1, <2>7, JoinedIs
  <2> QED  BY <2>1, <2>4, <2>5, <2>8, <2>9 DEF i, j
<1> HIDE DEF T
<1>3. Nat \subseteq T  BY <1>1, <1>2, SetInduction
<1>4. n \in T /\ n <= n  BY <1>3
<1> QED  BY <1>4 DEF T

(* Parts that are empty add nothing. *)
LEMMA JoinedNothing ==
  ASSUME NEW S, NEW f, NEW a \in Nat, NEW n \in Nat, n >= a,
         \A k \in 0..n - 1: f[k] \in Seq(S), \A k \in a..n - 1: f[k] = << >>
  PROVE  Joined(f, n) = Joined(f, a)
<1> DEFINE T == {m \in Nat: a + m <= n => Joined(f, a + m) = Joined(f, a)}
<1>1. 0 \in T
  <2>1. a + 0 = a  OBVIOUS
  <2> QED  BY <2>1
<1>2. ASSUME NEW m \in T \cap Nat PROVE m + 1 \in T
  <2> SUFFICES ASSUME a + (m + 1) <= n PROVE Joined(f, a + (m + 1)) = Joined(f, a)
    OBVIOUS
  <2> DEFINE i == a + (m + 1)
  <2>1. i \in Nat /\ i > 0 /\ i - 1 = a + m /\ i - 1 \in a..n - 1  OBVIOUS
  <2>2. \A k \in 0..i - 1: k \in 0..n - 1  OBVIOUS
  <2>3. Joined(f, a + m) = Joined(f, a)
    <3>1. a + m <= n  OBVIOUS
    <3> QED  BY <1>2, <3>1
  <2>4. \A k \in 0..a + m - 1: k \in 0..n - 1  OBVIOUS
  <2> HIDE DEF i, T
  <2>5. \A k \in 0..i - 1: f[k] \in Seq(S)  BY <2>2
  <2>6. Joined(f, i) = Joined(f, i - 1) \o f[i - 1]  BY <2>1, <2>5, JoinedIs
  <2>7. f[i - 1] = << >>  BY <2>1
  <2> DEFINE l == a + m
  <2>8. l \in Nat /\ \A k \in 0..l - 1: f[k] \in Seq(S)  BY <2>4
  <2> HIDE DEF l
  <2>9. Joined(f, l) \in Seq(S)  BY <2>8, JoinedIs
  <2>10. Joined(f, l) \o << >> = Joined(f, l)  BY <2>9, ConcatEmptySeq
  <2> QED  BY <2>1, <2>3, <2>6, <2>7, <2>10 DEF i, l
<1> HIDE DEF T
<1>3. Nat \subseteq T  BY <1>1, <1>2, SetInduction
<1>4. n - a \in Nat /\ a + (n - a) = n /\ n <= n  OBVIOUS
<1>5. n - a \in T  BY <1>3, <1>4
<1> QED  BY <1>4, <1>5 DEF T

=============================================================================
