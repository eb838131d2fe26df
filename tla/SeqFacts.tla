------------------------------- MODULE SeqFacts -------------------------------
(***************************************************************************)
(* Facts about the naturals and about sequences that the other proof       *)
(* modules cite: least elements and induction stated of sets, recursion up *)
(* to a bound, lists, and what FlattenSeq of the community modules returns.*)
(***************************************************************************)
EXTENDS Integers, SequencesExt, WellFoundedInduction, FiniteSetTheorems, FunctionTheorems, TLAPS

(* The well-founded order of the naturals as a set of pairs.               *)
Below == {ss \in Nat \X Nat : ss[1] < ss[2]}

(* It is one, by the library's theorem.                                    *)
LEMMA BelowWellFounded == IsWellFoundedOn(Below, Nat)
<1>1. OpToRel(<, Nat) = Below
  BY Zenon DEF OpToRel, Below
<1> QED
  BY <1>1, NatLessThanWellFounded, Zenon

(* A set of naturals that is not empty has a least element.                *)
LEMMA LeastNatural ==
  ASSUME NEW S, S \subseteq Nat, S # {}
  PROVE  \E x \in S : \A y \in S : x <= y
<1>1. PICK x \in S : \A y \in S : ~(<<y, x>> \in Below)
  BY BelowWellFounded, WFMin, Zenon
<1>2. ASSUME NEW y \in S PROVE x <= y
  <2>1. x \in Nat /\ y \in Nat
    OBVIOUS
  <2>2. <<y, x>> \in Nat \X Nat /\ <<y, x>>[1] = y /\ <<y, x>>[2] = x
    BY <2>1
  <2>3. y < x => <<y, x>> \in Below
    BY <2>2 DEF Below
  <2> QED
    BY <1>1, <2>1, <2>3
<1> QED
  BY <1>2

(* Induction: a set that has 0 and, with a number, the next one.           *)
LEMMA InductionOnSet ==
  ASSUME NEW P, 0 \in P, \A n \in Nat : n \in P => n + 1 \in P
  PROVE  \A n \in Nat : n \in P
<1>1. SUFFICES ASSUME Nat \ P # {} PROVE FALSE
  OBVIOUS
<1>2. PICK x \in Nat \ P : \A y \in Nat \ P : x <= y
  BY <1>1, LeastNatural
<1>3. x - 1 \in Nat /\ x - 1 \in P
  BY <1>2
<1> QED
  BY <1>2, <1>3

(* The same up to a bound.                                                 *)
LEMMA InductionUpTo ==
  ASSUME NEW m \in Nat, NEW P, 0 \in P, \A n \in 0 .. m - 1 : n \in P => n + 1 \in P
  PROVE  \A n \in 0 .. m : n \in P
<1> DEFINE Q == {n \in Nat : n <= m => n \in P}
<1>1. 0 \in Q /\ \A n \in Nat : n \in Q => n + 1 \in Q
  OBVIOUS
<1>2. \A n \in Nat : n \in Q
  <2> HIDE DEF Q
  <2> QED
    BY <1>1, InductionOnSet
<1> QED
  BY <1>2

(* Some of the naturals up to n have a greatest one.                       *)
LEMMA GreatestNatural ==
  ASSUME NEW n \in Nat, NEW S, S \subseteq 0 .. n, S # {}
  PROVE  \E x \in S : \A y \in S : x >= y
<1> DEFINE T == {n - x : x \in S}
<1>1. T \subseteq Nat /\ T # {}
  <2>1. \A x \in S : n - x \in Nat
    OBVIOUS
  <2> QED
    BY <2>1
<1>2. PICK t \in T : \A y \in T : t <= y
  <2> HIDE DEF T
  <2> QED
    BY <1>1, LeastNatural
<1>3. PICK x \in S : t = n - x
  BY <1>2
<1>4. ASSUME NEW y \in S PROVE x >= y
  <2>1. n - y \in T /\ x \in Int /\ y \in Int
    OBVIOUS
  <2>2. t <= n - y
    BY <1>2, <2>1
  <2> QED
    BY <1>3, <2>1, <2>2
<1> QED
  BY <1>3, <1>4

(* A walk along a linked list that ends at 0 exists, however the list is   *)
(* linked.                                                                 *)
Walk(n, first, next) ==
  CHOOSE at : at = [k \in 0 .. n |->
    IF k = 0 THEN first ELSE IF at[k - 1] = 0 THEN 0 ELSE next[at[k - 1]]]

(* And it takes the steps it should.                                       *)
LEMMA WalkExists ==
  ASSUME NEW n \in Nat, NEW first, NEW next
  PROVE  LET at == Walk(n, first, next)
         IN /\ at[0] = first
            /\ \A k \in 0 .. n - 1 : at[k + 1] = IF at[k] = 0 THEN 0 ELSE next[at[k]]
<1> DEFINE at == Walk(n, first, next)
           IsWalk(f, m) ==
             f = [k \in 0 .. m |->
                    IF k = 0 THEN first ELSE IF f[k - 1] = 0 THEN 0 ELSE next[f[k - 1]]]
           P == {m \in Nat : \E f : IsWalk(f, m)}
<1>1. 0 \in P
  <2>1. IsWalk([k \in 0 .. 0 |-> first], 0)
    OBVIOUS
  <2> QED
    BY <2>1
<1>2. ASSUME NEW m \in Nat, m \in P PROVE m + 1 \in P
  <2>1. PICK f : IsWalk(f, m)
    BY <1>2
  <2> DEFINE g == [k \in 0 .. m + 1 |->
                     IF k <= m THEN f[k] ELSE IF f[m] = 0 THEN 0 ELSE next[f[m]]]
  <2>2. ASSUME NEW k \in 0 .. m + 1
        PROVE  g[k] = IF k = 0 THEN first ELSE IF g[k - 1] = 0 THEN 0 ELSE next[g[k - 1]]
    <3>1. CASE k = 0
      BY <2>1, <3>1
    <3>2. CASE k # 0 /\ k <= m
      <4>1. k - 1 \in 0 .. m /\ k \in 0 .. m /\ g[k] = f[k] /\ g[k - 1] = f[k - 1]
        BY <3>2
      <4>2. f[k] = IF f[k - 1] = 0 THEN 0 ELSE next[f[k - 1]]
        BY <2>1, <3>2, <4>1
      <4> QED
        BY <3>2, <4>1, <4>2
    <3>3. CASE k = m + 1
      BY <3>3
    <3> QED
      BY <3>1, <3>2, <3>3
  <2>3. DOMAIN g = 0 .. m + 1 /\ g = [k \in 0 .. m + 1 |-> g[k]]
    OBVIOUS
  <2> HIDE DEF g
  <2>4. IsWalk(g, m + 1)
    BY <2>2, <2>3
  <2> QED
    BY <2>4
<1>3. \E f : IsWalk(f, n)
  <2>1. \A m \in Nat : m \in P
    <3> HIDE DEF P
    <3> QED
      BY <1>1, <1>2, InductionOnSet
  <2> QED
    BY <2>1
<1>4. IsWalk(at, n)
  <2>1. at = CHOOSE f : IsWalk(f, n)
    BY DEF Walk
  <2> HIDE DEF IsWalk
  <2> QED
    BY <1>3, <2>1
<1> HIDE DEF at
<1>5. \A k \in 0 .. n :
        at[k] = IF k = 0 THEN first ELSE IF at[k - 1] = 0 THEN 0 ELSE next[at[k - 1]]
  BY <1>4
<1>6. at[0] = first
  BY <1>5
<1>7. ASSUME NEW k \in 0 .. n - 1
      PROVE  at[k + 1] = IF at[k] = 0 THEN 0 ELSE next[at[k]]
  <2>1. k + 1 \in 0 .. n /\ k + 1 # 0 /\ (k + 1) - 1 = k
    OBVIOUS
  <2> QED
    BY <1>5, <2>1
<1> QED
  BY <1>6, <1>7 DEF at

(* A function defined from its value below exists.                         *)
Recurses(f, n, V, first, step) ==
  f \in [0 .. n -> V] /\ f[0] = first /\ \A k \in 1 .. n : f[k] = step[k][f[k - 1]]

(* By induction on the bound.                                              *)
LEMMA RecursionExists ==
  ASSUME NEW n \in Nat, NEW V, NEW first \in V, NEW step \in [1 .. n -> [V -> V]]
  PROVE  \E f : Recurses(f, n, V, first, step)
<1> DEFINE Upto(f, m) == /\ f \in [0 .. n -> V] /\ f[0] = first
                         /\ \A k \in 1 .. m : f[k] = step[k][f[k - 1]]
           P == {m \in Nat : \E f : Upto(f, m)}
<1>1. 0 \in P
  <2>1. Upto([k \in 0 .. n |-> first], 0)
    OBVIOUS
  <2> QED
    BY <2>1
<1>2. ASSUME NEW m \in 0 .. n - 1, m \in P PROVE m + 1 \in P
  <2>1. PICK f : Upto(f, m)
    BY <1>2
  <2> DEFINE g == [f EXCEPT ![m + 1] = step[m + 1][f[m]]]
  <2>2. m + 1 \in 1 .. n /\ m \in 0 .. n /\ f[m] \in V /\ step[m + 1][f[m]] \in V
    BY <2>1
  <2>3. g \in [0 .. n -> V] /\ g[0] = first
    BY <2>1, <2>2
  <2>4. ASSUME NEW k \in 1 .. m + 1 PROVE g[k] = step[k][g[k - 1]]
    <3>1. CASE k = m + 1
      BY <2>1, <2>2, <3>1
    <3>2. CASE k # m + 1
      <4>1. k \in 1 .. m /\ k \in 0 .. n /\ k - 1 \in 0 .. n /\ k - 1 # m + 1
        BY <3>2, <2>2
      <4> QED
        BY <2>1, <4>1
    <3> QED
      BY <3>1, <3>2
  <2>5. Upto(g, m + 1)
    <3> HIDE DEF g
    <3> QED
      BY <2>3, <2>4
  <2> HIDE DEF Upto
  <2> QED
    BY <2>5
<1>3. n \in P
  <2>1. \A m \in 0 .. n : m \in P
    <3> HIDE DEF P
    <3> QED
      BY <1>1, <1>2, InductionUpTo
  <2> QED
    BY <2>1
<1> QED
  BY <1>3 DEF Recurses

-----------------------------------------------------------------------------
(* FlattenSeq joins one sequence after the other.                          *)
Joins(seqs) ==
  CHOOSE f : f = [i \in 1 .. Len(seqs) |-> IF i = 1 THEN seqs[i] ELSE f[i - 1] \o seqs[i]]

(* FlattenSeq is the last of the joins, which grow by one sequence at a    *)
(* time.                                                                   *)
LEMMA FlattenJoins ==
  ASSUME NEW S, NEW seqs \in Seq(Seq(S)), seqs # <<>>
  PROVE  /\ Joins(seqs)[1] = seqs[1]
         /\ \A i \in 1 .. Len(seqs) - 1 : Joins(seqs)[i + 1] = Joins(seqs)[i] \o seqs[i + 1]
         /\ \A i \in 1 .. Len(seqs) : Joins(seqs)[i] \in Seq(S)
         /\ FlattenSeq(seqs) = Joins(seqs)[Len(seqs)]
<1> DEFINE n == Len(seqs)
           V == Seq(S)
           step == [k \in 1 .. n |-> [v \in V |-> v \o seqs[k]]]
           IsJoins(f) ==
             f = [i \in 1 .. Len(seqs) |-> IF i = 1 THEN seqs[i] ELSE f[i - 1] \o seqs[i]]
<1>1. n \in Nat /\ n >= 1 /\ <<>> \in V /\ \A k \in 1 .. n : seqs[k] \in V
  OBVIOUS
<1>2. step \in [1 .. n -> [V -> V]]
  BY <1>1
<1>3. PICK f \in [0 .. n -> V] : f[0] = <<>> /\ \A k \in 1 .. n : f[k] = step[k][f[k - 1]]
  <2> DEFINE none == <<>>
  <2>1. n \in Nat /\ none \in V
    BY <1>1
  <2>2. \E f : Recurses(f, n, V, none, step)
    <3> HIDE DEF n, V, step, none
    <3> QED
      BY <2>1, <1>2, RecursionExists
  <2> HIDE DEF V, step
  <2> QED
    BY <2>2 DEF Recurses
<1>4. ASSUME NEW k \in 1 .. n PROVE f[k] = f[k - 1] \o seqs[k] /\ f[k - 1] \in V
  <2>1. k - 1 \in 0 .. n /\ f[k - 1] \in V
    <3>1. k - 1 \in 0 .. n
      BY <1>1
    <3> HIDE DEF V
    <3> QED
      BY <3>1
  <2>2. step[k][f[k - 1]] = f[k - 1] \o seqs[k]
    <3> HIDE DEF V
    <3> QED
      BY <2>1
  <2> QED
    BY <1>3, <2>1, <2>2
<1>5. f[1] = seqs[1]
  <2>1. 1 \in 1 .. n /\ f[1 - 1] = <<>> /\ seqs[1] \in V
    BY <1>1, <1>3
  <2> QED
    BY <1>4, <2>1
<1> DEFINE g == [i \in 1 .. n |-> f[i]]
<1>6. IsJoins(g)
  <2>1. ASSUME NEW i \in 1 .. n PROVE g[i] = IF i = 1 THEN seqs[i] ELSE g[i - 1] \o seqs[i]
    <3>1. CASE i = 1
      BY <1>5, <3>1
    <3>2. CASE i # 1
      <4>1. f[i] = f[i - 1] \o seqs[i]
        BY <1>4
      <4>2. i - 1 \in 1 .. n /\ g[i] = f[i] /\ g[i - 1] = f[i - 1]
        BY <1>1, <3>2
      <4> QED
        BY <3>2, <4>1, <4>2
    <3> QED
      BY <3>1, <3>2
  <2> QED
    BY <2>1
<1>7. IsJoins(Joins(seqs))
  <2> HIDE DEF IsJoins, g
  <2>1. Joins(seqs) = CHOOSE h : IsJoins(h)
    BY DEF Joins, IsJoins
  <2> QED
    BY <1>6, <2>1
<1> DEFINE h == Joins(seqs)
<1> HIDE DEF h
<1>8. \A i \in 1 .. n : h[i] = IF i = 1 THEN seqs[i] ELSE h[i - 1] \o seqs[i]
  BY <1>7 DEF h
<1>9. ASSUME NEW i \in 1 .. n - 1 PROVE h[i + 1] = h[i] \o seqs[i + 1]
  <2>1. i + 1 \in 1 .. n /\ i + 1 # 1 /\ (i + 1) - 1 = i
    BY <1>1
  <2> QED
    BY <1>8, <2>1
<1>10. h[1] = seqs[1]
  BY <1>1, <1>8
<1>11. \A i \in 1 .. n : h[i] \in V
  <2> DEFINE P == {m \in 0 .. n : m = 0 \/ h[m] \in V}
  <2>1. 0 \in P
    BY <1>1
  <2>2. ASSUME NEW m \in 0 .. n - 1, m \in P PROVE m + 1 \in P
    <3>1. CASE m = 0
      BY <1>1, <1>10, <3>1
    <3>2. CASE m # 0
      <4>1. m \in 1 .. n - 1 /\ h[m] \in V /\ m + 1 \in 1 .. n /\ seqs[m + 1] \in V
        BY <1>1, <2>2, <3>2
      <4>2. h[m + 1] = h[m] \o seqs[m + 1]
        BY <1>9, <4>1
      <4> QED
          <5>1. h[m] \o seqs[m + 1] \in Seq(S)
            BY <4>1
        <5>2. m + 1 \in 0 .. n
            BY <4>1
        <5> QED
          BY <4>2, <5>1, <5>2
    <3> QED
      BY <3>1, <3>2
  <2>3. \A m \in 0 .. n : m \in P
    <3> HIDE DEF P, n
    <3> QED
      BY <1>1, <2>1, <2>2, InductionUpTo
  <2> QED
    BY <2>3
<1>12. FlattenSeq(seqs) = h[n]
  BY <1>1 DEF FlattenSeq, Joins, h
<1> QED
  BY <1>9, <1>10, <1>11, <1>12 DEF h

(* What concatenation returns, element by element.                         *)
IsJoin(c, s, t) ==
  /\ Len(s) \in Nat /\ Len(c) = Len(s) + Len(t)
  /\ \A k \in DOMAIN s : k \in DOMAIN c /\ c[k] = s[k]
  /\ \A j \in DOMAIN t : j + Len(s) \in DOMAIN c /\ c[j + Len(s)] = t[j]
  /\ \A k \in DOMAIN c :
       \/ k \in DOMAIN s /\ c[k] = s[k]
       \/ /\ k \in Nat /\ k > Len(s) /\ k - Len(s) \in DOMAIN t
          /\ c[k] = t[k - Len(s)]

(* Of two sequences over one set.                                          *)
LEMMA Concatenated ==
  ASSUME NEW S, NEW s \in Seq(S), NEW t \in Seq(S)
  PROVE  s \o t \in Seq(S) /\ IsJoin(s \o t, s, t)
<1>1. DOMAIN s = 1 .. Len(s) /\ DOMAIN t = 1 .. Len(t) /\ Len(s) \in Nat /\ Len(t) \in Nat
  OBVIOUS
<1>2. s \o t \in Seq(S) /\ Len(s \o t) = Len(s) + Len(t)
  OBVIOUS
<1>3. DOMAIN (s \o t) = 1 .. Len(s) + Len(t)
  BY <1>2
<1>4. \A k \in 1 .. Len(s) + Len(t) :
        (s \o t)[k] = IF k <= Len(s) THEN s[k] ELSE t[k - Len(s)]
  OBVIOUS
<1> QED
  BY <1>1, <1>2, <1>3, <1>4 DEF IsJoin

(* The elements of the joined sequence are those of the parts.             *)
JoinedFrom(seqs, m) ==
  \A k \in DOMAIN Joins(seqs)[m] :
    \E i \in 1 .. m : \E j \in DOMAIN seqs[i] : Joins(seqs)[m][k] = seqs[i][j]
(* And every element of the first m sequences is in it.                    *)
JoinedHas(seqs, m) ==
  \A i \in 1 .. m : \A j \in DOMAIN seqs[i] :
    \E k \in DOMAIN Joins(seqs)[m] : Joins(seqs)[m][k] = seqs[i][j]

(* By induction on m.                                                      *)
LEMMA JoinsElements ==
  ASSUME NEW S, NEW seqs \in Seq(Seq(S)), seqs # <<>>, NEW m \in 1 .. Len(seqs)
  PROVE  JoinedFrom(seqs, m) /\ JoinedHas(seqs, m)
<1> DEFINE n == Len(seqs)
           J == Joins(seqs)
           P == {x \in 0 .. n : x # 0 => JoinedFrom(seqs, x) /\ JoinedHas(seqs, x)}
<1> HIDE DEF J
<1>1. n \in Nat /\ n >= 1 /\ DOMAIN seqs = 1 .. n /\ \A i \in 1 .. n : seqs[i] \in Seq(S)
  OBVIOUS
<1>2. /\ J[1] = seqs[1] /\ \A i \in 1 .. n - 1 : J[i + 1] = J[i] \o seqs[i + 1]
      /\ \A i \in 1 .. n : J[i] \in Seq(S)
  BY FlattenJoins DEF J
<1>3. 0 \in P
  BY <1>1
<1>4. ASSUME NEW x \in 0 .. n - 1, x \in P PROVE x + 1 \in P
  <2>1. CASE x = 0
    <3>1. 1 \in 1 .. 1 /\ \A i \in 1 .. 1 : i = 1
      OBVIOUS
    <3>2. JoinedFrom(seqs, 1) /\ JoinedHas(seqs, 1)
      BY <1>2, <3>1 DEF JoinedFrom, JoinedHas, J
    <3>3. x + 1 = 1 /\ 1 \in 0 .. n
      BY <1>1, <2>1
    <3> QED
      BY <3>2, <3>3
  <2>2. CASE x # 0
    <3> DEFINE s == J[x]
               t == seqs[x + 1]
               c == J[x + 1]
    <3>1. x \in 1 .. n - 1 /\ x \in 1 .. n /\ x + 1 \in 1 .. n /\ x + 1 \in 0 .. n
          /\ x + 1 \in 1 .. x + 1 /\ \A i \in 1 .. x : i \in 1 .. x + 1
      BY <1>1, <2>2
    <3>2. c = s \o t /\ s \in Seq(S) /\ t \in Seq(S)
      BY <1>1, <1>2, <3>1
    <3>3. /\ \A k \in DOMAIN s : k \in DOMAIN c /\ c[k] = s[k]
          /\ \A j \in DOMAIN t : j + Len(s) \in DOMAIN c /\ c[j + Len(s)] = t[j]
          /\ \A k \in DOMAIN c :
                \/ k \in DOMAIN s /\ c[k] = s[k]
                \/ /\ k \in Nat /\ k > Len(s) /\ k - Len(s) \in DOMAIN t
                   /\ c[k] = t[k - Len(s)]
      <4> HIDE DEF s, t, c
      <4>1. IsJoin(c, s, t)
        BY <3>2, Concatenated
      <4> QED
        BY <4>1 DEF IsJoin
    <3>4. /\ \A k \in DOMAIN s : \E i \in 1 .. x : \E j \in DOMAIN seqs[i] : s[k] = seqs[i][j]
          /\ \A i \in 1 .. x : \A j \in DOMAIN seqs[i] :
               \E k \in DOMAIN s : s[k] = seqs[i][j]
      BY <1>4, <2>2 DEF JoinedFrom, JoinedHas, J
    <3> HIDE DEF s, c
    <3>5. JoinedFrom(seqs, x + 1)
      <4> SUFFICES ASSUME NEW k \in DOMAIN c
                   PROVE  \E i \in 1 .. x + 1 : \E j \in DOMAIN seqs[i] : c[k] = seqs[i][j]
        BY DEF JoinedFrom, c, J
      <4>1. CASE k \in DOMAIN s /\ c[k] = s[k]
        <5>1. PICK i \in 1 .. x : \E j \in DOMAIN seqs[i] : s[k] = seqs[i][j]
          BY <3>4, <4>1
        <5> QED
          BY <3>1, <4>1, <5>1
      <4>2. CASE /\ k \in Nat /\ k > Len(s) /\ k - Len(s) \in DOMAIN t
                 /\ c[k] = t[k - Len(s)]
        BY <3>1, <4>2
      <4> QED
        BY <3>3, <4>1, <4>2
    <3>6. JoinedHas(seqs, x + 1)
      <4> SUFFICES ASSUME NEW i \in 1 .. x + 1, NEW j \in DOMAIN seqs[i]
                   PROVE  \E k \in DOMAIN c : c[k] = seqs[i][j]
        BY DEF JoinedHas, c, J
      <4>1. CASE i \in 1 .. x
        <5>1. PICK k \in DOMAIN s : s[k] = seqs[i][j]
          BY <3>4, <4>1
        <5> QED
          BY <3>3, <5>1
      <4>2. CASE i = x + 1
        <5>1. j \in DOMAIN t /\ t[j] = seqs[i][j]
          BY <4>2
        <5> HIDE DEF t
        <5> QED
          BY <3>3, <5>1
      <4> QED
        BY <3>1, <4>1, <4>2
    <3> QED
      BY <3>1, <3>5, <3>6
  <2> QED
    BY <2>1, <2>2
<1> QED
  <2>1. \A x \in 0 .. n : x \in P
    <3> HIDE DEF P, n
    <3> QED
      BY <1>1, <1>3, <1>4, InductionUpTo
  <2>2. m \in 0 .. n /\ m # 0
    OBVIOUS
  <2> QED
    BY <2>1, <2>2

(* FlattenSeq returns the elements of the sequences, no other and none     *)
(* less.                                                                   *)
LEMMA FlattenElements ==
  ASSUME NEW S, NEW seqs \in Seq(Seq(S))
  PROVE  /\ FlattenSeq(seqs) \in Seq(S)
         /\ \A k \in DOMAIN FlattenSeq(seqs) :
              \E i \in DOMAIN seqs : \E j \in DOMAIN seqs[i] : FlattenSeq(seqs)[k] = seqs[i][j]
         /\ \A i \in DOMAIN seqs : \A j \in DOMAIN seqs[i] :
              \E k \in DOMAIN FlattenSeq(seqs) : FlattenSeq(seqs)[k] = seqs[i][j]
<1>1. CASE seqs = <<>>
  <2>1. FlattenSeq(seqs) = <<>> /\ DOMAIN seqs = {} /\ <<>> \in Seq(S)
    BY <1>1 DEF FlattenSeq
  <2>2. \A s : s = <<>> => DOMAIN s = {}
    OBVIOUS
  <2> QED
    BY <2>1, <2>2
<1>2. CASE seqs # <<>>
  <2>1. Len(seqs) \in 1 .. Len(seqs) /\ DOMAIN seqs = 1 .. Len(seqs)
    BY <1>2
  <2>2. JoinedFrom(seqs, Len(seqs)) /\ JoinedHas(seqs, Len(seqs))
    BY <1>2, <2>1, JoinsElements
  <2>3. FlattenSeq(seqs) = Joins(seqs)[Len(seqs)] /\ Joins(seqs)[Len(seqs)] \in Seq(S)
    BY <1>2, <2>1, FlattenJoins
  <2> DEFINE F == FlattenSeq(seqs)
  <2> HIDE DEF F
  <2>4. /\ \A k \in DOMAIN F : \E i \in DOMAIN seqs : \E j \in DOMAIN seqs[i] : F[k] = seqs[i][j]
        /\ \A i \in DOMAIN seqs : \A j \in DOMAIN seqs[i] : \E k \in DOMAIN F : F[k] = seqs[i][j]
    <3>1. F = Joins(seqs)[Len(seqs)]
      BY <2>3 DEF F
    <3>2. ASSUME NEW k \in DOMAIN F
          PROVE  \E i \in DOMAIN seqs : \E j \in DOMAIN seqs[i] : F[k] = seqs[i][j]
      BY <2>1, <2>2, <3>1 DEF JoinedFrom
    <3>3. ASSUME NEW i \in DOMAIN seqs, NEW j \in DOMAIN seqs[i]
          PROVE  \E k \in DOMAIN F : F[k] = seqs[i][j]
      BY <2>1, <2>2, <3>1 DEF JoinedHas
    <3> QED
      BY <3>2, <3>3
  <2>5. FlattenSeq(seqs) \in Seq(S)
    BY <2>3
  <2> QED
    BY <2>4, <2>5 DEF F
<1> QED
  BY <1>1, <1>2

(* Parts that have no element in common, nor one twice, are joined to a    *)
(* sequence that has none twice.                                           *)
LEMMA FlattenInjective ==
  ASSUME NEW S, NEW seqs \in Seq(Seq(S)),
         \A i1, i2 \in DOMAIN seqs : \A j1 \in DOMAIN seqs[i1], j2 \in DOMAIN seqs[i2] :
           seqs[i1][j1] = seqs[i2][j2] => i1 = i2 /\ j1 = j2
  PROVE  \A k1, k2 \in DOMAIN FlattenSeq(seqs) :
           FlattenSeq(seqs)[k1] = FlattenSeq(seqs)[k2] => k1 = k2
<1>1. CASE seqs = <<>>
  <2>1. FlattenSeq(seqs) = <<>>
    BY <1>1 DEF FlattenSeq
  <2>2. \A s : s = <<>> => DOMAIN s = {}
    OBVIOUS
  <2> QED
    BY <2>1, <2>2
<1>2. CASE seqs # <<>>
  <2> DEFINE n == Len(seqs)
             J == Joins(seqs)
             Once(x) == \A k1, k2 \in DOMAIN J[x] : J[x][k1] = J[x][k2] => k1 = k2
             P == {x \in 0 .. n : x # 0 => Once(x)}
  <2> HIDE DEF J
  <2>1. n \in Nat /\ n >= 1 /\ DOMAIN seqs = 1 .. n /\ \A i \in 1 .. n : seqs[i] \in Seq(S)
    BY <1>2
  <2>2. /\ J[1] = seqs[1] /\ \A i \in 1 .. n - 1 : J[i + 1] = J[i] \o seqs[i + 1]
        /\ \A i \in 1 .. n : J[i] \in Seq(S)
        /\ FlattenSeq(seqs) = J[n]
    BY <1>2, FlattenJoins DEF J
  <2>3. 0 \in P
    BY <2>1
  <2>4. ASSUME NEW x \in 0 .. n - 1, x \in P PROVE x + 1 \in P
    <3>1. CASE x = 0
      <4>1. 1 \in DOMAIN seqs
        BY <2>1
      <4>2. Once(1)
        BY <2>2, <4>1
      <4>3. x + 1 = 1 /\ 1 \in 0 .. n
        BY <2>1, <3>1
      <4> HIDE DEF Once
      <4> QED
        BY <4>2, <4>3
    <3>2. CASE x # 0
      <4> DEFINE s == J[x]
                 t == seqs[x + 1]
                 c == J[x + 1]
                 Old(k) == k \in DOMAIN s /\ c[k] = s[k]
                 New(k) == /\ k \in Nat /\ k > Len(s) /\ k - Len(s) \in DOMAIN t
                           /\ c[k] = t[k - Len(s)]
      <4>1. x \in 1 .. n - 1 /\ x \in 1 .. n /\ x + 1 \in 1 .. n /\ x + 1 \in 0 .. n
        BY <2>1, <3>2
      <4>2. c = s \o t /\ s \in Seq(S) /\ t \in Seq(S)
        BY <2>1, <2>2, <4>1
      <4>3. Len(s) \in Nat /\ \A k \in DOMAIN c : Old(k) \/ New(k)
        <5> HIDE DEF s, t, c
        <5>1. IsJoin(c, s, t)
          BY <4>2, Concatenated
        <5> QED
          BY <5>1 DEF IsJoin
      <4>4. \A k \in DOMAIN s : \E i \in 1 .. x : \E j \in DOMAIN seqs[i] : s[k] = seqs[i][j]
        <5>1. JoinedFrom(seqs, x)
          BY <1>2, <4>1, JoinsElements
        <5> QED
          BY <5>1 DEF JoinedFrom, J
      <4>5. Once(x) /\ x + 1 \in DOMAIN seqs
        BY <2>1, <2>4, <3>2, <4>1
      <4> HIDE DEF s, c
      <4>6. ASSUME NEW k1 \in DOMAIN c, NEW k2 \in DOMAIN c, c[k1] = c[k2] PROVE k1 = k2
        <5>1. ASSUME NEW a, NEW b, Old(a), New(b), c[a] = c[b] PROVE FALSE
          <6>1. PICK i \in 1 .. x : \E j \in DOMAIN seqs[i] : s[a] = seqs[i][j]
            BY <4>4, <5>1
          <6>2. PICK j \in DOMAIN seqs[i] : s[a] = seqs[i][j]
            BY <6>1
          <6>3. i \in DOMAIN seqs /\ i # x + 1
            BY <2>1, <4>1
          <6>4. seqs[i][j] = seqs[x + 1][b - Len(s)] /\ b - Len(s) \in DOMAIN seqs[x + 1]
            BY <5>1, <6>2
          <6> QED
            BY <4>5, <6>3, <6>4
        <5>2. CASE Old(k1) /\ Old(k2)
          BY <4>5, <4>6, <5>2 DEF s
        <5>3. CASE New(k1) /\ New(k2)
          <6>1. seqs[x + 1][k1 - Len(s)] = seqs[x + 1][k2 - Len(s)]
            BY <4>6, <5>3
          <6>2. k1 - Len(s) = k2 - Len(s)
            BY <4>5, <5>3, <6>1
          <6> QED
            BY <4>3, <5>3, <6>2
        <5> HIDE DEF Old, New
        <5> QED
          BY <4>3, <4>6, <5>1, <5>2, <5>3
      <4>7. Once(x + 1)
        BY <4>6 DEF c
      <4> HIDE DEF Once
      <4> QED
        BY <4>1, <4>7
    <3> QED
      BY <3>1, <3>2
  <2>5. Once(n)
    <3>1. \A x \in 0 .. n : x \in P
      <4> HIDE DEF P, n
      <4> QED
        BY <2>1, <2>3, <2>4, InductionUpTo
    <3> HIDE DEF Once
    <3> QED
      BY <2>1, <3>1
  <2>6. \A s : s = J[n] => \A k1, k2 \in DOMAIN s : s[k1] = s[k2] => k1 = k2
    BY <2>5
  <2> QED
    BY <2>2, <2>6
<1> QED
  BY <1>1, <1>2

(* When every part has one element at most, the k-th of the joined         *)
(* sequence is that of the part before which k - 1 others have one.        *)
NonEmpty(seqs, m) == {i \in 1 .. m : seqs[i] # <<>>}
(* Sequences of at most one element: the joined ones are the k-th elements *)
(* in order.                                                               *)
Options(seqs, m) ==
  LET s == Joins(seqs)[m]
  IN /\ Len(s) = Cardinality(NonEmpty(seqs, m))
     /\ \A k \in DOMAIN s :
          \E i \in NonEmpty(seqs, m) :
            Cardinality(NonEmpty(seqs, i - 1)) = k - 1 /\ s[k] = seqs[i][1]

(* Counting the sequences that are not empty, one by one.                  *)
LEMMA NonEmptyNext ==
  ASSUME NEW seqs, NEW m \in Nat
  PROVE  /\ IsFiniteSet(NonEmpty(seqs, m)) /\ Cardinality(NonEmpty(seqs, m)) \in Nat
         /\ Cardinality(NonEmpty(seqs, 0)) = 0
         /\ seqs[m + 1] = <<>> => NonEmpty(seqs, m + 1) = NonEmpty(seqs, m)
         /\ seqs[m + 1] # <<>> =>
              /\ NonEmpty(seqs, m + 1) = NonEmpty(seqs, m) \cup {m + 1}
              /\ Cardinality(NonEmpty(seqs, m + 1)) = Cardinality(NonEmpty(seqs, m)) + 1
<1>1. IsFiniteSet(NonEmpty(seqs, m)) /\ Cardinality(NonEmpty(seqs, m)) \in Nat
  <2>1. NonEmpty(seqs, m) \subseteq 1 .. m
    BY DEF NonEmpty
  <2>2. IsFiniteSet(1 .. m)
    BY FS_Interval
  <2>3. IsFiniteSet(NonEmpty(seqs, m))
    BY <2>1, <2>2, FS_Subset
  <2> QED
    BY <2>3, FS_CardinalityType
<1>2. Cardinality(NonEmpty(seqs, 0)) = 0
  <2>1. NonEmpty(seqs, 0) = {}
    BY DEF NonEmpty
  <2> QED
    BY <2>1, FS_EmptySet
<1>3. seqs[m + 1] = <<>> => NonEmpty(seqs, m + 1) = NonEmpty(seqs, m)
  BY DEF NonEmpty
<1>4. ASSUME seqs[m + 1] # <<>>
      PROVE  /\ NonEmpty(seqs, m + 1) = NonEmpty(seqs, m) \cup {m + 1}
             /\ Cardinality(NonEmpty(seqs, m + 1)) = Cardinality(NonEmpty(seqs, m)) + 1
  <2>1. NonEmpty(seqs, m + 1) = NonEmpty(seqs, m) \cup {m + 1} /\ m + 1 \notin NonEmpty(seqs, m)
    BY <1>4 DEF NonEmpty
  <2> QED
    BY <1>1, <2>1, FS_AddElement
<1> QED
  BY <1>1, <1>2, <1>3, <1>4

(* FlattenSeq of such sequences keeps their order.                         *)
LEMMA FlattenOptions ==
  ASSUME NEW S, NEW seqs \in Seq(Seq(S)), \A i \in DOMAIN seqs : Len(seqs[i]) <= 1
  PROVE  LET F == FlattenSeq(seqs)
         IN /\ Len(F) = Cardinality(NonEmpty(seqs, Len(seqs)))
            /\ \A k \in DOMAIN F :
                 \E i \in NonEmpty(seqs, Len(seqs)) :
                   Cardinality(NonEmpty(seqs, i - 1)) = k - 1 /\ F[k] = seqs[i][1]
<1>1. CASE seqs = <<>>
  <2>1. FlattenSeq(seqs) = <<>> /\ Len(seqs) = 0
    BY <1>1 DEF FlattenSeq
  <2>2. \A s : s = <<>> => DOMAIN s = {} /\ Len(s) = 0
    OBVIOUS
  <2>3. Cardinality(NonEmpty(seqs, 0)) = 0
    BY NonEmptyNext
  <2> QED
    BY <2>1, <2>2, <2>3
<1>2. CASE seqs # <<>>
  <2> DEFINE n == Len(seqs)
             J == Joins(seqs)
             P == {x \in 0 .. n : x # 0 => Options(seqs, x)}
  <2> HIDE DEF J
  <2>1. n \in Nat /\ n >= 1 /\ DOMAIN seqs = 1 .. n /\ \A i \in 1 .. n : seqs[i] \in Seq(S)
    BY <1>2
  <2>2. /\ J[1] = seqs[1] /\ \A i \in 1 .. n - 1 : J[i + 1] = J[i] \o seqs[i + 1]
        /\ \A i \in 1 .. n : J[i] \in Seq(S)
        /\ FlattenSeq(seqs) = J[n]
    BY <1>2, FlattenJoins DEF J
  <2>3. ASSUME NEW i \in 1 .. n, seqs[i] # <<>>
        PROVE  Len(seqs[i]) = 1 /\ DOMAIN seqs[i] = {1}
    <3>1. Len(seqs[i]) \in Nat /\ Len(seqs[i]) <= 1 /\ DOMAIN seqs[i] = 1 .. Len(seqs[i])
      BY <2>1
    <3>2. Len(seqs[i]) # 0
      BY <2>1, <2>3
    <3>3. 1 .. 1 = {1}
      OBVIOUS
    <3>4. Len(seqs[i]) = 1
      <4> DEFINE l == Len(seqs[i])
      <4>1. l \in Nat /\ l <= 1 /\ l # 0
        BY <3>1, <3>2
      <4> HIDE DEF l
      <4>2. l = 1
        BY <4>1
      <4> QED
        BY <4>2 DEF l
    <3> QED
      BY <3>1, <3>3, <3>4
  <2>4. 0 \in P
    BY <2>1
  <2>5. ASSUME NEW x \in 0 .. n - 1, x \in P PROVE x + 1 \in P
    <3> DEFINE t == seqs[x + 1]
               c == J[x + 1]
    <3>1. x \in Nat /\ x + 1 \in 1 .. n /\ x + 1 \in 0 .. n /\ t \in Seq(S) /\ c \in Seq(S)
      BY <2>1, <2>2
    <3>2. PICK s \in Seq(S) : /\ c = s \o t
                              /\ Len(s) = Cardinality(NonEmpty(seqs, x))
                              /\ \A k \in DOMAIN s :
                                   \E i \in NonEmpty(seqs, x) :
                                     /\ Cardinality(NonEmpty(seqs, i - 1)) = k - 1
                                     /\ s[k] = seqs[i][1]
      <4>1. CASE x = 0
        <5>1. t = <<>> \o t /\ <<>> \in Seq(S) /\ Len(<<>>) = 0 /\ c = t
          BY <2>2, <3>1, <4>1
        <5>2. \A e : e = <<>> => DOMAIN e = {}
          OBVIOUS
        <5>3. Cardinality(NonEmpty(seqs, x)) = 0
          BY <4>1, NonEmptyNext
        <5> HIDE DEF t, c
        <5> QED
          BY <5>1, <5>2, <5>3
      <4>2. CASE x # 0
        <5>1. x \in 1 .. n - 1 /\ x \in 1 .. n
          BY <2>1, <4>2
        <5>2. c = J[x] \o t /\ J[x] \in Seq(S)
          BY <2>2, <5>1
        <5>3. Options(seqs, x)
          BY <2>5, <4>2
        <5> HIDE DEF t, c
        <5> QED
          BY <5>2, <5>3 DEF Options, J
      <4> QED
        BY <4>1, <4>2
    <3> HIDE DEF c
    <3>3. Options(seqs, x + 1)
      <4> SUFFICES /\ Len(c) = Cardinality(NonEmpty(seqs, x + 1))
                   /\ \A k \in DOMAIN c :
                        \E i \in NonEmpty(seqs, x + 1) :
                          Cardinality(NonEmpty(seqs, i - 1)) = k - 1 /\ c[k] = seqs[i][1]
        BY DEF Options, c, J
      <4>1. CASE t = <<>>
        <5>1. NonEmpty(seqs, x + 1) = NonEmpty(seqs, x) /\ c = s
          BY <3>1, <3>2, <4>1, NonEmptyNext
        <5> QED
          BY <3>2, <5>1
      <4>2. CASE t # <<>>
        <5>1. /\ NonEmpty(seqs, x + 1) = NonEmpty(seqs, x) \cup {x + 1}
              /\ Cardinality(NonEmpty(seqs, x + 1)) = Cardinality(NonEmpty(seqs, x)) + 1
          BY <3>1, <4>2, NonEmptyNext
        <5>2. Len(t) = 1 /\ DOMAIN t = {1}
          BY <2>3, <3>1, <4>2
        <5>3. /\ Len(s) \in Nat /\ Len(c) = Len(s) + Len(t)
              /\ \A k \in DOMAIN c :
                   \/ k \in DOMAIN s /\ c[k] = s[k]
                   \/ /\ k \in Nat /\ k > Len(s) /\ k - Len(s) \in DOMAIN t
                      /\ c[k] = t[k - Len(s)]
          <6> HIDE DEF t
          <6>1. IsJoin(c, s, t)
            BY <3>1, <3>2, Concatenated
          <6> QED
            BY <6>1 DEF IsJoin
        <5>4. Len(c) = Cardinality(NonEmpty(seqs, x + 1))
          BY <3>2, <5>1, <5>2, <5>3
        <5>5. ASSUME NEW k \in DOMAIN c
              PROVE  \E i \in NonEmpty(seqs, x + 1) :
                       Cardinality(NonEmpty(seqs, i - 1)) = k - 1 /\ c[k] = seqs[i][1]
          <6>1. CASE k \in DOMAIN s /\ c[k] = s[k]
            BY <3>2, <5>1, <6>1
          <6>2. CASE /\ k \in Nat /\ k > Len(s) /\ k - Len(s) \in DOMAIN t
                     /\ c[k] = t[k - Len(s)]
            <7>1. k - Len(s) = 1 /\ c[k] = seqs[x + 1][1]
              BY <5>2, <6>2
            <7>2. k - 1 = Cardinality(NonEmpty(seqs, x)) /\ (x + 1) - 1 = x
              BY <3>1, <3>2, <5>3, <6>2, <7>1
            <7>3. x + 1 \in NonEmpty(seqs, x + 1)
              BY <5>1
            <7> QED
              BY <7>1, <7>2, <7>3
          <6> QED
            BY <5>3, <6>1, <6>2
        <5> QED
          BY <5>4, <5>5
      <4> QED
        BY <4>1, <4>2
    <3> QED
      BY <3>1, <3>3
  <2>6. Options(seqs, n)
    <3>1. \A x \in 0 .. n : x \in P
      <4> HIDE DEF P, n
      <4> QED
        BY <2>1, <2>4, <2>5, InductionUpTo
    <3> QED
      BY <2>1, <3>1
  <2> QED
    BY <2>2, <2>6 DEF Options, J
<1> QED
  BY <1>1, <1>2

(* A sequence, whatever its elements are.                                  *)
IsList(s) == Len(s) \in Nat /\ s = [i \in 1 .. Len(s) |-> s[i]]

(* A list is a sequence over the set of its elements.                      *)
LEMMA ListSeq ==
  ASSUME NEW s, IsList(s)
  PROVE  s \in Seq({s[i] : i \in 1 .. Len(s)}) /\ DOMAIN s = 1 .. Len(s)
<1> DEFINE S == {s[i] : i \in 1 .. Len(s)}
<1>1. s \in [1 .. Len(s) -> S] /\ Len(s) \in Nat
  BY DEF IsList
<1>2. DOMAIN s = 1 .. Len(s)
  BY <1>1
<1> HIDE DEF S
<1>3. s \in Seq(S)
  BY <1>1
<1> QED
  BY <1>2, <1>3 DEF S

(* A sequence over a set is a list.                                        *)
LEMMA SeqList ==
  ASSUME NEW S, NEW s \in Seq(S)
  PROVE  IsList(s)
BY DEF IsList

(* A function on 1 .. n is a list of n elements.                           *)
LEMMA FunctionList ==
  ASSUME NEW n \in Nat, NEW f, DOMAIN f = 1 .. n, f = [i \in 1 .. n |-> f[i]]
  PROVE  IsList(f) /\ Len(f) = n
<1> DEFINE S == {f[i] : i \in 1 .. n}
<1>1. f \in [1 .. n -> S]
  OBVIOUS
<1> HIDE DEF S
<1>2. f \in Seq(S)
  BY <1>1
<1>3. Len(f) = n
  BY <1>1, <1>2
<1> QED
  BY <1>3 DEF IsList

(* Two lists as sequences over one set.                                    *)
LEMMA ListPair ==
  ASSUME NEW s, NEW t, IsList(s), IsList(t)
  PROVE  \E S : s \in Seq(S) /\ t \in Seq(S)
<1> DEFINE A == {s[i] : i \in 1 .. Len(s)}
           B == {t[i] : i \in 1 .. Len(t)}
           C == A \cup B
<1>1. s \in [1 .. Len(s) -> C] /\ t \in [1 .. Len(t) -> C] /\ Len(s) \in Nat /\ Len(t) \in Nat
  BY DEF IsList
<1> HIDE DEF C
<1>2. s \in Seq(C) /\ t \in Seq(C)
  BY <1>1
<1> QED
  BY <1>2

(* The concatenation of two lists: a list, first the one, then the other.  *)
LEMMA ListConcat ==
  ASSUME NEW s, NEW t, IsList(s), IsList(t)
  PROVE  IsList(s \o t) /\ IsJoin(s \o t, s, t)
<1>1. PICK S : s \in Seq(S) /\ t \in Seq(S)
  BY ListPair
<1>2. s \o t \in Seq(S) /\ IsJoin(s \o t, s, t)
  BY <1>1, Concatenated
<1> QED
  BY <1>2, SeqList

(* A list with one more element at its end.                                *)
LEMMA ListAppend ==
  ASSUME NEW s, NEW e, IsList(s)
  PROVE  /\ IsList(Append(s, e)) /\ Len(Append(s, e)) = Len(s) + 1
         /\ DOMAIN s = 1 .. Len(s) /\ DOMAIN Append(s, e) = 1 .. Len(s) + 1
         /\ \A i \in 1 .. Len(s) : Append(s, e)[i] = s[i]
         /\ Append(s, e)[Len(s) + 1] = e
<1> DEFINE A == {s[i] : i \in 1 .. Len(s)} \cup {e}
<1>1. s \in [1 .. Len(s) -> A] /\ e \in A /\ Len(s) \in Nat /\ DOMAIN s = 1 .. Len(s)
  BY DEF IsList
<1> HIDE DEF A
<1>2. s \in Seq(A)
  BY <1>1
<1>3. Append(s, e) \in Seq(A)
  BY <1>1, <1>2
<1>4. /\ Len(Append(s, e)) = Len(s) + 1
      /\ \A i \in 1 .. Len(s) : Append(s, e)[i] = s[i]
      /\ Append(s, e)[Len(s) + 1] = e
  BY <1>1, <1>2
<1>5. DOMAIN Append(s, e) = 1 .. Len(s) + 1
  BY <1>3, <1>4
<1>6. IsList(Append(s, e))
  BY <1>3, SeqList
<1> QED
  BY <1>1, <1>4, <1>5, <1>6

(* The elements of a subsequence.                                          *)
LEMMA ListSub ==
  ASSUME NEW s, NEW m \in Int, NEW n \in Int
  PROVE  LET l == IF m <= n THEN n - m + 1 ELSE 0
         IN /\ IsList(SubSeq(s, m, n)) /\ Len(SubSeq(s, m, n)) = l
            /\ DOMAIN SubSeq(s, m, n) = 1 .. l
            /\ \A i \in 1 .. l : SubSeq(s, m, n)[i] = s[m + i - 1]
<1> DEFINE l == IF m <= n THEN n - m + 1 ELSE 0
           f == [i \in 1 .. l |-> s[m + i - 1]]
<1>1. SubSeq(s, m, n) = [i \in 1 .. 1 + n - m |-> s[i + m - 1]]
  OBVIOUS
<1>2. l \in Nat /\ 1 .. 1 + n - m = 1 .. l
  OBVIOUS
<1>3. \A i \in 1 .. l : i + m - 1 = m + i - 1
  OBVIOUS
<1>4. SubSeq(s, m, n) = f
  BY <1>1, <1>2, <1>3
<1>5. DOMAIN f = 1 .. l /\ \A i \in 1 .. l : f[i] = s[m + i - 1]
  BY <1>2
<1> HIDE DEF l, f
<1>6. IsList(f) /\ Len(f) = l
  <2>1. f = [i \in 1 .. l |-> f[i]]
    BY <1>5 DEF f
  <2> QED
    BY <1>2, <1>5, <2>1, FunctionList
<1> QED
  BY <1>4, <1>5, <1>6 DEF l

(* The least and the greatest of some positions of a list.                 *)
LEMMA LeastIndex ==
  ASSUME NEW n \in Nat, NEW S, S \subseteq 1 .. n, S # {}
  PROVE  /\ Min(S) \in S /\ \A y \in S : Min(S) <= y
         /\ Max(S) \in S /\ \A y \in S : Max(S) >= y
<1>1. S \subseteq Nat /\ S \subseteq 0 .. n
  OBVIOUS
<1>2. \E x \in S : \A y \in S : x <= y
  BY <1>1, LeastNatural
<1>3. \E x \in S : \A y \in S : x >= y
  BY <1>1, GreatestNatural
<1> QED
  BY <1>2, <1>3 DEF Min, Max

(* The greatest of some naturals up to n.                                  *)
LEMMA MaxOf ==
  ASSUME NEW n \in Nat, NEW S, S \subseteq 0 .. n, S # {}
  PROVE  Max(S) \in S /\ \A y \in S : Max(S) >= y
BY GreatestNatural DEF Max
(* The least of some naturals.                                             *)
LEMMA MinOf ==
  ASSUME NEW S, S \subseteq Nat, S # {}
  PROVE  Min(S) \in S /\ \A y \in S : Min(S) <= y
BY LeastNatural DEF Min

(* Finitely many naturals have a bound.                                    *)
LEMMA Bounded ==
  ASSUME NEW n \in Nat, NEW v \in [1 .. n -> Nat]
  PROVE  \E b \in Nat : \A i \in 1 .. n : v[i] <= b
<1> DEFINE P == {m \in 0 .. n : \E b \in Nat : \A i \in 1 .. m : v[i] <= b}
<1>1. 0 \in P
  OBVIOUS
<1>2. ASSUME NEW m \in 0 .. n - 1, m \in P PROVE m + 1 \in P
  <2>1. PICK b \in Nat : \A i \in 1 .. m : v[i] <= b
    BY <1>2
  <2>2. m + 1 \in 1 .. n /\ v[m + 1] \in Nat
    OBVIOUS
  <2>3. b + v[m + 1] \in Nat /\ \A i \in 1 .. m + 1 : v[i] <= b + v[m + 1]
    <3>1. ASSUME NEW i \in 1 .. m + 1 PROVE v[i] <= b + v[m + 1]
      <4>1. v[i] \in Nat /\ (i = m + 1 \/ i \in 1 .. m)
        BY <2>2
      <4> QED
        BY <2>1, <2>2, <4>1
    <3> QED
      BY <2>2, <3>1
  <2> QED
    BY <2>2, <2>3
<1>3. \A m \in 0 .. n : m \in P
  <2> HIDE DEF P
  <2> QED
    BY <1>1, <1>2, InductionUpTo
<1>4. n \in 0 .. n
  OBVIOUS
<1> QED
  BY <1>3, <1>4

-----------------------------------------------------------------------------
(* A sequence of its elements.                                             *)
IsSeq(s) == s \in Seq({s[i] : i \in DOMAIN s})

(* A sequence of its elements is a list.                                   *)
LEMMA IsSeqList == ASSUME NEW s, IsSeq(s) PROVE IsList(s)
BY SeqList DEF IsSeq

(* A sequence of any elements is one.                                      *)
LEMMA SeqIsSeq == ASSUME NEW S, NEW s \in Seq(S) PROVE IsSeq(s)
<1>1. IsList(s)
  BY SeqList
<1>2. s \in Seq({s[i] : i \in 1 .. Len(s)}) /\ DOMAIN s = 1 .. Len(s)
  BY <1>1, ListSeq
<1> QED
  BY <1>2 DEF IsSeq

(* An element is appended.                                                 *)
LEMMA AppendOne ==
  ASSUME NEW S, NEW s \in Seq(S), NEW x \in S
  PROVE  /\ Append(s, x) \in Seq(S) /\ Len(Append(s, x)) = Len(s) + 1 /\ Len(s) \in Nat
         /\ Append(s, x)[Len(s) + 1] = x
         /\ \A k \in 1 .. Len(s) : Append(s, x)[k] = s[k]
OBVIOUS

(* Appending keeps it one.                                                 *)
LEMMA SeqAppend ==
  ASSUME NEW s, NEW x, IsSeq(s)
  PROVE  IsSeq(Append(s, x))
<1> DEFINE S == {s[i] : i \in DOMAIN s}
           t == Append(s, x)
           T == {t[i] : i \in DOMAIN t}
<1>1. s \in Seq(S)
  BY DEF IsSeq
<1>2. DOMAIN s = 1 .. Len(s) /\ Len(s) \in Nat
  BY <1>1
<1>3. DOMAIN t = 1 .. Len(s) + 1 /\ t[Len(s) + 1] = x /\ \A i \in DOMAIN s : t[i] = s[i]
  BY <1>1
<1>4. S \subseteq T /\ x \in T
  BY <1>2, <1>3
<1>5. s \in Seq(T)
  <2> HIDE DEF S, T
  <2> QED
    BY <1>1, <1>4
<1>6. t \in Seq(T)
  <2> HIDE DEF T
  <2> QED
    BY <1>4, <1>5
<1> QED
  BY <1>6 DEF IsSeq

(* The elements then.                                                      *)
LEMMA AppendSet ==
  ASSUME NEW s, NEW x, IsSeq(s)
  PROVE  ToSet(Append(s, x)) = ToSet(s) \cup {x}
<1> DEFINE S == ToSet(s) \cup {x}
<1>1. s \in Seq(S) /\ x \in S
  <2>1. s \in Seq(ToSet(s))
    BY DEF IsSeq, ToSet
  <2> HIDE DEF S
  <2>2. ToSet(s) \subseteq S /\ x \in S
    BY DEF S
  <2> QED
    BY <2>1, <2>2
<1> HIDE DEF S
<1>2. /\ DOMAIN s = 1 .. Len(s) /\ Len(s) \in Nat
      /\ DOMAIN Append(s, x) = 1 .. Len(s) + 1 /\ Append(s, x)[Len(s) + 1] = x
      /\ \A k \in 1 .. Len(s) : Append(s, x)[k] = s[k]
  <2>1. DOMAIN s = 1 .. Len(s)
    BY <1>1
  <2> QED
    BY <1>1, <2>1, AppendOne
<1>3. \A k \in 1 .. Len(s) + 1 : k \in 1 .. Len(s) \/ k = Len(s) + 1
  BY <1>2
<1>4. Len(s) + 1 \in 1 .. Len(s) + 1 /\ \A k \in 1 .. Len(s) : k \in 1 .. Len(s) + 1
  BY <1>2
<1> QED
  BY <1>2, <1>3, <1>4 DEF ToSet

(* Joining, too.                                                           *)
LEMMA SeqJoin ==
  ASSUME NEW s, NEW r, IsSeq(s), IsSeq(r)
  PROVE  IsSeq(s \o r)
<1> DEFINE S == {s[i] : i \in DOMAIN s}
           R == {r[i] : i \in DOMAIN r}
           U == S \cup R
           t == s \o r
           T == {t[i] : i \in DOMAIN t}
<1>1. s \in Seq(U) /\ r \in Seq(U)
  <2>1. s \in Seq(S) /\ r \in Seq(R)
    BY DEF IsSeq
  <2> HIDE DEF S, R
  <2> QED
    BY <2>1
<1> HIDE DEF U
<1>2. /\ \A k \in DOMAIN s : k \in DOMAIN t /\ t[k] = s[k]
      /\ \A j \in DOMAIN r : j + Len(s) \in DOMAIN t /\ t[j + Len(s)] = r[j]
  <2>1. IsJoin(t, s, r)
    BY <1>1, Concatenated
  <2> HIDE DEF t
  <2> QED
    BY <2>1 DEF IsJoin
<1>3. U \subseteq T
  <2> HIDE DEF t
  <2> QED
    BY <1>2 DEF U
<1>4. s \in Seq(T) /\ r \in Seq(T)
  <2> HIDE DEF T
  <2> QED
    BY <1>1, <1>3
<1>5. t \in Seq(T)
  <2> HIDE DEF T
  <2> QED
    BY <1>4
<1> QED
  BY <1>5 DEF IsSeq

(* The elements of two joined.                                             *)
LEMMA JoinSet ==
  ASSUME NEW s, NEW r, IsSeq(s), IsSeq(r)
  PROVE  ToSet(s \o r) = ToSet(s) \cup ToSet(r)
<1> DEFINE S == ToSet(s) \cup ToSet(r)
<1>1. s \in Seq(S) /\ r \in Seq(S)
  <2>1. s \in Seq(ToSet(s)) /\ r \in Seq(ToSet(r))
    BY DEF IsSeq, ToSet
  <2> HIDE DEF S
  <2>2. ToSet(s) \subseteq S /\ ToSet(r) \subseteq S
    BY DEF S
  <2> QED
    BY <2>1, <2>2
<1> HIDE DEF S
<1> DEFINE c == s \o r
<1>2. IsJoin(c, s, r)
  BY <1>1, Concatenated
<1> HIDE DEF c
<1>3. \A k \in DOMAIN c : c[k] \in ToSet(s) \cup ToSet(r)
  <2>1. \A k \in DOMAIN c : \/ k \in DOMAIN s /\ c[k] = s[k]
                            \/ k - Len(s) \in DOMAIN r /\ c[k] = r[k - Len(s)]
    BY <1>2 DEF IsJoin
  <2> QED
    BY <2>1 DEF ToSet
<1>4. /\ \A k \in DOMAIN s : k \in DOMAIN c /\ c[k] = s[k]
      /\ \A j \in DOMAIN r : j + Len(s) \in DOMAIN c /\ c[j + Len(s)] = r[j]
  BY <1>2 DEF IsJoin
<1>5. ToSet(s) \subseteq ToSet(c) /\ ToSet(r) \subseteq ToSet(c)
  BY <1>4 DEF ToSet
<1>6. ToSet(c) \subseteq ToSet(s) \cup ToSet(r)
  BY <1>3 DEF ToSet
<1> QED
  BY <1>5, <1>6 DEF c

(* The elements without the first.                                         *)
LEMMA TailSet ==
  ASSUME NEW s, IsSeq(s), s # <<>>
  PROVE  IsSeq(Tail(s)) /\ ToSet(s) = {Head(s)} \cup ToSet(Tail(s))
<1> DEFINE S == ToSet(s)
<1>1. s \in Seq(S)
  BY DEF IsSeq, ToSet
<1>2. /\ DOMAIN s = 1 .. Len(s) /\ Len(s) \in Nat \ {0} /\ Head(s) = s[1]
      /\ Len(Tail(s)) = Len(s) - 1 /\ DOMAIN Tail(s) = 1 .. Len(s) - 1
      /\ \A k \in 1 .. Len(s) - 1 : Tail(s)[k] = s[k + 1]
  <2> HIDE DEF S
  <2> QED
    BY <1>1
<1>3. \A k \in 1 .. Len(s) : k = 1 \/ (k - 1 \in 1 .. Len(s) - 1 /\ (k - 1) + 1 = k)
  BY <1>2
<1>4. 1 \in 1 .. Len(s) /\ \A k \in 1 .. Len(s) - 1 : k + 1 \in 1 .. Len(s)
  BY <1>2
<1>5. ToSet(s) = {Head(s)} \cup ToSet(Tail(s))
  <2> DEFINE t == Tail(s)
  <2> HIDE DEF S
  <2>1. \A k \in DOMAIN s : s[k] \in {Head(s)} \cup ToSet(t)
    <3> SUFFICES ASSUME NEW k \in 1 .. Len(s), k # 1 PROVE s[k] \in ToSet(t)
      BY <1>2
    <3>1. k - 1 \in DOMAIN t /\ t[k - 1] = s[k]
      BY <1>2, <1>3
    <3> QED
      BY <3>1 DEF ToSet
  <2>2. \A k \in DOMAIN t : t[k] \in ToSet(s)
    BY <1>2, <1>4 DEF ToSet
  <2>3. Head(s) \in ToSet(s)
    BY <1>2, <1>4 DEF ToSet
  <2> HIDE DEF t
  <2> QED
    BY <2>1, <2>2, <2>3 DEF ToSet, t
<1>6. IsSeq(Tail(s))
  <2>1. Tail(s) \in Seq(S)
    <3> HIDE DEF S
    <3> QED
      BY <1>1, <1>2
  <2> HIDE DEF S
  <2> QED
    BY <2>1, SeqIsSeq
<1> QED
  BY <1>5, <1>6
================================================================================
