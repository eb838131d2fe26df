------------------------------- MODULE AutoProofs -------------------------------
(***************************************************************************)
(* Proofs about a call of auto-formatelf: its types; that par_map keeps    *)
(* the order of its input; that populate indexes what is reachable and     *)
(* nothing else; that a root outranks the later ones; that the loader      *)
(* finds what a patched file needs; that glob_match is right; that the     *)
(* call keeps the promise of Resolution.  For any number of threads, any   *)
(* tree and any interleaving.                                              *)
(***************************************************************************)
EXTENDS AutoProps, SeqFacts, FunctionTheorems

(* The nodes of a tree, and nowhere.                                       *)
KnownIn(t) == DOMAIN t \cup {NoPath}

(* Entering a name leads to a node, or nowhere.                            *)
LEMMA EnterSpot ==
  ASSUME NEW t, IsTree(t), NEW spot \in Spots, spot.path \in KnownIn(t), NEW name \in STRING
  PROVE  Enter(t, spot, name) \in Spots /\ Enter(t, spot, name).path \in KnownIn(t)
<1> DEFINE p == Append(spot.path, name)
<1>1. NoPath \in Seq(STRING) /\ MaxLinks \in Nat /\ \A q \in KnownIn(t) : q \in Seq(STRING)
  <2>1. MaxLinks \in Nat /\ NoPath \in Seq(STRING)
    BY FileTreeAssumption DEF NoPath
  <2>2. \A q \in DOMAIN t : q \in Seq(STRING)
    BY DEF IsTree
  <2> QED
    BY <2>1, <2>2 DEF KnownIn
<1>2. CASE spot.path = NoPath \/ p \notin DOMAIN t
  BY <1>1, <1>2 DEF Enter, Spots, KnownIn
<1>3. CASE ~(spot.path = NoPath \/ p \notin DOMAIN t)
  <2>1. p \in DOMAIN t /\ p \in Seq(STRING)
    BY <1>1, <1>3 DEF KnownIn
  <2>2. CASE t[p].kind # "link"
    BY <1>3, <2>1, <2>2 DEF Enter, Spots, KnownIn
  <2>3. CASE t[p].kind = "link"
    <3>1. t[p].to \in KnownIn(t) /\ t[p].to \in Seq(STRING)
      BY <1>1, <2>1, <2>3 DEF IsTree, KnownIn
    <3>2. CASE spot.links = MaxLinks
      BY <1>1, <1>3, <2>1, <2>3, <3>2 DEF Enter, Spots, KnownIn
    <3>3. CASE spot.links # MaxLinks
      BY <1>1, <1>3, <2>1, <2>3, <3>1, <3>3 DEF Enter, Spots
    <3> QED
      BY <3>2, <3>3
  <2> QED
    BY <2>2, <2>3
<1> QED
  BY <1>2, <1>3

(* Where the names of a path lead, one by one.                             *)
Origin == [path |-> <<"/">>, links |-> 0]
Resolves(t, p, f) ==
  /\ DOMAIN f = 0 .. Len(p)
  /\ \A n \in 0 .. Len(p) :
       /\ f[n] \in Spots /\ f[n].path \in KnownIn(t)
       /\ f[n] = IF n <= 1 THEN Origin ELSE Enter(t, f[n - 1], p[n])

(* Canonical follows the names of a path one by one.                       *)
LEMMA Resolving ==
  ASSUME NEW t, IsTree(t), NEW p \in Seq(STRING)
  PROVE  \E f : Resolves(t, p, f) /\ Canonical(t, p) = f[Len(p)].path
<1> DEFINE n == Len(p)
           V == {s \in Spots : s.path \in KnownIn(t)}
           step == [k \in 1 .. n |-> [v \in V |-> IF k <= 1 THEN Origin ELSE Enter(t, v, p[k])]]
           Step(name) == [spot \in Spots |-> Enter(t, spot, name)]
           Rule(f) == f = [k \in 0 .. Len(p) |->
                             IF k <= 1 THEN [path |-> <<"/">>, links |-> 0]
                             ELSE Step(p[k])[f[k - 1]]]
<1>1. n \in Nat /\ Origin \in V /\ \A k \in 1 .. n : p[k] \in STRING
  <2>1. Origin \in Spots /\ Origin.path = <<"/">>
    <3>1. <<"/">> \in Seq(STRING)
      BY DEF IsTree
    <3> QED
      BY <3>1 DEF Origin, Spots
  <2>2. <<"/">> \in KnownIn(t)
    BY DEF IsTree, KnownIn
  <2> QED
    BY <2>1, <2>2
<1>2. step \in [1 .. n -> [V -> V]]
  <2>1. ASSUME NEW k \in 1 .. n, NEW v \in V
        PROVE  (IF k <= 1 THEN Origin ELSE Enter(t, v, p[k])) \in V
    BY <1>1, EnterSpot
  <2> HIDE DEF V
  <2> QED
    BY <2>1
<1>3. \E f : Recurses(f, n, V, Origin, step)
  <2> HIDE DEF n, V, step
  <2> QED
    BY <1>1, <1>2, RecursionExists
<1>4. PICK f : /\ f \in [0 .. n -> V] /\ f[0] = Origin
               /\ \A k \in 1 .. n : f[k] = step[k][f[k - 1]]
  <2> HIDE DEF V, step
  <2> QED
    BY <1>3 DEF Recurses
<1>5. ASSUME NEW k \in 0 .. n
      PROVE  f[k] \in V /\ f[k] = IF k <= 1 THEN Origin ELSE Enter(t, f[k - 1], p[k])
  <2>1. f[k] \in V
    <3> HIDE DEF V, step, n
    <3> QED
      BY <1>4
  <2>2. CASE k = 0
    BY <1>4, <2>1, <2>2
  <2>3. CASE k # 0
    <3>1. k \in 1 .. n /\ k - 1 \in 0 .. n
      BY <1>1, <2>3
    <3>2. f[k - 1] \in V
      <4> HIDE DEF V, step, n
      <4> QED
        BY <1>4, <3>1
    <3>3. step[k][f[k - 1]] = IF k <= 1 THEN Origin ELSE Enter(t, f[k - 1], p[k])
      <4> HIDE DEF V
      <4> QED
        BY <3>1, <3>2
    <3> QED
      BY <1>4, <2>1, <3>1, <3>3
  <2> QED
    BY <2>2, <2>3
<1>6. Rule(f)
  <2>1. ASSUME NEW k \in 0 .. n
        PROVE  f[k] = IF k <= 1 THEN [path |-> <<"/">>, links |-> 0] ELSE Step(p[k])[f[k - 1]]
    <3>1. CASE k <= 1
      BY <1>5, <3>1 DEF Origin
    <3>2. CASE ~(k <= 1)
      <4>1. k - 1 \in 0 .. n /\ k \in 1 .. n
        BY <1>1, <3>2
      <4>2. f[k - 1] \in Spots /\ p[k] \in STRING
        BY <1>1, <1>5, <4>1
      <4>3. Step(p[k])[f[k - 1]] = Enter(t, f[k - 1], p[k])
        BY <4>2
      <4>4. f[k] = Enter(t, f[k - 1], p[k])
        BY <1>5, <3>2
      <4> HIDE DEF Step
      <4> QED
        BY <3>2, <4>3, <4>4
    <3> QED
      BY <3>1, <3>2
  <2>2. DOMAIN f = 0 .. n /\ f = [k \in 0 .. n |-> f[k]]
    <3> HIDE DEF V, step
    <3> QED
      BY <1>4
  <2> HIDE DEF Step
  <2> QED
    BY <2>1, <2>2
<1> DEFINE g == CHOOSE h : Rule(h)
<1>7. Rule(g)
  <2> HIDE DEF Rule
  <2> QED
    BY <1>6
<1>8. Canonical(t, p) = g[n].path
  BY DEF Canonical
<1> HIDE DEF g
<1>9. DOMAIN g = 0 .. n /\ \A k \in 0 .. n :
        g[k] = IF k <= 1 THEN Origin ELSE Step(p[k])[g[k - 1]]
  <2> HIDE DEF Step
  <2> QED
    BY <1>7 DEF Origin
<1> HIDE DEF Rule
<1>10. \A k \in 0 .. n : g[k] = f[k]
  <2> DEFINE P == {m \in 0 .. n : g[m] = f[m]}
  <2>1. 0 \in P
    <3>1. 0 \in 0 .. n
      BY <1>1
    <3>2. g[0] = Origin
      <4> HIDE DEF Step, n
      <4> QED
        BY <1>9, <3>1
    <3>3. f[0] = Origin
      BY <1>4
    <3> QED
      BY <3>1, <3>2, <3>3
  <2>2. ASSUME NEW m \in 0 .. n - 1, m \in P PROVE m + 1 \in P
    <3>1. m + 1 \in 0 .. n /\ (m + 1) - 1 = m /\ g[m] = f[m] /\ m + 1 \in 1 .. n /\ m \in 0 .. n
      BY <1>1, <2>2
    <3>2. g[m + 1] = IF m + 1 <= 1 THEN Origin ELSE Step(p[m + 1])[g[m]]
      <4> HIDE DEF Step, n
      <4> QED
        BY <1>9, <3>1
    <3>3. f[m + 1] = IF m + 1 <= 1 THEN Origin ELSE Enter(t, f[m], p[m + 1])
      BY <1>5, <3>1
    <3>4. Step(p[m + 1])[f[m]] = Enter(t, f[m], p[m + 1])
      BY <1>1, <1>5, <3>1
    <3> HIDE DEF Step, n
    <3> QED
      BY <3>1, <3>2, <3>3, <3>4
  <2> HIDE DEF P, n
  <2>3. \A m \in 0 .. n : m \in P
    BY <1>1, <2>1, <2>2, InductionUpTo
  <2> QED
    BY <2>3 DEF P
<1>11. Resolves(t, p, f)
  <2>1. DOMAIN f = 0 .. n
    <3> HIDE DEF V, step
    <3> QED
      BY <1>4
  <2> QED
    BY <1>5, <2>1 DEF Resolves
<1> QED
  BY <1>1, <1>8, <1>10, <1>11

(* A path leads to a node of the tree, or nowhere.                         *)
LEMMA CanonicalKnown ==
  ASSUME NEW t, IsTree(t), NEW p \in Seq(STRING)
  PROVE  Canonical(t, p) \in KnownIn(t)
<1>1. PICK f : Resolves(t, p, f) /\ Canonical(t, p) = f[Len(p)].path
  BY Resolving
<1>2. Len(p) \in 0 .. Len(p)
  OBVIOUS
<1> QED
  BY <1>1, <1>2 DEF Resolves

(* What is found is found in a directory that is found.                    *)
LEMMA CanonicalFront ==
  ASSUME NEW t, IsTree(t), NEW p \in Seq(STRING), Canonical(t, p) # NoPath
  PROVE  Front(p) \in Seq(STRING) /\ Canonical(t, Front(p)) # NoPath
<1> DEFINE q == Front(p)
<1>1. Len(p) \in Nat /\ \A k \in 1 .. Len(p) : p[k] \in STRING
  OBVIOUS
<1>2. CASE Len(p) = 0
  <2>1. q = p
    BY <1>2 DEF Front
  <2> QED
    BY <2>1
<1>3. CASE Len(p) # 0
  <2>1. q \in Seq(STRING) /\ Len(q) = Len(p) - 1 /\ \A k \in 1 .. Len(p) - 1 : q[k] = p[k]
    <3>1. q = SubSeq(p, 1, Len(p) - 1)
      BY DEF Front
    <3>2. \A m \in 0 .. Len(p) : /\ SubSeq(p, 1, m) \in Seq(STRING) /\ Len(SubSeq(p, 1, m)) = m
                                /\ \A k \in 1 .. m : SubSeq(p, 1, m)[k] = p[k]
      OBVIOUS
    <3>3. Len(p) - 1 \in 0 .. Len(p)
      BY <1>1, <1>3
    <3> HIDE DEF q
    <3> QED
      BY <3>1, <3>2, <3>3
  <2> HIDE DEF q
  <2>2. PICK f : Resolves(t, p, f) /\ Canonical(t, p) = f[Len(p)].path
    BY Resolving
  <2>3. PICK g : Resolves(t, q, g) /\ Canonical(t, q) = g[Len(q)].path
    BY <2>1, Resolving
  <2>4. \A k \in 0 .. Len(q) : g[k] = f[k]
    <3> DEFINE P == {m \in 0 .. Len(q) : g[m] = f[m]}
    <3>1. Len(q) \in Nat /\ \A k \in 0 .. Len(q) : k \in 0 .. Len(p) /\ (k > 1 => q[k] = p[k])
      BY <1>1, <1>3, <2>1
    <3>2. 0 \in P
      BY <2>2, <2>3, <3>1 DEF Resolves
    <3>3. ASSUME NEW m \in 0 .. Len(q) - 1, m \in P PROVE m + 1 \in P
      <4>0. m + 1 \in 0 .. Len(q) /\ (m + 1) - 1 = m /\ m + 1 \in Nat
        BY <3>1
      <4>1. g[m] = f[m] /\ m + 1 \in 0 .. Len(p) /\ (m + 1 <= 1 \/ q[m + 1] = p[m + 1])
        BY <3>1, <3>3, <4>0
      <4>2. g[m + 1] = IF m + 1 <= 1 THEN Origin ELSE Enter(t, g[m], q[m + 1])
        BY <2>3, <4>0 DEF Resolves
      <4>3. f[m + 1] = IF m + 1 <= 1 THEN Origin ELSE Enter(t, f[m], p[m + 1])
        BY <2>2, <4>0, <4>1 DEF Resolves
      <4> QED
        BY <4>0, <4>1, <4>2, <4>3
    <3> HIDE DEF P
    <3>4. \A m \in 0 .. Len(q) : m \in P
      BY <3>1, <3>2, <3>3, InductionUpTo
    <3> QED
      BY <3>4 DEF P
  <2>5. f[Len(p)] = IF Len(p) <= 1 THEN Origin ELSE Enter(t, f[Len(p) - 1], p[Len(p)])
    BY <1>1, <2>2 DEF Resolves
  <2>6. CASE Len(p) <= 1
    <3>1. Len(q) = 0 /\ 0 \in 0 .. Len(q)
      BY <1>1, <1>3, <2>1, <2>6
    <3>2. g[0] = Origin
      BY <2>3, <3>1 DEF Resolves
    <3>3. Origin.path # NoPath
      BY DEF Origin, NoPath
    <3>4. Canonical(t, q) = Origin.path
      BY <2>3, <3>1, <3>2
    <3> QED
      BY <2>1, <3>3, <3>4 DEF q
  <2>7. CASE ~(Len(p) <= 1)
    <3>1. Len(q) \in 0 .. Len(q) /\ Len(p) - 1 = Len(q)
      BY <1>1, <1>3, <2>1
    <3>2. g[Len(q)] = f[Len(p) - 1] /\ g[Len(q)] \in Spots
      BY <2>3, <2>4, <3>1 DEF Resolves
    <3>3. g[Len(q)].path = NoPath => f[Len(p)].path = NoPath
      BY <2>5, <2>7, <3>2 DEF Enter, Spots
    <3> QED
      BY <2>1, <2>2, <2>3, <3>3 DEF q
  <2> QED
    BY <2>6, <2>7
<1> QED
  BY <1>2, <1>3

(* InByteOrder lists these names, each that is in the order.               *)
LEMMA ByteOrder ==
  ASSUME NEW names
  PROVE  /\ InByteOrder(names) \in Seq(STRING)
         /\ \A j \in DOMAIN InByteOrder(names) : InByteOrder(names)[j] \in names
         /\ \A k \in DOMAIN NameOrder : NameOrder[k] \in names =>
              \E j \in DOMAIN InByteOrder(names) : InByteOrder(names)[j] = NameOrder[k]
<1> DEFINE n == Len(NameOrder)
           V == Seq(STRING)
           step == [k \in 1 .. n |-> [v \in V |->
                      IF NameOrder[k] \in names THEN Append(v, NameOrder[k]) ELSE v]]
           Upto(f) == f = [k \in 0 .. Len(NameOrder) |->
                        IF k = 0 THEN <<>>
                        ELSE IF NameOrder[k] \in names THEN Append(f[k - 1], NameOrder[k])
                        ELSE f[k - 1]]
<1>1. n \in Nat /\ \A k \in 1 .. n : NameOrder[k] \in STRING
  BY FileTreeAssumption
<1>2. step \in [1 .. n -> [V -> V]]
  <2>1. ASSUME NEW k \in 1 .. n, NEW v \in V
        PROVE  (IF NameOrder[k] \in names THEN Append(v, NameOrder[k]) ELSE v) \in V
    <3>1. NameOrder[k] \in STRING
      BY <1>1
    <3>2. Append(v, NameOrder[k]) \in V
      BY <3>1
    <3> QED
      BY <3>2
  <2> HIDE DEF V
  <2> QED
    BY <2>1
<1> DEFINE none == <<>>
<1>3. \E f : Recurses(f, n, V, none, step)
  <2>1. n \in Nat
    BY <1>1
  <2>2. none \in V
    OBVIOUS
  <2> HIDE DEF n, V, step, none
  <2> QED
    BY <2>1, <2>2, <1>2, RecursionExists
<1>4. PICK f : /\ f \in [0 .. n -> V] /\ f[0] = <<>>
               /\ \A k \in 1 .. n : f[k] = step[k][f[k - 1]]
  <2> HIDE DEF V, step
  <2> QED
    BY <1>3 DEF Recurses
<1>5. ASSUME NEW k \in 0 .. n
      PROVE  f[k] = IF k = 0 THEN <<>>
                    ELSE IF NameOrder[k] \in names THEN Append(f[k - 1], NameOrder[k])
                    ELSE f[k - 1]
  <2>1. CASE k = 0
    BY <1>4, <2>1
  <2>2. CASE k # 0
    <3>1. k \in 1 .. n /\ k - 1 \in 0 .. n /\ f[k - 1] \in V
      <4>1. k \in 1 .. n /\ k - 1 \in 0 .. n
        BY <1>1, <2>2
      <4> HIDE DEF V, step, n
      <4> QED
        BY <1>4, <4>1
    <3>2. step[k][f[k - 1]] = IF NameOrder[k] \in names THEN Append(f[k - 1], NameOrder[k])
                              ELSE f[k - 1]
      <4> HIDE DEF V
      <4> QED
        BY <3>1
    <3> QED
      BY <1>4, <2>2, <3>1, <3>2
  <2> QED
    BY <2>1, <2>2
<1>6. Upto(f)
  <2>1. DOMAIN f = 0 .. n /\ f = [k \in 0 .. n |-> f[k]]
    <3> HIDE DEF V, step
    <3> QED
      BY <1>4
  <2> QED
    BY <1>5, <2>1
<1> DEFINE g == CHOOSE h : Upto(h)
<1>7. Upto(g)
  <2> HIDE DEF Upto
  <2> QED
    BY <1>6
<1> HIDE DEF g
<1>8. \A k \in 0 .. n : g[k] = IF k = 0 THEN <<>>
                               ELSE IF NameOrder[k] \in names THEN Append(g[k - 1], NameOrder[k])
                               ELSE g[k - 1]
  BY <1>7
<1> DEFINE Holds(s, m) == /\ s \in V /\ \A j \in DOMAIN s : s[j] \in names
                          /\ \A k \in 1 .. m : NameOrder[k] \in names =>
                               \E j \in DOMAIN s : s[j] = NameOrder[k]
<1>9. \A k \in 0 .. n : Holds(g[k], k)
  <2> DEFINE P == {m \in 0 .. n : Holds(g[m], m)}
  <2>1. 0 \in P
    <3>1. 0 \in 0 .. n /\ g[0] = <<>>
      BY <1>1, <1>8
    <3>2. \A s : s = <<>> => Holds(s, 0)
      OBVIOUS
    <3> HIDE DEF V, n, Holds
    <3> QED
      BY <3>1, <3>2
  <2>2. ASSUME NEW m \in 0 .. n - 1, m \in P PROVE m + 1 \in P
    <3>1. m + 1 \in 0 .. n /\ m + 1 # 0 /\ (m + 1) - 1 = m /\ m + 1 \in 1 .. n
          /\ \A k \in 1 .. m + 1 : k = m + 1 \/ k \in 1 .. m
      BY <1>1
    <3>2. Holds(g[m], m)
      <4> HIDE DEF V, n, Holds
      <4> QED
        BY <2>2
    <3>3. g[m + 1] = IF NameOrder[m + 1] \in names THEN Append(g[m], NameOrder[m + 1]) ELSE g[m]
      BY <1>8, <3>1
    <3>4. Holds(g[m + 1], m + 1)
      <4>1. NameOrder[m + 1] \in STRING
        BY <1>1, <3>1
      <4>2. CASE NameOrder[m + 1] \in names
        <5>1. \A s \in V, x \in STRING :
                /\ Append(s, x) \in V /\ \A j \in DOMAIN s : j \in DOMAIN Append(s, x)
                                                          /\ Append(s, x)[j] = s[j]
                /\ Len(s) + 1 \in DOMAIN Append(s, x) /\ Append(s, x)[Len(s) + 1] = x
                /\ \A j \in DOMAIN Append(s, x) : j = Len(s) + 1 \/ j \in DOMAIN s
          OBVIOUS
        <5> DEFINE s == g[m]
                   x == NameOrder[m + 1]
                   a == Append(s, x)
        <5>2. g[m + 1] = a
          BY <3>3, <4>2
        <5>3. /\ a \in V /\ \A j \in DOMAIN s : j \in DOMAIN a /\ a[j] = s[j]
              /\ Len(s) + 1 \in DOMAIN a /\ a[Len(s) + 1] = x
              /\ \A j \in DOMAIN a : j = Len(s) + 1 \/ j \in DOMAIN s
          <6>1. s \in V
            BY <3>2
          <6> HIDE DEF V, s, x
          <6> QED
            BY <5>1, <4>1, <6>1 DEF x
        <5>4. x \in names
          BY <4>2
        <5>5. Holds(s, m)
          BY <3>2
        <5> HIDE DEF a, x, s, V
        <5>6. \A j \in DOMAIN a : a[j] \in names
          BY <5>3, <5>4, <5>5
        <5>7. ASSUME NEW k \in 1 .. m + 1, NameOrder[k] \in names
              PROVE  \E j \in DOMAIN a : a[j] = NameOrder[k]
          <6>1. CASE k = m + 1
            BY <5>3, <6>1 DEF x
          <6>2. CASE k \in 1 .. m
            BY <5>3, <5>5, <5>7, <6>2
          <6> QED
            BY <3>1, <6>1, <6>2
        <5> QED
          BY <5>2, <5>3, <5>6, <5>7
      <4>3. CASE NameOrder[m + 1] \notin names
        <5>1. g[m + 1] = g[m]
          BY <3>3, <4>3
        <5> HIDE DEF V, n
        <5> QED
          BY <3>1, <3>2, <4>3, <5>1
      <4> QED
        BY <4>2, <4>3
    <3> HIDE DEF Holds, n, V
    <3> QED
      BY <3>1, <3>4
  <2> HIDE DEF P, n
  <2>3. \A m \in 0 .. n : m \in P
    BY <1>1, <2>1, <2>2, InductionUpTo
  <2> QED
    BY <2>3 DEF P
<1>10. InByteOrder(names) = g[n]
  BY DEF InByteOrder, g
<1>11. DOMAIN NameOrder = 1 .. n /\ n \in 0 .. n
  BY FileTreeAssumption
<1>12. Holds(g[n], n)
  <2> HIDE DEF Holds, n, V
  <2> QED
    BY <1>9, <1>11
<1> QED
  BY <1>10, <1>11, <1>12

(* The items of some entries of a directory.                               *)
LEMMA EntriesItems ==
  ASSUME NEW dir, NEW names, NEW rec
  PROVE  /\ IsSeq(Items(SortedEntries(dir, names), rec))
         /\ \A x \in ToSet(Items(SortedEntries(dir, names), rec)) :
              \E n \in names : x = Item(Append(dir, n), rec)
         /\ \A n \in names : (\E k \in DOMAIN NameOrder : NameOrder[k] = n) =>
              Item(Append(dir, n), rec) \in ToSet(Items(SortedEntries(dir, names), rec))
<1> DEFINE s == InByteOrder(names)
           t == Items(SortedEntries(dir, names), rec)
<1>1. DOMAIN s = 1 .. Len(s) /\ Len(s) \in Nat
  BY ByteOrder
<1>2. t = [i \in DOMAIN s |-> Item(Append(dir, s[i]), rec)]
  BY DEF Items, SortedEntries
<1>3. t = [i \in 1 .. Len(s) |-> t[i]]
  <2> HIDE DEF s
  <2> QED
    BY <1>1, <1>2
<1> HIDE DEF t, s
<1> DEFINE T == {t[i] : i \in DOMAIN t}
<1>4. t \in [1 .. Len(s) -> T] /\ Len(s) \in Nat
  BY <1>1, <1>3
<1>5. t \in Seq(T)
  <2> HIDE DEF T
  <2> QED
    BY <1>4
<1>6. IsSeq(t)
  BY <1>5 DEF IsSeq
<1>7. \A x \in ToSet(t) : \E n \in names : x = Item(Append(dir, n), rec)
  <2>1. \A j \in DOMAIN s : s[j] \in names
    BY ByteOrder DEF s
  <2> QED
    BY <1>2, <2>1 DEF ToSet
<1>8. \A n \in names : (\E k \in DOMAIN NameOrder : NameOrder[k] = n) =>
        Item(Append(dir, n), rec) \in ToSet(t)
  <2>1. \A k \in DOMAIN NameOrder : NameOrder[k] \in names => \E j \in DOMAIN s : s[j] = NameOrder[k]
    BY ByteOrder DEF s
  <2> QED
    BY <1>2, <2>1 DEF ToSet
<1> QED
  BY <1>6, <1>7, <1>8 DEF t

(* The names in a directory are in the order.                              *)
LEMMA NamesOrdered ==
  ASSUME NEW t, IsTree(t), NEW dir, NEW n \in Names(t, dir)
  PROVE  n \in STRING /\ \E k \in DOMAIN NameOrder : NameOrder[k] = n
<1>1. PICK q \in DOMAIN t : n = Last(q) /\ Front(q) = Canonical(t, dir) /\ Front(q) # NoPath
  BY DEF Names
<1>2. PICK k \in DOMAIN NameOrder : NameOrder[k] = Last(q)
  BY <1>1 DEF IsTree
<1>3. NameOrder[k] \in STRING
  BY FileTreeAssumption
<1> QED
  BY <1>1, <1>2, <1>3

(* A file has no entries, and a subdirectory is no object.                 *)
LEMMA FileEntries ==
  ASSUME NEW t, IsTree(t), NEW path, IsFile(t, path)
  PROVE  Names(t, path) = {}
<1> SUFFICES ASSUME NEW n \in Names(t, path) PROVE FALSE
  OBVIOUS
<1>1. PICK q \in DOMAIN t : n = Last(q) /\ Front(q) = Canonical(t, path) /\ Front(q) # NoPath
  BY DEF Names
<1>2. t[Canonical(t, path)].kind = "dir"
  BY <1>1 DEF IsTree
<1> QED
  BY <1>1, <1>2 DEF IsFile, NodeAt, FileKinds

(* A path's last name, and what comes before it.                           *)
LEMMA PathEntry ==
  ASSUME NEW S, NEW path \in Seq(S), NEW n \in S
  PROVE  /\ Append(path, n) \in Seq(S)
         /\ Front(Append(path, n)) = path /\ Last(Append(path, n)) = n
<1>1. Append(path, n) \in Seq(S) /\ Len(Append(path, n)) = Len(path) + 1
      /\ Append(path, n)[Len(path) + 1] = n /\ Len(path) \in Nat
      /\ \A k \in 1 .. Len(path) : Append(path, n)[k] = path[k]
  BY AppendOne
<1>2. SubSeq(Append(path, n), 1, Len(path)) = path
  <2> DEFINE a == Append(path, n)
             s == SubSeq(a, 1, Len(path))
  <2>1. Len(path) \in 0 .. Len(a) /\ \A k \in 1 .. Len(path) : a[k] = path[k]
    BY <1>1
  <2>2. a \in Seq(S)
    BY <1>1
  <2> HIDE DEF a
  <2>3. s \in Seq(S) /\ Len(s) = Len(path) /\ \A k \in 1 .. Len(path) : s[k] = a[k]
    BY <2>1, <2>2
  <2> HIDE DEF s
  <2>4. s = path
    BY <2>1, <2>3
  <2> QED
    BY <2>4 DEF s, a
<1>3. (Len(path) + 1) - 1 = Len(path)
  BY <1>1
<1> QED
  BY <1>1, <1>2, <1>3 DEF Front, Last

-----------------------------------------------------------------------------
(* What is reachable: the roots, and with a place what it leads to, and    *)
(* nothing else.                                                           *)
Onto(w, S) == S \cup UNION {Onward(w, r) : r \in S}
Widens(w, m, f) ==
  f = [n \in 0 .. m |->
         IF n = 0 THEN GivenRoots(w) ELSE f[n - 1] \cup UNION {Onward(w, r) : r \in f[n - 1]}]

(* Reachable is the last of the sets of places that widen step by step.    *)
LEMMA Widening ==
  ASSUME NEW w
  PROVE  \E f : /\ Widens(w, Depth, f) /\ Reachable(w) = f[Depth]
                /\ f[0] = GivenRoots(w)
                /\ \A n \in 1 .. Depth : f[n] = Onto(w, f[n - 1])
<1> DEFINE P == {m \in Nat : \E f : Widens(w, m, f)}
<1>1. 0 \in P
  <2>1. Widens(w, 0, [n \in 0 .. 0 |-> GivenRoots(w)])
    BY DEF Widens
  <2> QED
    BY <2>1
<1>2. ASSUME NEW m \in Nat, m \in P PROVE m + 1 \in P
  <2>1. PICK f : Widens(w, m, f)
    BY <1>2
  <2> DEFINE g == [n \in 0 .. m + 1 |-> IF n <= m THEN f[n] ELSE Onto(w, f[m])]
  <2>2. ASSUME NEW n \in 0 .. m + 1
        PROVE  g[n] = IF n = 0 THEN GivenRoots(w) ELSE g[n - 1] \cup UNION {Onward(w, r) : r \in g[n - 1]}
    <3>1. CASE n = 0
      BY <2>1, <3>1 DEF Widens
    <3>2. CASE n # 0 /\ n <= m
      <4>1. n - 1 \in 0 .. m + 1 /\ n - 1 <= m /\ n \in 0 .. m
        BY <3>2
      <4>2. g[n] = f[n] /\ g[n - 1] = f[n - 1]
        BY <3>2, <4>1
      <4>3. f[n] = f[n - 1] \cup UNION {Onward(w, r) : r \in f[n - 1]}
        BY <2>1, <3>2, <4>1 DEF Widens
      <4> HIDE DEF g
      <4> QED
        BY <3>2, <4>2, <4>3
    <3>3. CASE n = m + 1
      <4>1. n - 1 = m /\ g[n - 1] = f[m] /\ g[n] = Onto(w, f[m]) /\ n # 0
        BY <3>3
      <4> HIDE DEF g
      <4> QED
        BY <4>1 DEF Onto
    <3> QED
      BY <3>1, <3>2, <3>3
  <2>3. Widens(w, m + 1, g)
    BY <2>2 DEF Widens
  <2> QED
    BY <2>3
<1>3. Depth \in P
  <2> HIDE DEF P
  <2> QED
    BY <1>1, <1>2, DepthAssumption, InductionOnSet
<1> DEFINE f == CHOOSE h : Widens(w, Depth, h)
<1>4. Widens(w, Depth, f)
  BY <1>3
<1>5. Reachable(w) = f[Depth]
  BY DEF Reachable, Widens
<1> HIDE DEF f
<1>6. ASSUME NEW n \in 0 .. Depth
      PROVE  f[n] = IF n = 0 THEN GivenRoots(w) ELSE Onto(w, f[n - 1])
  BY <1>4 DEF Widens, Onto
<1>7. f[0] = GivenRoots(w) /\ \A n \in 1 .. Depth : f[n] = Onto(w, f[n - 1])
  BY <1>6, DepthAssumption
<1> QED
  BY <1>4, <1>5, <1>7

(* The roots are reachable.                                                *)
LEMMA RootsReachable == ASSUME NEW w PROVE GivenRoots(w) \subseteq Reachable(w)
<1>1. PICK f : /\ Reachable(w) = f[Depth] /\ f[0] = GivenRoots(w)
               /\ \A n \in 1 .. Depth : f[n] = Onto(w, f[n - 1])
  BY Widening
<1> DEFINE P == {m \in 0 .. Depth : GivenRoots(w) \subseteq f[m]}
<1>2. 0 \in P
  BY <1>1, DepthAssumption
<1>3. ASSUME NEW m \in 0 .. Depth - 1, m \in P PROVE m + 1 \in P
  <2>1. m + 1 \in 1 .. Depth /\ (m + 1) - 1 = m /\ m + 1 \in 0 .. Depth
    BY DepthAssumption
  <2>2. f[m] \subseteq f[m + 1]
    BY <1>1, <2>1 DEF Onto
  <2> QED
    BY <1>3, <2>1, <2>2
<1>4. \A m \in 0 .. Depth : m \in P
  <2> HIDE DEF P
  <2> QED
    BY <1>2, <1>3, DepthAssumption, InductionUpTo
<1>5. Depth \in 0 .. Depth
  BY DepthAssumption
<1> QED
  BY <1>1, <1>4, <1>5

(* Nothing else is: a set closed under the steps holds what is reachable.  *)
LEMMA ReachableLeast ==
  ASSUME NEW w, NEW S, GivenRoots(w) \subseteq S, \A r \in S : Onward(w, r) \subseteq S
  PROVE  Reachable(w) \subseteq S
<1>1. PICK f : /\ Reachable(w) = f[Depth] /\ f[0] = GivenRoots(w)
               /\ \A n \in 1 .. Depth : f[n] = Onto(w, f[n - 1])
  BY Widening
<1> DEFINE P == {m \in 0 .. Depth : f[m] \subseteq S}
<1>2. 0 \in P
  BY <1>1, DepthAssumption
<1>3. ASSUME NEW m \in 0 .. Depth - 1, m \in P PROVE m + 1 \in P
  <2>1. m + 1 \in 1 .. Depth /\ (m + 1) - 1 = m /\ m + 1 \in 0 .. Depth
    BY DepthAssumption
  <2>2. f[m + 1] = Onto(w, f[m]) /\ f[m] \subseteq S
    BY <1>1, <1>3, <2>1
  <2>3. Onto(w, f[m]) \subseteq S
    BY <2>2 DEF Onto
  <2> QED
    BY <2>1, <2>2, <2>3
<1>4. \A m \in 0 .. Depth : m \in P
  <2> HIDE DEF P
  <2> QED
    BY <1>2, <1>3, DepthAssumption, InductionUpTo
<1>5. Depth \in 0 .. Depth
  BY DepthAssumption
<1> QED
  BY <1>1, <1>4, <1>5

(* The path of an entry of a directory.                                    *)
LEMMA NamePath ==
  ASSUME NEW t, IsTree(t), NEW dir \in Seq(STRING), NEW n \in Names(t, dir)
  PROVE  /\ Append(dir, n) \in Seq(STRING)
         /\ Front(Append(dir, n)) = dir /\ Last(Append(dir, n)) = n
<1>1. n \in STRING
  BY NamesOrdered
<1> QED
  BY <1>1, PathEntry

-----------------------------------------------------------------------------
(* What parse_lib returns of a path.                                       *)
Followed(dir, rec) == IF Followable(dir) THEN <<Item(dir, rec)>> ELSE <<>>

(* The RUNPATH directories that parse_lib hands on.                        *)
LEMMA FollowedDirs ==
  ASSUME NEW rp \in Seq(Seq(STRING)), NEW rec
  PROVE  LET follow == FlattenSeq([k \in DOMAIN rp |-> Followed(rp[k], rec)])
         IN /\ IsSeq(follow)
            /\ ToSet(follow) = {Item(d, rec) : d \in {e \in ToSet(rp) : Followable(e)}}
<1> DEFINE seqs == [k \in DOMAIN rp |-> Followed(rp[k], rec)]
           follow == FlattenSeq(seqs)
           S == {Item(d, rec) : d \in {e \in ToSet(rp) : Followable(e)}}
<1>1. DOMAIN rp = 1 .. Len(rp) /\ Len(rp) \in Nat
  OBVIOUS
<1>2. ASSUME NEW k \in DOMAIN rp PROVE seqs[k] \in Seq(S)
  <2>1. CASE ~Followable(rp[k])
    <3>1. seqs[k] = <<>>
      BY <2>1 DEF Followed
    <3> HIDE DEF S, seqs
    <3> QED
      BY <3>1
  <2>2. CASE Followable(rp[k])
    <3>1. seqs[k] = <<Item(rp[k], rec)>>
      BY <2>2 DEF Followed
    <3>2. Item(rp[k], rec) \in S
      BY <2>2 DEF ToSet
    <3> HIDE DEF S, seqs
    <3> QED
      BY <3>1, <3>2
  <2> QED
    BY <2>1, <2>2
<1>3. seqs \in Seq(Seq(S)) /\ DOMAIN seqs = DOMAIN rp
  <2>1. seqs \in [1 .. Len(rp) -> Seq(S)]
    <3> HIDE DEF S
    <3> QED
      BY <1>1, <1>2
  <2> DEFINE V == Seq(S)
             n == Len(rp)
  <2>2. seqs \in [1 .. n -> V] /\ n \in Nat
    BY <1>1, <2>1
  <2> HIDE DEF S, seqs, V, n
  <2>3. seqs \in Seq(V) /\ DOMAIN seqs = 1 .. n
    BY <2>2
  <2> QED
    BY <1>1, <2>3 DEF V, n
<1>4. /\ follow \in Seq(S)
      /\ \A i \in DOMAIN seqs : \A j \in DOMAIN seqs[i] :
           \E k \in DOMAIN follow : follow[k] = seqs[i][j]
  <2> HIDE DEF S, seqs
  <2> QED
    BY <1>3, FlattenElements
<1>5. ToSet(follow) \subseteq S
  <2> HIDE DEF S, follow
  <2> QED
    BY <1>4 DEF ToSet
<1>6. ASSUME NEW d \in ToSet(rp), Followable(d)
      PROVE  Item(d, rec) \in ToSet(follow)
  <2>1. PICK k \in DOMAIN rp : rp[k] = d
    BY DEF ToSet
  <2>2. seqs[k] = <<Item(d, rec)>>
    BY <1>6, <2>1 DEF Followed
  <2>3. 1 \in DOMAIN seqs[k] /\ seqs[k][1] = Item(d, rec)
    BY <2>2
  <2> HIDE DEF seqs, follow
  <2> QED
    BY <1>3, <1>4, <2>1, <2>3 DEF ToSet
<1>7. ToSet(follow) = S
  <2>1. S \subseteq ToSet(follow)
    <3> HIDE DEF follow
    <3> QED
      BY <1>6
  <2> HIDE DEF S, follow
  <2> QED
    BY <1>5, <2>1
<1>8. IsSeq(follow)
  <2> HIDE DEF S, follow
  <2> QED
    BY <1>4, <1>5, <1>7 DEF IsSeq, ToSet
<1> QED
  BY <1>7, <1>8

(* A library that the tree offers, as the index describes it.              *)
LEMMA ParsedLibrary ==
  ASSUME world \in Worlds, fs = world.fs, NEW item, item.path \in Seq(STRING)
  PROVE  /\ ParseLib(item) # <<>> <=> Usable(world, item.path)
         /\ ParseLib(item) # <<>> =>
              /\ Entry(ParseLib(item)[1]) = Described(world, item.path)
              /\ IsSeq(ParseLib(item)[1].follow)
              /\ ToSet(ParseLib(item)[1].follow)
                   = {Item(d, item.rec) : d \in RunPathDirs(world, item.path)}
              /\ \A d \in RunPathDirs(world, item.path) : d \in Seq(STRING)
<1> DEFINE p == item.path
           elf == NodeAt(fs, p)
           lib == ParseLib(item)[1]
<1>1. IsTree(fs)
  BY LibCacheAssumption
<1>2. ParseLib(item) # <<>> <=> Usable(world, p)
  BY DEF ParseLib, LibOf, Usable
<1>3. ASSUME elf.kind = "elf", ~elf.debug
      PROVE  /\ Entry(lib) = Described(world, p)
             /\ IsSeq(lib.follow)
             /\ ToSet(lib.follow) = {Item(d, item.rec) : d \in RunPathDirs(world, p)}
             /\ \A d \in RunPathDirs(world, p) : d \in Seq(STRING)
  <2> DEFINE follow == FlattenSeq([k \in DOMAIN elf.runpath |-> Followed(elf.runpath[k], item.rec)])
  <2>1. lib = [name |-> Last(p), arch |-> elf.arch, osabi |-> elf.osabi, dir |-> Front(p),
               follow |-> follow]
    BY <1>3 DEF ParseLib, LibOf, Followed
  <2>2. Canonical(fs, p) # NoPath /\ elf = fs[Canonical(fs, p)]
    BY <1>3 DEF NodeAt
  <2>3. elf.runpath \in Seq(Seq(STRING))
    <3>1. Canonical(fs, p) \in DOMAIN fs
      BY <1>1, <2>2, CanonicalKnown DEF KnownIn
    <3> QED
      BY <1>1, <1>3, <2>2, <3>1 DEF IsTree
  <2>4. Canonical(fs, Front(p)) # NoPath
    BY <1>1, <2>2, CanonicalFront
  <2>5. Entry(lib) = Described(world, p)
    <3> HIDE DEF lib, follow
    <3> QED
      BY <2>1, <2>4 DEF Entry, Described
  <2>6. /\ IsSeq(follow)
        /\ ToSet(follow) = {Item(d, item.rec) :
                              d \in {e \in ToSet(elf.runpath) : Followable(e)}}
    BY <2>3, FollowedDirs
  <2>7. \A d \in ToSet(elf.runpath) : d \in Seq(STRING)
    <3> HIDE DEF elf
    <3> QED
      BY <2>3 DEF ToSet
  <2>8. RunPathDirs(world, p) = {e \in ToSet(elf.runpath) : Followable(e)}
    BY DEF RunPathDirs
  <2>9. lib.follow = follow
    <3> HIDE DEF lib, follow
    <3> QED
      BY <2>1
  <2> HIDE DEF lib, follow
  <2> QED
    BY <2>5, <2>6, <2>7, <2>8, <2>9
<1> QED
  BY <1>2, <1>3 DEF Usable

(* The items of a level that are libraries, and the result of each.        *)
Libs == {i \in DOMAIN toParse : ParseLib(toParse[i]) # <<>>}
Result(i) == [at |-> i, lib |-> ParseLib(toParse[i])[1]]
Results == {Result(i) : i \in Libs}

(* The kinds of values, and no thread runs outside a level.                *)
Kinds ==
  /\ stage \in {"start", "scan", "parse", "collect", "walk", "patch", "done"}
  /\ IsSeq(toParse)
  /\ cursor \in Nat \ {0}
  /\ pc \in [Workers -> {"idle", "claim", "parse", "done"}]
  /\ taken \in [Workers -> Nat]
  /\ DOMAIN local = Workers
  /\ stage # "parse" => \A w \in Workers : pc[w] = "idle"

(* A worker holds an item that was handed out to it alone.                 *)
Holding ==
  \A w \in Workers : pc[w] = "parse" =>
    /\ taken[w] \in DOMAIN toParse /\ taken[w] < cursor
    /\ \A v \in Workers : pc[v] = "parse" /\ taken[v] = taken[w] => v = w

(* Every result is that of an item handed out, which no one holds any      *)
(* more, and is kept once.                                                 *)
Kept ==
  \A w \in Workers :
    /\ local[w] \in Seq(Results)
    /\ \A k \in DOMAIN local[w] :
         /\ local[w][k].at < cursor
         /\ \A v \in Workers : pc[v] = "parse" => taken[v] # local[w][k].at
         /\ \A v \in Workers : \A j \in DOMAIN local[v] :
              local[v][j].at = local[w][k].at => v = w /\ j = k

(* A library handed out is held or kept.                                   *)
Accounted ==
  \A i \in Libs : i < cursor =>
    \/ \E w \in Workers : pc[w] = "parse" /\ taken[w] = i
    \/ \E w \in Workers : \E k \in DOMAIN local[w] : local[w][k].at = i

(* The first worker leaves when all is handed out.                         *)
Exhausted == pc[1] = "done" => cursor > Len(toParse)

(* While a level is parsed.                                                *)
Level == stage = "parse" => Holding /\ Kept /\ Accounted /\ Exhausted

(* The inductive invariant of the pool.                                    *)
CInv == Kinds /\ Level

-----------------------------------------------------------------------------
(* There is a first worker.                                                *)
LEMMA FirstWorker == Workers = 1 .. NumWorkers /\ NumWorkers \in Nat /\ 1 \in Workers
BY LibCacheAssumption DEF Workers

(* parse_lib returns one library or none.                                  *)
LEMMA ParseOptions ==
  ASSUME NEW item
  PROVE  ParseLib(item) = <<>> \/ \E l : ParseLib(item) = <<l>>
BY DEF ParseLib, LibOf

-----------------------------------------------------------------------------
(* The invariant is kept.                                                  *)
LEMMA SameLevel ==
  ASSUME fs' = fs, toParse' = toParse
  PROVE  /\ Libs' = Libs /\ Results' = Results
         /\ \A i : Result(i)' = Result(i)
         /\ \A item : ParseLib(item)' = ParseLib(item)
<1>1. ASSUME NEW item PROVE ParseLib(item)' = ParseLib(item)
  BY DEF ParseLib
<1>2. Libs' = Libs
  BY <1>1 DEF Libs
<1>3. \A i : Result(i)' = Result(i)
  BY <1>1 DEF Result
<1> QED
  BY <1>1, <1>2, <1>3 DEF Results

(* No level is parsed at the start.                                        *)
LEMMA InitCache == Init => CInv
<1> SUFFICES ASSUME Init PROVE CInv
  OBVIOUS
<1> USE DEF Init, CacheInit
<1>1. IsSeq(toParse)
  <2>1. \A s : s = <<>> => IsSeq(s)
    BY DEF IsSeq
  <2> QED
    BY <2>1
<1>2. Kinds
  BY <1>1 DEF Kinds
<1> QED
  BY <1>2 DEF CInv, Level

(* A visit, which no thread sees.                                          *)
LEMMA VisitCache == ASSUME CInv, Visit PROVE CInv'
<1>1. IsSeq(toParse')
  <2>1. IsSeq(toParse)
    BY DEF CInv, Kinds
  <2>2. CASE UNCHANGED toParse
    BY <2>1, <2>2
  <2>3. CASE VisitFile(Head(frontier))
    BY <2>1, <2>3, SeqAppend DEF VisitFile
  <2>4. CASE VisitDir(Head(frontier))
    BY <2>1, <2>4, SeqJoin, EntriesItems DEF VisitDir
  <2> QED
    BY <2>2, <2>3, <2>4 DEF Visit
<1>2. Kinds'
  BY <1>1 DEF CInv, Kinds, Visit, IsSeq
<1> QED
  BY <1>2 DEF CInv, Level, Visit

(* The threads start with nothing handed out.                              *)
LEMMA SpawnCache == ASSUME CInv, Spawn PROVE CInv'
<1> USE DEF Spawn
<1>1. Kinds'
  <2>1. IsSeq(toParse)' /\ taken' \in [Workers -> Nat]
    BY DEF CInv, Kinds, IsSeq
  <2>2. pc' \in [Workers -> {"idle", "claim", "parse", "done"}]
    OBVIOUS
  <2> QED
    BY <2>1, <2>2 DEF Kinds
<1>2. Len(toParse) \in Nat /\ DOMAIN toParse = 1 .. Len(toParse)
  BY DEF CInv, Kinds, IsSeq
<1>3. \A w \in Workers : pc'[w] # "parse" /\ local'[w] = <<>>
  OBVIOUS
<1>4. Holding'
  BY <1>3 DEF Holding
<1>5. Kept'
  <2>1. \A w \in Workers : local'[w] \in Seq(Results') /\ DOMAIN local'[w] = {}
    <3>1. \A s : s = <<>> => s \in Seq(Results') /\ DOMAIN s = {}
      OBVIOUS
    <3> QED
      BY <1>3, <3>1
  <2> QED
    BY <2>1 DEF Kept
<1>6. Accounted'
  <2>1. \A i \in Libs' : i \in 1 .. Len(toParse) /\ ~(i < cursor')
    BY <1>2 DEF Libs
  <2> QED
    BY <2>1 DEF Accounted
<1>7. Exhausted'
  BY <1>2, FirstWorker DEF Exhausted
<1> QED
  BY <1>1, <1>4, <1>5, <1>6, <1>7 DEF CInv, Level

(* An item is handed out.                                                  *)
LEMMA GrabCache == ASSUME CInv, stage = "parse", NEW w \in Workers, Grab(w) PROVE CInv'
<1> USE DEF Grab
<1>1. Kinds'
  BY DEF CInv, Kinds, IsSeq
<1>2. /\ cursor \in Nat \ {0} /\ Len(toParse) \in Nat /\ DOMAIN toParse = 1 .. Len(toParse)
      /\ pc \in [Workers -> {"idle", "claim", "parse", "done"}] /\ taken \in [Workers -> Nat]
  BY DEF CInv, Kinds, IsSeq
<1>3. /\ pc'[w] = (IF cursor <= Len(toParse) THEN "parse" ELSE "done") /\ taken'[w] = cursor
      /\ \A v \in Workers : v # w => pc'[v] = pc[v] /\ taken'[v] = taken[v]
      /\ pc[w] = "claim"
  BY <1>2
<1>4. Holding /\ Kept /\ Accounted /\ Exhausted
  BY DEF CInv, Level
<1>5. Holding'
  <2>1. \A v \in Workers : pc'[v] = "parse" =>
          taken'[v] \in DOMAIN toParse /\ taken'[v] < cursor'
    BY <1>2, <1>3, <1>4 DEF Holding
  <2>2. \A u, v \in Workers : pc'[u] = "parse" /\ pc'[v] = "parse" /\ taken'[u] = taken'[v]
          => u = v
    BY <1>2, <1>3, <1>4 DEF Holding
  <2> QED
    BY <2>1, <2>2 DEF Holding
<1>6. Results' = Results /\ Libs' = Libs
  BY SameLevel
<1>7. Kept'
  <2>1. ASSUME NEW u \in Workers, NEW k \in DOMAIN local[u]
        PROVE  /\ local[u][k].at < cursor'
               /\ \A v \in Workers : pc'[v] = "parse" => taken'[v] # local[u][k].at
    <3>1. local[u][k].at < cursor /\ local[u][k].at \in Nat
      <4>1. local[u] \in Seq(Results) /\ local[u][k].at < cursor
        BY <1>4 DEF Kept
      <4>2. local[u][k] \in Results
        BY <4>1
      <4> QED
        BY <1>2, <4>1, <4>2 DEF Results, Result, Libs
    <3> QED
      BY <1>2, <1>3, <1>4, <3>1 DEF Kept
  <2> QED
    BY <1>4, <1>6, <2>1 DEF Kept
<1>8. Accounted'
  <2> SUFFICES ASSUME NEW i \in Libs, i < cursor'
               PROVE  \/ \E v \in Workers : pc'[v] = "parse" /\ taken'[v] = i
                      \/ \E v \in Workers : \E k \in DOMAIN local[v] : local[v][k].at = i
    BY <1>6 DEF Accounted
  <2>1. i \in 1 .. Len(toParse)
    BY <1>2 DEF Libs
  <2>2. CASE i = cursor
    BY <1>2, <1>3, <2>1, <2>2
  <2>3. CASE i < cursor
    BY <1>3, <1>4, <2>3 DEF Accounted
  <2> QED
    BY <1>2, <2>1, <2>2, <2>3
<1>9. Exhausted'
  BY <1>2, <1>3, <1>4, FirstWorker DEF Exhausted
<1> QED
  BY <1>1, <1>5, <1>7, <1>8, <1>9 DEF CInv, Level

(* An item's result is kept.                                               *)
LEMMA ParseCache == ASSUME CInv, stage = "parse", NEW w \in Workers, Parse(w) PROVE CInv'
<1> DEFINE i == taken[w]
           result == ParseLib(toParse[i])
           new == [x \in DOMAIN result |-> [at |-> i, lib |-> result[x]]]
<1>1. /\ cursor \in Nat \ {0} /\ Len(toParse) \in Nat /\ DOMAIN toParse = 1 .. Len(toParse)
      /\ pc \in [Workers -> {"idle", "claim", "parse", "done"}] /\ taken \in [Workers -> Nat]
      /\ DOMAIN local = Workers
  BY DEF CInv, Kinds, IsSeq
<1>2. Holding /\ Kept /\ Accounted /\ Exhausted
  BY DEF CInv, Level
<1>3. /\ pc[w] = "parse" /\ pc'[w] = "claim" /\ \A v \in Workers : v # w => pc'[v] = pc[v]
      /\ local' = [local EXCEPT ![w] = @ \o new]
      /\ fs' = fs /\ toParse' = toParse /\ taken' = taken /\ cursor' = cursor /\ stage' = stage
  BY <1>1 DEF Parse
<1> HIDE DEF result
<1>4. /\ DOMAIN local' = Workers /\ local'[w] = local[w] \o new
      /\ \A v \in Workers : v # w => local'[v] = local[v]
  <2> HIDE DEF new
  <2> QED
    BY <1>1, <1>3
<1>5. i \in DOMAIN toParse /\ i < cursor
  BY <1>2, <1>3 DEF Holding
<1>6. Results' = Results /\ Libs' = Libs
  BY <1>3, SameLevel
<1>7. Kinds'
  <2>1. pc' \in [Workers -> {"idle", "claim", "parse", "done"}]
    BY <1>1 DEF Parse
  <2>2. stage' \in {"start", "scan", "parse", "collect", "walk", "patch", "done"}
        /\ IsSeq(toParse)' /\ stage' = "parse"
    BY <1>3 DEF CInv, Kinds, IsSeq
  <2> QED
    BY <1>1, <1>3, <1>4, <2>1, <2>2 DEF Kinds
<1>8. Holding'
  BY <1>2, <1>3 DEF Holding
<1>9. Exhausted'
  BY <1>2, <1>3, FirstWorker DEF Exhausted
<1>10. ASSUME NEW u \in Workers, NEW k \in DOMAIN local[u]
       PROVE  /\ local[u] \in Seq(Results) /\ local[u][k].at # i
              /\ local[u][k].at < cursor
              /\ \A v \in Workers : pc'[v] = "parse" => taken[v] # local[u][k].at
              /\ \A v \in Workers : \A j \in DOMAIN local[v] :
                   local[v][j].at = local[u][k].at => v = u /\ j = k
  <2>1. /\ local[u] \in Seq(Results) /\ local[u][k].at < cursor
        /\ \A v \in Workers : pc[v] = "parse" => taken[v] # local[u][k].at
    BY <1>2 DEF Kept
  <2>2. \A v \in Workers : \A j \in DOMAIN local[v] :
          local[v][j].at = local[u][k].at => v = u /\ j = k
    BY <1>2 DEF Kept
  <2>3. \A v \in Workers : pc'[v] = "parse" => pc[v] = "parse"
    BY <1>3
  <2> HIDE DEF new
  <2> QED
    BY <1>3, <2>1, <2>2, <2>3
<1>11. CASE result = <<>>
  <2>1. \A s \in Seq(Results) : s \o new = s
    <3>1. new = <<>>
      BY <1>11
    <3> HIDE DEF new
    <3> QED
      BY <3>1
  <2>2. \A u \in Workers : local'[u] = local[u]
    <3>1. local[w] \in Seq(Results)
      BY <1>2 DEF Kept
    <3> HIDE DEF new
    <3> QED
      BY <1>4, <2>1, <3>1
  <2>3. i \notin Libs
    BY <1>11 DEF Libs, result
  <2>4. Kept'
    <3>1. ASSUME NEW u \in Workers PROVE local'[u] \in Seq(Results)
      BY <1>2, <2>2 DEF Kept
    <3>2. ASSUME NEW u \in Workers, NEW k \in DOMAIN local'[u]
          PROVE  /\ local'[u][k].at < cursor
                 /\ \A v \in Workers : pc'[v] = "parse" => taken[v] # local'[u][k].at
      BY <1>10, <2>2
    <3>3. ASSUME NEW u \in Workers, NEW k \in DOMAIN local'[u],
                 NEW v \in Workers, NEW j \in DOMAIN local'[v],
                 local'[v][j].at = local'[u][k].at
          PROVE  v = u /\ j = k
      BY <1>10, <2>2, <3>3
    <3> HIDE DEF new
    <3> QED
      BY <1>3, <1>6, <3>1, <3>2, <3>3 DEF Kept
  <2>5. Accounted'
    <3> SUFFICES ASSUME NEW x \in Libs, x < cursor
                 PROVE  \/ \E v \in Workers : pc'[v] = "parse" /\ taken[v] = x
                        \/ \E v \in Workers : \E k \in DOMAIN local'[v] : local'[v][k].at = x
      BY <1>3, <1>6 DEF Accounted
    <3>1. CASE \E v \in Workers : pc[v] = "parse" /\ taken[v] = x
      BY <1>3, <2>3, <3>1
    <3>2. CASE \E v \in Workers : \E k \in DOMAIN local[v] : local[v][k].at = x
      BY <2>2, <3>2
    <3> QED
      BY <1>2, <3>1, <3>2 DEF Accounted
  <2> QED
    BY <1>7, <1>8, <1>9, <2>4, <2>5 DEF CInv, Level
<1>12. CASE result # <<>>
  <2>1. PICK l : result = <<l>>
    BY <1>12, ParseOptions DEF result
  <2> DEFINE r == Result(i)
             s == local[w]
             one == <<r>>
  <2>2. i \in Libs /\ r \in Results /\ r = [at |-> i, lib |-> l] /\ r.at = i
    <3>1. i \in Libs
      BY <1>5, <1>12 DEF Libs, result
    <3>2. ParseLib(toParse[i])[1] = l
      BY <2>1 DEF result
    <3> QED
      BY <3>1, <3>2 DEF Results, Result
  <2>3. new = one /\ DOMAIN one = {1} /\ one[1] = r
    BY <2>1, <2>2
  <2>4. s \in Seq(Results) /\ one \in Seq(Results)
    <3> HIDE DEF r
    <3> QED
      BY <1>2, <2>2 DEF Kept
  <2> HIDE DEF r, new
  <2>5. local'[w] = s \o one
    BY <1>4, <2>3
  <2> HIDE DEF one, s
  <2>6. /\ s \o one \in Seq(Results) /\ Len(s) \in Nat
        /\ \A k \in DOMAIN s : k \in DOMAIN local'[w] /\ local'[w][k] = s[k]
        /\ 1 + Len(s) \in DOMAIN local'[w] /\ local'[w][1 + Len(s)] = r
        /\ \A k \in DOMAIN local'[w] :
             \/ k \in DOMAIN s /\ local'[w][k] = s[k]
             \/ /\ k \in Nat /\ k > Len(s) /\ k - Len(s) \in DOMAIN one
                /\ local'[w][k] = one[k - Len(s)]
    <3>1. s \o one \in Seq(Results) /\ IsJoin(local'[w], s, one)
      BY <2>4, <2>5, Concatenated
    <3>2. 1 \in DOMAIN one /\ one[1] = r
      BY <2>3
    <3> QED
      BY <3>1, <3>2 DEF IsJoin
  <2>7. \A k \in DOMAIN local'[w] :
          \/ k \in DOMAIN s /\ local'[w][k] = s[k]
          \/ k = 1 + Len(s) /\ local'[w][k] = r
    BY <2>3, <2>6
  (* Each result is an old one, or the new one.                            *)
  <2> DEFINE Old(u, k) == k \in DOMAIN local[u] /\ local'[u][k] = local[u][k]
             New(u, k) == u = w /\ k = 1 + Len(s) /\ local'[u][k].at = i
  <2>8. ASSUME NEW u \in Workers, NEW k \in DOMAIN local'[u] PROVE Old(u, k) \/ New(u, k)
    <3>1. CASE u = w
      BY <2>2, <2>7, <3>1 DEF s
    <3>2. CASE u # w
      BY <1>4, <3>2
    <3> QED
      BY <3>1, <3>2
  <2>9. Kept'
    <3>1. ASSUME NEW u \in Workers PROVE local'[u] \in Seq(Results)
      <4>1. CASE u = w
        BY <2>5, <2>6, <4>1
      <4>2. CASE u # w
        BY <1>2, <1>4, <4>2 DEF Kept
      <4> QED
        BY <4>1, <4>2
    <3>2. ASSUME NEW u \in Workers, NEW k \in DOMAIN local'[u]
          PROVE  /\ local'[u][k].at < cursor
                 /\ \A v \in Workers : pc'[v] = "parse" => taken[v] # local'[u][k].at
      <4>1. CASE Old(u, k)
        BY <1>10, <4>1
      <4>2. CASE New(u, k)
        BY <1>2, <1>3, <1>5, <4>2 DEF Holding
      <4> QED
        BY <2>8, <4>1, <4>2
    <3>3. ASSUME NEW u \in Workers, NEW k \in DOMAIN local'[u],
                 NEW v \in Workers, NEW j \in DOMAIN local'[v],
                 local'[v][j].at = local'[u][k].at
          PROVE  v = u /\ j = k
      <4>1. CASE Old(u, k) /\ Old(v, j)
        BY <1>10, <3>3, <4>1
      <4>2. CASE New(u, k) /\ New(v, j)
        BY <4>2
      <4>3. CASE Old(u, k) /\ New(v, j)
        BY <1>10, <3>3, <4>3
      <4>4. CASE New(u, k) /\ Old(v, j)
        BY <1>10, <3>3, <4>4
      <4>5. (Old(u, k) \/ New(u, k)) /\ (Old(v, j) \/ New(v, j))
        BY <2>8
      <4> HIDE DEF Old, New
      <4> QED
        BY <4>1, <4>2, <4>3, <4>4, <4>5
    <3> QED
      BY <1>3, <1>6, <3>1, <3>2, <3>3 DEF Kept
  <2>10. Accounted'
    <3> SUFFICES ASSUME NEW x \in Libs, x < cursor
                 PROVE  \/ \E v \in Workers : pc'[v] = "parse" /\ taken[v] = x
                        \/ \E v \in Workers : \E k \in DOMAIN local'[v] : local'[v][k].at = x
      BY <1>3, <1>6 DEF Accounted
    <3>1. CASE x = i
      <4>1. local'[w][1 + Len(s)].at = i /\ 1 + Len(s) \in DOMAIN local'[w]
        BY <2>2, <2>6
      <4> QED
        BY <3>1, <4>1
    <3>2. CASE x # i /\ \E v \in Workers : pc[v] = "parse" /\ taken[v] = x
      BY <1>3, <3>2
    <3>3. CASE \E v \in Workers : \E k \in DOMAIN local[v] : local[v][k].at = x
      <4>1. PICK v \in Workers : \E k \in DOMAIN local[v] : local[v][k].at = x
        BY <3>3
      <4>2. PICK k \in DOMAIN local[v] : local[v][k].at = x
        BY <4>1
      <4>3. k \in DOMAIN local'[v] /\ local'[v][k] = local[v][k]
        BY <1>4, <2>6 DEF s
      <4> QED
        BY <4>2, <4>3
    <3> QED
      BY <1>2, <3>1, <3>2, <3>3 DEF Accounted
  <2> QED
    BY <1>7, <1>8, <1>9, <2>9, <2>10 DEF CInv, Level
<1> QED
  BY <1>11, <1>12

(* The threads are joined.                                                 *)
LEMMA MergeCache == ASSUME CInv, Merge PROVE CInv'
<1>1. IsSeq(toParse')
  <2>1. \A s : s = <<>> => IsSeq(s)
    BY DEF IsSeq
  <2> QED
    BY <2>1 DEF Merge
<1>2. /\ cursor' = cursor /\ taken' = taken /\ local' = local
      /\ pc' = [w \in Workers |-> "idle"] /\ stage' \in {"collect", "scan"}
  BY DEF Merge
<1>3. Kinds'
  BY <1>1, <1>2 DEF CInv, Kinds
<1> QED
  BY <1>2, <1>3 DEF CInv, Level

(* Every step keeps the pool's invariant.                                  *)
LEMMA NextCache == CInv /\ [Next]_vars => CInv'
<1> SUFFICES ASSUME CInv, [Next]_vars PROVE CInv'
  OBVIOUS
<1>1. ASSUME UNCHANGED <<toParse, cursor, pc, taken, local>>, stage # "parse",
             stage' \in {"start", "scan", "collect", "walk", "patch", "done"}
      PROVE  CInv'
  BY <1>1 DEF CInv, Kinds, Level, IsSeq
<1>2. ASSUME Start PROVE CInv'
  BY <1>1, <1>2 DEF Start, Quit, cacheVars
<1>3. ASSUME CollectPaths \/ CollectDir \/ Collected \/ Report PROVE CInv'
  BY <1>1, <1>3 DEF CollectPaths, CollectDir, Collected, Report, cacheVars
<1>4. ASSUME NEW i \in DOMAIN files, PatchOne(i) PROVE CInv'
  BY <1>1, <1>4 DEF PatchOne, cacheVars
<1>5. ASSUME NEW w \in Workers, Grab(w) \/ Parse(w) PROVE CInv'
  <2>1. stage = "parse"
    BY <1>5 DEF CInv, Kinds, Grab, Parse
  <2> QED
    BY <1>5, <2>1, GrabCache, ParseCache
<1>6. ASSUME Visit \/ Spawn \/ Merge PROVE CInv'
  BY <1>6, VisitCache, SpawnCache, MergeCache
<1>7. CASE UNCHANGED vars
  <2>1. UNCHANGED <<stage, fs, toParse, cursor, pc, taken, local>>
    BY <1>7 DEF vars, cacheVars
  <2>2. Libs' = Libs /\ Results' = Results
    BY <2>1, SameLevel
  <2> QED
    BY <2>1, <2>2 DEF CInv, Kinds, Level, IsSeq, Holding, Kept, Accounted, Exhausted
<1> QED
  BY <1>2, <1>3, <1>4, <1>5, <1>6, <1>7 DEF Next, Populate

(* The pool's invariant holds.                                             *)
LEMMA InductiveCache == Spec => []CInv
<1>1. Init => CInv
  BY InitCache
<1>2. CInv /\ [Next]_vars => CInv'
  BY NextCache
<1> QED
  BY <1>1, <1>2, PTL DEF Spec

-----------------------------------------------------------------------------
(* A call's types: no worker parses past the end of a level, and no file   *)
(* is settled that was not collected (par_map, patch_all).                 *)
CallTypes ==
  /\ world \in Worlds
  /\ DOMAIN fs = DOMAIN world.fs
  /\ settled \subseteq DOMAIN files
  /\ stage \notin {"patch", "done"} => settled = {}
  /\ answer.kind \in {"none", "ok", "err"}

(* Every step keeps the types of a call.                                   *)
LEMMA NextCall == ASSUME CInv, CallTypes, [Next]_vars PROVE CallTypes'
<1> USE DEF CallTypes
<1>1. ASSUME Start PROVE CallTypes'
  BY <1>1 DEF Start, Quit
<1>2. ASSUME Populate PROVE CallTypes'
  BY <1>2 DEF Populate, Visit, Spawn, Merge, Grab, Parse
<1>3. ASSUME CollectPaths \/ CollectDir \/ Collected PROVE CallTypes'
  BY <1>3 DEF CollectPaths, CollectDir, Collected
<1>4. ASSUME NEW i \in DOMAIN files, PatchOne(i) PROVE CallTypes'
  <2>1. DOMAIN fs' = DOMAIN fs
    BY <1>4 DEF PatchOne
  <2>2. /\ world' = world /\ stage' = stage /\ files' = files /\ answer' = answer
        /\ settled' = settled \cup {i} /\ stage = "patch"
    BY <1>4 DEF PatchOne
  <2> QED
    BY <2>1, <2>2
<1>5. ASSUME Report PROVE CallTypes'
  <2>1. answer'.kind \in {"ok", "err"}
    BY <1>5 DEF Report
  <2>2. /\ world' = world /\ fs' = fs /\ files' = files /\ settled' = settled
        /\ stage' = "done"
    BY <1>5 DEF Report
  <2> QED
    BY <2>1, <2>2
<1>6. CASE UNCHANGED vars
  BY <1>6 DEF vars
<1> QED
  BY <1>1, <1>2, <1>3, <1>4, <1>5, <1>6 DEF Next

(* A call's variables keep their types: no thread parses past the end of a *)
(* level and no file is settled that was not collected (par_map,           *)
(* patch_all).                                                             *)
THEOREM CallTypeCorrect == Spec => []TypeOK
<1>1. Init => CallTypes
  BY DEF Init, CallTypes, None
<1>2. CInv /\ CallTypes /\ [Next]_vars => CallTypes'
  BY NextCall
<1>3. CInv /\ CallTypes => TypeOK
  BY DEF CInv, Kinds, Level, Holding, CallTypes, TypeOK
<1> QED
  BY <1>1, <1>2, <1>3, InductiveCache, PTL DEF Spec

-----------------------------------------------------------------------------
(* When every worker is done, their results are those of the libraries of  *)
(* the level, each once.                                                   *)
Finished == CInv /\ stage = "parse" /\ \A w \in Workers : pc[w] = "done"

(* All results together: each library's once.                              *)
LEMMA JoinedResults ==
  ASSUME Finished
  PROVE  /\ Joined \in Seq(Results)
         /\ \A i \in Libs : \E k \in DOMAIN Joined : Joined[k].at = i
         /\ \A j, k \in DOMAIN Joined : Joined[j].at = Joined[k].at => j = k
<1> DEFINE seqs == [w \in Workers |-> local[w]]
<1>1. seqs \in Seq(Seq(Results)) /\ DOMAIN seqs = Workers /\ \A w \in Workers : seqs[w] = local[w]
  <2>1. seqs \in [1 .. NumWorkers -> Seq(Results)]
    BY FirstWorker DEF Finished, CInv, Level, Kept
  <2> QED
    BY <2>1, FirstWorker
<1>2. Joined = FlattenSeq(seqs)
  BY DEF Joined
<1> HIDE DEF seqs
<1>3. /\ Joined \in Seq(Results)
      /\ \A k \in DOMAIN Joined :
           \E w \in Workers : \E j \in DOMAIN local[w] : Joined[k] = local[w][j]
      /\ \A w \in Workers : \A j \in DOMAIN local[w] :
           \E k \in DOMAIN Joined : Joined[k] = local[w][j]
  <2>1. /\ FlattenSeq(seqs) \in Seq(Results)
        /\ \A k \in DOMAIN FlattenSeq(seqs) :
             \E i \in DOMAIN seqs : \E j \in DOMAIN seqs[i] : FlattenSeq(seqs)[k] = seqs[i][j]
        /\ \A i \in DOMAIN seqs : \A j \in DOMAIN seqs[i] :
             \E k \in DOMAIN FlattenSeq(seqs) : FlattenSeq(seqs)[k] = seqs[i][j]
    BY <1>1, FlattenElements
  <2>2. ASSUME NEW k \in DOMAIN Joined
        PROVE  \E w \in Workers : \E j \in DOMAIN local[w] : Joined[k] = local[w][j]
    <3>1. PICK w \in DOMAIN seqs : \E j \in DOMAIN seqs[w] : Joined[k] = seqs[w][j]
      BY <1>2, <2>1
    <3> QED
      BY <1>1, <3>1
  <2>3. ASSUME NEW w \in Workers, NEW j \in DOMAIN local[w]
        PROVE  \E k \in DOMAIN Joined : Joined[k] = local[w][j]
    <3>1. w \in DOMAIN seqs /\ j \in DOMAIN seqs[w] /\ seqs[w][j] = local[w][j]
      BY <1>1
    <3> QED
      BY <1>2, <2>1, <3>1
  <2> QED
    BY <1>2, <2>1, <2>2, <2>3
<1>4. \A j, k \in DOMAIN Joined : Joined[j] = Joined[k] => j = k
  <2>1. \A i1, i2 \in DOMAIN seqs : \A j1 \in DOMAIN seqs[i1], j2 \in DOMAIN seqs[i2] :
          seqs[i1][j1] = seqs[i2][j2] => i1 = i2 /\ j1 = j2
    <3> SUFFICES ASSUME NEW v \in Workers, NEW w \in Workers,
                        NEW j \in DOMAIN local[v], NEW k \in DOMAIN local[w],
                        local[v][j] = local[w][k]
                 PROVE  v = w /\ j = k
      BY <1>1
    <3> QED
      BY DEF Finished, CInv, Level, Kept
  <2>2. \A k1, k2 \in DOMAIN FlattenSeq(seqs) :
          FlattenSeq(seqs)[k1] = FlattenSeq(seqs)[k2] => k1 = k2
    BY <1>1, <2>1, FlattenInjective
  <2> QED
    BY <1>2, <2>2
<1>5. \A k \in DOMAIN Joined : \E i \in Libs : Joined[k] = Result(i) /\ Joined[k].at = i
  <2>1. \A k \in DOMAIN Joined : Joined[k] \in Results
    BY <1>3
  <2>2. \A i \in Libs : Result(i).at = i
    BY DEF Result
  <2> QED
    BY <2>1, <2>2 DEF Results
<1>6. ASSUME NEW i \in Libs PROVE \E k \in DOMAIN Joined : Joined[k].at = i
  <2>1. i < cursor
    <3>1. Len(toParse) \in Nat /\ DOMAIN toParse = 1 .. Len(toParse) /\ cursor \in Nat
      BY DEF Finished, CInv, Kinds, IsSeq
    <3>2. cursor > Len(toParse)
      BY FirstWorker DEF Finished, CInv, Level, Exhausted
    <3> QED
      BY <3>1, <3>2 DEF Libs
  <2>2. PICK w \in Workers : \E k \in DOMAIN local[w] : local[w][k].at = i
    BY <2>1 DEF Finished, CInv, Level, Accounted
  <2>3. PICK k \in DOMAIN local[w] : local[w][k].at = i
    BY <2>2
  <2> QED
    BY <1>3, <2>3
<1>7. ASSUME NEW j \in DOMAIN Joined, NEW k \in DOMAIN Joined, Joined[j].at = Joined[k].at
      PROVE  j = k
  <2>1. Joined[j] = Joined[k]
    BY <1>5, <1>7
  <2> QED
    BY <1>4, <2>1
<1> QED
  BY <1>3, <1>6, <1>7

(* The items before one that are libraries.                                *)
LibsBelow(i) == {x \in Libs : x < i}

(* They are finitely many.                                                 *)
LEMMA BelowFinite ==
  ASSUME CInv, NEW i \in Nat
  PROVE  IsFiniteSet(LibsBelow(i)) /\ Cardinality(LibsBelow(i)) \in Nat
<1>1. DOMAIN toParse = 1 .. Len(toParse) /\ Len(toParse) \in Nat
  BY DEF CInv, Kinds, IsSeq
<1>2. LibsBelow(i) \subseteq 1 .. i
  BY <1>1 DEF LibsBelow, Libs
<1>3. IsFiniteSet(1 .. i)
  BY FS_Interval
<1>4. IsFiniteSet(LibsBelow(i))
  BY <1>2, <1>3, FS_Subset
<1> QED
  BY <1>4, FS_CardinalityType

(* Two libraries differ in how many come before them.                      *)
LEMMA BelowCounts ==
  ASSUME CInv, NEW i \in Libs, NEW j \in Libs,
         Cardinality(LibsBelow(i)) = Cardinality(LibsBelow(j))
  PROVE  i = j
<1>1. DOMAIN toParse = 1 .. Len(toParse) /\ Len(toParse) \in Nat
  BY DEF CInv, Kinds, IsSeq
<1>2. ASSUME NEW a \in Libs, NEW b \in Libs, a < b
      PROVE  Cardinality(LibsBelow(a)) # Cardinality(LibsBelow(b))
  <2>1. a \in Nat /\ b \in Nat
    BY <1>1 DEF Libs
  <2>2. LibsBelow(a) \cup {a} \subseteq LibsBelow(b) /\ a \notin LibsBelow(a)
    BY <1>2, <1>1 DEF LibsBelow, Libs
  <2>3. /\ IsFiniteSet(LibsBelow(a)) /\ Cardinality(LibsBelow(a)) \in Nat
        /\ IsFiniteSet(LibsBelow(b)) /\ Cardinality(LibsBelow(b)) \in Nat
    BY <2>1, BelowFinite
  <2>4. Cardinality(LibsBelow(a) \cup {a}) = Cardinality(LibsBelow(a)) + 1
    BY <2>2, <2>3, FS_AddElement
  <2>5. Cardinality(LibsBelow(a) \cup {a}) <= Cardinality(LibsBelow(b))
    BY <2>2, <2>3, FS_Subset
  <2> QED
    BY <2>3, <2>4, <2>5
<1>3. i \in Int /\ j \in Int
  BY <1>1 DEF Libs
<1> QED
  BY <1>2, <1>3

(* As many results come before one as there are libraries before its item. *)
Earlier(j) ==
  {i \in DOMAIN Joined : \/ Joined[i].at < Joined[j].at
                         \/ (Joined[i].at = Joined[j].at /\ i < j)}

(* A result is that of a library of the level.                             *)
LEMMA JoinedItems ==
  ASSUME Finished, NEW j \in DOMAIN Joined
  PROVE  /\ Joined[j].at \in Libs /\ Joined[j].at \in Nat /\ j \in Nat
         /\ Joined[j].lib = ParseLib(toParse[Joined[j].at])[1]
<1>1. DOMAIN toParse = 1 .. Len(toParse) /\ Len(toParse) \in Nat
  BY DEF Finished, CInv, Kinds, IsSeq
<1>2. Joined[j] \in Results /\ j \in Nat
  BY JoinedResults
<1>3. PICK i \in Libs : Joined[j] = Result(i)
  BY <1>2 DEF Results
<1>4. Joined[j].at = i /\ Joined[j].lib = ParseLib(toParse[i])[1]
  BY <1>3 DEF Result
<1> QED
  BY <1>1, <1>2, <1>4 DEF Libs

(* As many results as items.                                               *)
LEMMA ImageCounts ==
  ASSUME Finished, NEW D, D \subseteq DOMAIN Joined, NEW L, IsFiniteSet(L),
         \A k \in D : Joined[k].at \in L, \A i \in L : \E k \in D : Joined[k].at = i
  PROVE  Cardinality(D) = Cardinality(L)
<1> DEFINE f == [k \in D |-> Joined[k].at]
<1>1. f \in Bijection(D, L)
  <2>1. f \in [D -> L]
    OBVIOUS
  <2>2. \A j, k \in D : f[j] = f[k] => j = k
    BY JoinedResults
  <2>3. \A i \in L : \E k \in D : f[k] = i
    OBVIOUS
  <2> QED
    BY <2>1, <2>2, <2>3 DEF Bijection, Injection, Surjection, IsInjective
<1>2. ExistsBijection(D, L)
  <2> HIDE DEF f
  <2> QED
    BY <1>1 DEF ExistsBijection
<1>3. ExistsBijection(L, D)
  BY <1>2, Fun_ExistsBijSymmetric
<1> QED
  BY <1>3, FS_Bijection

(* A result's rank is its library's.                                       *)
LEMMA Ranks ==
  ASSUME Finished, NEW j \in DOMAIN Joined
  PROVE  Cardinality(Earlier(j)) = Cardinality(LibsBelow(Joined[j].at))
<1>1. \A k \in Earlier(j) : Joined[k].at \in LibsBelow(Joined[j].at)
  <2> SUFFICES ASSUME NEW k \in Earlier(j) PROVE Joined[k].at \in LibsBelow(Joined[j].at)
    OBVIOUS
  <2>1. k \in DOMAIN Joined /\ (Joined[k].at = Joined[j].at => k < j)
        /\ (Joined[k].at < Joined[j].at \/ Joined[k].at = Joined[j].at)
    BY JoinedItems DEF Earlier
  <2>2. Joined[k].at = Joined[j].at => k = j
    BY <2>1, JoinedResults
  <2>3. k \in Nat /\ j \in Nat /\ Joined[k].at \in Libs
    BY <2>1, JoinedItems
  <2> QED
    BY <2>1, <2>2, <2>3 DEF LibsBelow
<1>2. \A i \in LibsBelow(Joined[j].at) : \E k \in Earlier(j) : Joined[k].at = i
  BY JoinedResults DEF LibsBelow, Earlier
<1>3. IsFiniteSet(LibsBelow(Joined[j].at))
  BY JoinedItems, BelowFinite DEF Finished
<1>4. Earlier(j) \subseteq DOMAIN Joined
  BY DEF Earlier
<1> QED
  BY <1>1, <1>2, <1>3, <1>4, ImageCounts

(* One thread's results, in order.                                         *)
LEMMA OrderedResults ==
  ASSUME CInv
  PROVE  /\ DOMAIN InOrder = 1 .. Cardinality(Libs)
         /\ IsFiniteSet(Libs)
         /\ \A k \in DOMAIN InOrder :
              \E i \in Libs : /\ Cardinality(LibsBelow(i)) = k - 1
                             /\ InOrder[k] = ParseLib(toParse[i])[1]
<1> DEFINE n == Len(toParse)
           seqs == [i \in DOMAIN toParse |-> ParseLib(toParse[i])]
           S == {ParseLib(toParse[i])[1] : i \in Libs}
<1>1. DOMAIN toParse = 1 .. n /\ n \in Nat
  BY DEF CInv, Kinds, IsSeq
<1>2. ASSUME NEW i \in 1 .. n PROVE ParseLib(toParse[i]) \in Seq(S) /\ Len(ParseLib(toParse[i])) <= 1
  <2>1. CASE ParseLib(toParse[i]) = <<>>
    <3> HIDE DEF S
    <3> QED
      BY <2>1
  <2>2. CASE ParseLib(toParse[i]) # <<>>
    <3>1. PICK l : ParseLib(toParse[i]) = <<l>>
      BY <2>2, ParseOptions
    <3>2. ParseLib(toParse[i])[1] = l
      BY <3>1
    <3>3. i \in Libs
      BY <1>1, <2>2 DEF Libs
    <3>4. l \in S
      BY <3>2, <3>3
    <3> HIDE DEF S
    <3>5. <<l>> \in Seq(S) /\ Len(<<l>>) = 1
      BY <3>4
    <3> QED
      BY <3>1, <3>5
  <2> QED
    BY <2>1, <2>2
<1>3. seqs \in Seq(Seq(S)) /\ DOMAIN seqs = 1 .. n /\ Len(seqs) = n
      /\ \A i \in 1 .. n : seqs[i] = ParseLib(toParse[i])
  <2>1. seqs \in [1 .. n -> Seq(S)]
    <3> HIDE DEF S
    <3> QED
      BY <1>1, <1>2
  <2> HIDE DEF S
  <2> QED
    BY <1>1, <2>1
<1>4. InOrder = FlattenSeq(seqs)
  BY DEF InOrder
<1> HIDE DEF seqs, S
<1>5. \A i \in DOMAIN seqs : Len(seqs[i]) <= 1
  BY <1>2, <1>3
<1>6. /\ Len(InOrder) = Cardinality(NonEmpty(seqs, n))
      /\ \A k \in DOMAIN InOrder :
           \E i \in NonEmpty(seqs, n) :
             Cardinality(NonEmpty(seqs, i - 1)) = k - 1 /\ InOrder[k] = seqs[i][1]
  BY <1>3, <1>4, <1>5, FlattenOptions
<1>7. InOrder \in Seq(S)
  BY <1>3, <1>4, FlattenElements
<1>8. NonEmpty(seqs, n) = Libs
  BY <1>1, <1>3 DEF NonEmpty, Libs
<1>9. ASSUME NEW i \in Libs PROVE NonEmpty(seqs, i - 1) = LibsBelow(i)
  BY <1>1, <1>3 DEF NonEmpty, Libs, LibsBelow
<1>10. IsFiniteSet(Libs)
  BY <1>1, <1>8, NonEmptyNext
<1>11. DOMAIN InOrder = 1 .. Cardinality(Libs)
  BY <1>6, <1>7, <1>8
<1>12. ASSUME NEW k \in DOMAIN InOrder
       PROVE  \E i \in Libs : /\ Cardinality(LibsBelow(i)) = k - 1
                             /\ InOrder[k] = ParseLib(toParse[i])[1]
  <2>1. PICK i \in Libs : Cardinality(NonEmpty(seqs, i - 1)) = k - 1 /\ InOrder[k] = seqs[i][1]
    BY <1>6, <1>8
  <2>2. i \in 1 .. n
    BY <1>1 DEF Libs
  <2> QED
    BY <1>3, <1>9, <2>1, <2>2
<1> QED
  BY <1>10, <1>11, <1>12

(* A library's place among them: only those before it come before it.      *)
LEMMA LibPlace ==
  ASSUME CInv, NEW i \in Libs
  PROVE  \E k \in DOMAIN InOrder :
           /\ InOrder[k] = ParseLib(toParse[i])[1]
           /\ \A m \in 1 .. k : m \in DOMAIN InOrder /\
                \E j \in Libs : j <= i /\ InOrder[m] = ParseLib(toParse[j])[1]
<1> DEFINE c == Cardinality(LibsBelow(i))
           k == c + 1
<1>1. \A x \in Libs : x \in Nat
  BY DEF CInv, Kinds, IsSeq, Libs
<1>2. \A x \in Libs : /\ IsFiniteSet(LibsBelow(x)) /\ Cardinality(LibsBelow(x)) \in Nat
                      /\ x \notin LibsBelow(x)
  BY <1>1, BelowFinite DEF LibsBelow
<1>3. ASSUME NEW S, IsFiniteSet(S), LibsBelow(i) \cup {i} \subseteq S
      PROVE  k <= Cardinality(S) /\ Cardinality(S) \in Nat
  <2>1. Cardinality(LibsBelow(i) \cup {i}) = k
    BY <1>2, FS_AddElement
  <2> QED
    BY <1>3, <2>1, FS_Subset, FS_CardinalityType
<1>4. k \in DOMAIN InOrder /\ DOMAIN InOrder = 1 .. Cardinality(Libs) /\ Cardinality(Libs) \in Nat
  <2>1. LibsBelow(i) \cup {i} \subseteq Libs
    BY DEF LibsBelow
  <2>2. k <= Cardinality(Libs) /\ Cardinality(Libs) \in Nat
    BY <1>3, <2>1, OrderedResults
  <2>3. c \in Nat
    BY <1>2
  <2> QED
    BY <2>2, <2>3, OrderedResults
<1>5. InOrder[k] = ParseLib(toParse[i])[1]
  <2>1. PICK j \in Libs : /\ Cardinality(LibsBelow(j)) = k - 1
                         /\ InOrder[k] = ParseLib(toParse[j])[1]
    BY <1>4, OrderedResults
  <2>2. j = i
    BY <1>2, <2>1, BelowCounts
  <2> QED
    BY <2>1, <2>2
<1>6. ASSUME NEW m \in 1 .. k
      PROVE  m \in DOMAIN InOrder /\ \E j \in Libs : j <= i /\ InOrder[m] = ParseLib(toParse[j])[1]
  <2>1. m \in DOMAIN InOrder
    BY <1>4
  <2>2. PICK j \in Libs : /\ Cardinality(LibsBelow(j)) = m - 1
                         /\ InOrder[m] = ParseLib(toParse[j])[1]
    BY <2>1, OrderedResults
  <2>3. ASSUME j > i PROVE FALSE
    <3>1. LibsBelow(i) \cup {i} \subseteq LibsBelow(j)
      BY <1>1, <2>3 DEF LibsBelow
    <3>2. k <= m - 1
      BY <1>2, <1>3, <2>2, <3>1
    <3> QED
      BY <1>4, <3>2
  <2> QED
    BY <1>1, <2>1, <2>2, <2>3
<1> QED
  BY <1>4, <1>5, <1>6

(* The sorted results are those of a single thread.                        *)
LEMMA GatherOrdered ==
  ASSUME Finished
  PROVE  /\ DOMAIN Gather = DOMAIN InOrder
         /\ \A k \in DOMAIN InOrder : Gather[k].lib = InOrder[k]
<1> DEFINE Pick(k) == CHOOSE j \in DOMAIN Joined : Cardinality(Earlier(j)) + 1 = k
<1>1. Gather = [k \in DOMAIN Joined |-> Joined[Pick(k)]]
  BY Zenon DEF Gather, Earlier
<1>2. CInv
  BY DEF Finished
<1>3. Cardinality(DOMAIN Joined) = Cardinality(Libs)
  <2>1. IsFiniteSet(Libs)
    BY <1>2, OrderedResults
  <2> QED
    BY <2>1, JoinedResults, JoinedItems, ImageCounts
<1>4. DOMAIN Joined = DOMAIN InOrder
  <2>1. DOMAIN Joined = 1 .. Len(Joined) /\ Len(Joined) \in Nat
    BY JoinedResults
  <2>2. Cardinality(DOMAIN Joined) = Len(Joined)
    <3>1. \A m \in Nat : Cardinality(1 .. m) = m
      BY FS_Interval
    <3> QED
      BY <2>1, <3>1
  <2> QED
    BY <1>2, <1>3, <2>1, <2>2, OrderedResults
<1>5. ASSUME NEW k \in DOMAIN InOrder PROVE Gather[k].lib = InOrder[k]
  <2>1. PICK i \in Libs : /\ Cardinality(LibsBelow(i)) = k - 1
                         /\ InOrder[k] = ParseLib(toParse[i])[1]
    BY <1>2, OrderedResults
  <2>2. k \in Nat
    BY <1>4, JoinedItems
  <2>3. \E j \in DOMAIN Joined : Cardinality(Earlier(j)) + 1 = k
    <3>1. PICK j \in DOMAIN Joined : Joined[j].at = i
      BY JoinedResults
    <3>2. Cardinality(Earlier(j)) = k - 1
      BY <2>1, <3>1, Ranks
    <3> QED
      BY <2>2, <3>2
  <2>4. Pick(k) \in DOMAIN Joined /\ Cardinality(Earlier(Pick(k))) + 1 = k
    BY <2>3
  <2> DEFINE j == Pick(k)
  <2> HIDE DEF Pick
  <2>5. Cardinality(LibsBelow(Joined[j].at)) = k - 1
    <3>1. Cardinality(Earlier(j)) = Cardinality(LibsBelow(Joined[j].at))
      BY <2>4, Ranks
    <3>2. Cardinality(LibsBelow(Joined[j].at)) \in Nat
      BY <1>2, <2>4, JoinedItems, BelowFinite
    <3> QED
      BY <2>2, <2>4, <3>1, <3>2
  <2>6. Joined[j].at = i
    BY <1>2, <2>1, <2>4, <2>5, JoinedItems, BelowCounts
  <2>7. Joined[j].lib = InOrder[k]
    BY <2>1, <2>4, <2>6, JoinedItems
  <2> QED
    BY <1>1, <1>4, <2>7
<1> QED
  BY <1>1, <1>4, <1>5

(* "Results keep input order": whatever the number of threads, the tree    *)
(* and the interleaving, a level adds to the index and to the next level   *)
(* what a single thread would have (par_map, populate).                    *)
THEOREM ParMapKeepsOrder == Spec => MergedInOrder
<1>1. CInv /\ [Next]_vars =>
        (stage = "parse" /\ stage' # "parse" =>
           /\ index' = index \o [i \in DOMAIN InOrder |-> Entry(InOrder[i])]
           /\ frontier' = next \o FlattenSeq([i \in DOMAIN InOrder |-> InOrder[i].follow]))
  <2> SUFFICES ASSUME CInv, [Next]_vars, stage = "parse", stage' # "parse"
               PROVE  /\ index' = index \o [i \in DOMAIN InOrder |-> Entry(InOrder[i])]
                      /\ frontier' =
                           next \o FlattenSeq([i \in DOMAIN InOrder |-> InOrder[i].follow])
    OBVIOUS
  <2>1. Merge
    BY DEF Next, Start, Quit, Populate, Visit, Spawn, Grab, Parse, CollectPaths, CollectDir,
           Collected, PatchOne, Report, vars, cacheVars
  <2>2. Finished
    BY <2>1 DEF Finished, Merge
  <2>3. /\ [i \in DOMAIN Gather |-> Entry(Gather[i].lib)]
             = [i \in DOMAIN InOrder |-> Entry(InOrder[i])]
        /\ [i \in DOMAIN Gather |-> Gather[i].lib.follow]
             = [i \in DOMAIN InOrder |-> InOrder[i].follow]
    BY <2>2, GatherOrdered
  <2> QED
    BY <2>1, <2>3 DEF Merge
<1> QED
  BY <1>1, InductiveCache, PTL DEF Spec, MergedInOrder

(* What has been visited, or will be.                                      *)
Ahead(r) ==
  r[1] \in visited \/ Item(r[1], r[2]) \in ToSet(frontier) \cup ToSet(next)

(* A place that has been visited: what it leads to lies ahead, and what it *)
(* offers is indexed or about to be parsed.                                *)
Explored(r) ==
  /\ r[2] => \A d \in Subdirs(world, r[1]) : Ahead(<<d, r[2]>>)
  /\ \A p \in Objects(world, r[1]) :
       \/ Item(p, r[2]) \in ToSet(toParse)
       \/ /\ Described(world, p) \in ToSet(index)
          /\ \A d \in RunPathDirs(world, p) : Ahead(<<d, r[2]>>)

(* An item of the walk is a place that is reachable.                       *)
IsPlace(x) ==
  x = Item(x.path, x.rec) /\ x.path \in Seq(STRING) /\ <<x.path, x.rec>> \in Reachable(world)

(* An item to parse is offered by such a place, with its flag.             *)
IsOffered(x) ==
  /\ x = Item(x.path, x.rec) /\ x.path \in Seq(STRING)
  /\ Usable(world, x.path) =>
       \E r \in Reachable(world) : r[2] = x.rec /\ x.path \in Objects(world, r[1])

(* What is there at each stage.                                            *)
Phases ==
  /\ stage \notin {"patch", "done"} => fs = world.fs
  /\ stage = "start" => toParse = <<>> /\ next = <<>> /\ visited = {}
  /\ stage \in {"parse", "collect", "walk", "patch"} => frontier = <<>>
  /\ stage \in {"collect", "walk", "patch"} => toParse = <<>> /\ next = <<>>

(* Nothing is walked, parsed or indexed that is not reachable.             *)
Sound ==
  /\ \A x \in ToSet(frontier) \cup ToSet(next) : IsPlace(x)
  /\ \A x \in ToSet(toParse) : IsOffered(x)
  /\ ToSet(index) \subseteq Libraries(world)

(* Nothing is forgotten: the roots lie ahead, and every path visited has   *)
(* been explored with one of the flags it is reached with.                 *)
Thorough ==
  /\ stage \notin {"start", "done"} => \A r \in GivenRoots(world) : Ahead(r)
  /\ \A p \in visited : \E r \in Reachable(world) : r[1] = p /\ Explored(r)

(* The inductive invariant of the search.                                  *)
SInv ==
  /\ world \in Worlds
  /\ IsSeq(frontier) /\ IsSeq(next) /\ IsSeq(index)
  /\ Phases /\ Sound /\ Thorough

-----------------------------------------------------------------------------
(* The parts of an item.                                                   *)
LEMMA ItemParts == \A path, rec : Item(path, rec).path = path /\ Item(path, rec).rec = rec
BY DEF Item

(* The items of some paths.                                                *)
LEMMA ItemsSet ==
  ASSUME NEW S, NEW paths \in Seq(S), NEW rec
  PROVE  IsSeq(Items(paths, rec)) /\ ToSet(Items(paths, rec)) = {Item(p, rec) : p \in ToSet(paths)}
<1> DEFINE n == Len(paths)
           t == Items(paths, rec)
<1>1. DOMAIN paths = 1 .. n /\ n \in Nat
  OBVIOUS
<1>2. DOMAIN t = 1 .. n /\ t = [i \in 1 .. n |-> t[i]] /\ \A i \in 1 .. n : t[i] = Item(paths[i], rec)
  BY <1>1 DEF Items
<1> HIDE DEF t, n
<1>3. IsList(t)
  BY <1>1, <1>2, FunctionList
<1>4. IsSeq(t)
  <2>1. t \in Seq({t[i] : i \in 1 .. Len(t)})
    BY <1>3, ListSeq
  <2> QED
    BY <2>1, SeqIsSeq
<1>5. ToSet(t) = {Item(p, rec) : p \in ToSet(paths)}
  BY <1>1, <1>2 DEF ToSet
<1> QED
  BY <1>4, <1>5 DEF t

(* The roots as populate is given them are the roots of the search.        *)
LEMMA RootItems ==
  ASSUME NEW w \in Worlds
  PROVE  /\ IsSeq(Roots(w))
         /\ \A x \in ToSet(Roots(w)) : /\ x = Item(x.path, x.rec) /\ x.path \in Seq(STRING)
                                       /\ <<x.path, x.rec>> \in GivenRoots(w)
         /\ \A r \in GivenRoots(w) : Item(r[1], r[2]) \in ToSet(Roots(w))
<1>1. w.paths \in Seq(Seq(STRING)) /\ w.libs \in Seq(Seq(STRING))
  BY LibCacheAssumption
<1> DEFINE V == Seq(STRING)
           given == IF w.existing THEN Items(w.paths, w.recursive) ELSE <<>>
           libs == Items(w.libs, FALSE)
<1>2. IsSeq(libs) /\ ToSet(libs) = {Item(p, FALSE) : p \in ToSet(w.libs)}
  BY <1>1, ItemsSet
<1>3. IsSeq(given)
      /\ ToSet(given) = IF w.existing THEN {Item(p, w.recursive) : p \in ToSet(w.paths)} ELSE {}
  <2>1. CASE w.existing
    BY <1>1, <2>1, ItemsSet
  <2>2. CASE ~w.existing
    <3>1. \A s : s = <<>> => IsSeq(s) /\ ToSet(s) = {}
      BY DEF IsSeq, ToSet
    <3> QED
      BY <2>2, <3>1
  <2> QED
    BY <2>1, <2>2
<1>4. Roots(w) = given \o libs
  BY DEF Roots
<1> HIDE DEF given, libs
<1>5. IsSeq(Roots(w)) /\ ToSet(Roots(w)) = ToSet(given) \cup ToSet(libs)
  <2>1. IsSeq(given \o libs)
    BY <1>2, <1>3, SeqJoin
  <2>2. ToSet(given \o libs) = ToSet(given) \cup ToSet(libs)
    BY <1>2, <1>3, JoinSet
  <2> QED
    BY <1>4, <2>1, <2>2
<1>6. \A p \in ToSet(w.paths) \cup ToSet(w.libs) : p \in Seq(STRING)
  <2> HIDE DEF V
  <2>1. w.paths \in Seq(V) /\ w.libs \in Seq(V)
    BY <1>1 DEF V
  <2>2. \A p \in ToSet(w.paths) \cup ToSet(w.libs) : p \in V
    BY <2>1 DEF ToSet
  <2> QED
    BY <2>2 DEF V
<1>7. ASSUME NEW x \in ToSet(Roots(w))
      PROVE  x = Item(x.path, x.rec) /\ x.path \in Seq(STRING) /\ <<x.path, x.rec>> \in GivenRoots(w)
  <2>1. CASE x \in ToSet(libs)
    <3>1. PICK p \in ToSet(w.libs) : x = Item(p, FALSE)
      BY <1>2, <2>1
    <3>2. x.path = p /\ x.rec = FALSE
      BY <3>1, ItemParts
    <3>3. <<p, FALSE>> \in GivenRoots(w)
      BY DEF GivenRoots
    <3> QED
      BY <1>6, <3>1, <3>2, <3>3
  <2>2. CASE x \in ToSet(given)
    <3>1. w.existing /\ \E p \in ToSet(w.paths) : x = Item(p, w.recursive)
      BY <1>3, <2>2
    <3>2. PICK p \in ToSet(w.paths) : x = Item(p, w.recursive)
      BY <3>1
    <3>3. x.path = p /\ x.rec = w.recursive
      BY <3>2, ItemParts
    <3>4. <<p, w.recursive>> \in GivenRoots(w)
      BY <3>1 DEF GivenRoots
    <3> QED
      BY <1>6, <3>2, <3>3, <3>4
  <2> QED
    BY <1>5, <2>1, <2>2
<1>8. ASSUME NEW r \in GivenRoots(w) PROVE Item(r[1], r[2]) \in ToSet(Roots(w))
  <2>1. CASE \E p \in ToSet(w.libs) : r = <<p, FALSE>>
    <3>1. PICK p \in ToSet(w.libs) : r = <<p, FALSE>>
      BY <2>1
    <3>2. Item(r[1], r[2]) = Item(p, FALSE)
      BY <3>1
    <3> QED
      BY <1>2, <1>5, <3>2
  <2>2. CASE w.existing /\ \E p \in ToSet(w.paths) : r = <<p, w.recursive>>
    BY <1>3, <1>5, <2>2
  <2> QED
    BY <2>1, <2>2 DEF GivenRoots
<1> QED
  BY <1>5, <1>7, <1>8

(* Nothing is found at the start.                                          *)
LEMMA InitSearch == Init => SInv
<1> SUFFICES ASSUME Init PROVE SInv
  OBVIOUS
<1> USE DEF Init, CacheInit
<1>1. \A s : s = <<>> => IsSeq(s) /\ ToSet(s) = {}
  BY DEF IsSeq, ToSet
<1>2. IsSeq(frontier) /\ IsSeq(next) /\ IsSeq(index) /\ ToSet(frontier) = {} /\ ToSet(next) = {}
      /\ ToSet(toParse) = {} /\ ToSet(index) = {}
  BY <1>1
<1> QED
  BY <1>2 DEF SInv, Phases, Sound, Thorough

(* The walk starts at the roots.                                           *)
LEMMA StartSearch == ASSUME SInv, Start, stage' # "done" PROVE SInv'
<1>1. /\ stage = "start" /\ stage' = "scan" /\ frontier' = Roots(world)
      /\ UNCHANGED <<world, fs, visited, toParse, next, index>>
  BY DEF Start, Quit
<1>2. world \in Worlds /\ toParse = <<>> /\ next = <<>> /\ visited = {} /\ fs = world.fs
  BY <1>1 DEF SInv, Phases
<1>3. Phases'
  BY <1>1, <1>2 DEF Phases
<1>4. \A x \in ToSet(Roots(world)) : IsPlace(x)
  BY <1>2, RootItems, RootsReachable DEF IsPlace
<1>5. ToSet(next) = {} /\ ToSet(toParse) = {}
  <2>1. \A s : s = <<>> => ToSet(s) = {}
    BY DEF ToSet
  <2> QED
    BY <1>2, <2>1
<1>6. Sound'
  BY <1>1, <1>4, <1>5 DEF Sound, SInv, IsPlace
<1>7. Thorough'
  BY <1>1, <1>2, RootItems DEF Thorough, Ahead
<1> QED
  BY <1>1, <1>2, <1>3, <1>6, <1>7, RootItems DEF SInv, IsSeq

(* A root's flag is the call's, or none.                                   *)
LEMMA RootFlags ==
  ASSUME NEW w, NEW r \in GivenRoots(w)
  PROVE  r[2] = FALSE \/ r[2] = w.recursive
<1>1. CASE \E p \in ToSet(w.libs) : r = <<p, FALSE>>
  BY <1>1
<1>2. CASE \E p \in ToSet(w.paths) : r = <<p, w.recursive>>
  BY <1>2
<1> QED
  BY <1>1, <1>2 DEF GivenRoots

(* The recursion flags are truth values.                                   *)
LEMMA FlagsBoolean ==
  ASSUME NEW w \in Worlds
  PROVE  \A r \in Reachable(w) : r[2] \in BOOLEAN /\ Onward(w, r) \subseteq Reachable(w)
<1> DEFINE S == {r \in Reachable(w) : r[2] \in BOOLEAN}
<1>1. \A r \in Reachable(w) : Onward(w, r) \subseteq Reachable(w)
  BY FathomedAssumption DEF Fathomed
<1>2. GivenRoots(w) \subseteq S
  <2>1. w.recursive \in BOOLEAN
    BY LibCacheAssumption
  <2>2. \A r \in GivenRoots(w) : r[2] = FALSE \/ r[2] = w.recursive
    BY RootFlags
  <2> QED
    BY <2>1, <2>2, RootsReachable
<1>3. \A r \in S : Onward(w, r) \subseteq S
  <2>1. \A r : \A s \in Onward(w, r) : s[2] = r[2]
    BY DEF Onward
  <2> QED
    BY <1>1, <2>1
<1>4. Reachable(w) \subseteq S
  <2> HIDE DEF S
  <2> QED
    BY <1>2, <1>3, ReachableLeast
<1> QED
  BY <1>1, <1>4

(* What is explored stays so when nothing that lies ahead is lost.         *)
LEMMA StaysExplored ==
  ASSUME world' = world, \A s : Ahead(s) => Ahead(s)', ToSet(index) \subseteq ToSet(index'),
         NEW r, Explored(r),
         \A p \in Objects(world, r[1]) : Item(p, r[2]) \in ToSet(toParse) =>
           \/ Item(p, r[2]) \in ToSet(toParse')
           \/ /\ Described(world, p) \in ToSet(index')
              /\ \A d \in RunPathDirs(world, p) : Ahead(<<d, r[2]>>)'
  PROVE  Explored(r)'
<1>1. ASSUME r[2], NEW d \in Subdirs(world, r[1]) PROVE Ahead(<<d, r[2]>>)'
  BY <1>1 DEF Explored
<1>2. ASSUME NEW p \in Objects(world, r[1])
      PROVE  \/ Item(p, r[2]) \in ToSet(toParse')
             \/ /\ Described(world, p) \in ToSet(index')
                /\ \A d \in RunPathDirs(world, p) : Ahead(<<d, r[2]>>)'
  BY DEF Explored
<1> QED
  BY <1>1, <1>2 DEF Explored

(* A path is visited: what it offers is to be parsed, and what lies below  *)
(* it is ahead.                                                            *)
LEMMA VisitSearch == ASSUME CInv, SInv, Visit PROVE SInv'
<1> DEFINE h == Head(frontier)
           here == <<h.path, h.rec>>
<1>1. /\ stage = "scan" /\ frontier # <<>> /\ frontier' = Tail(frontier)
      /\ visited' = visited \cup {h.path}
      /\ UNCHANGED <<world, fs, stage, index>>
  BY DEF Visit
<1>2. /\ world \in Worlds /\ IsSeq(frontier) /\ IsSeq(next) /\ IsSeq(index) /\ fs = world.fs
      /\ Sound /\ Thorough
  BY <1>1 DEF SInv, Phases
<1>3. IsSeq(frontier') /\ ToSet(frontier) = {h} \cup ToSet(frontier')
  BY <1>1, <1>2, TailSet
<1>4. IsPlace(h) /\ here \in Reachable(world) /\ IsTree(fs)
  BY <1>2, <1>3, LibCacheAssumption DEF Sound, IsPlace
<1>5. h.rec \in BOOLEAN /\ Onward(world, here) \subseteq Reachable(world)
  BY <1>2, <1>4, FlagsBoolean
<1>6. /\ h = Item(h.path, h.rec) /\ h.path \in Seq(STRING)
  BY <1>4 DEF IsPlace
<1>7. ASSUME IsSeq(next'), ToSet(next) \subseteq ToSet(next'), ToSet(toParse) \subseteq ToSet(toParse'),
             \A x \in ToSet(next') : x \in ToSet(next) \/ IsPlace(x),
             \A x \in ToSet(toParse') : x \in ToSet(toParse) \/ IsOffered(x),
             \A r : r = here => h.path \in visited \/ Explored(r)'
      PROVE  SInv'
  <2>1. \A r : Ahead(r) => Ahead(r)'
    <3> SUFFICES ASSUME NEW r, Ahead(r) PROVE Ahead(r)'
      OBVIOUS
    <3>1. CASE r[1] \in visited
      BY <1>1, <3>1 DEF Ahead
    <3>2. CASE Item(r[1], r[2]) = h
      <4>1. r[1] = h.path
        BY <3>2, ItemParts
      <4> QED
        BY <1>1, <4>1 DEF Ahead
    <3>3. CASE Item(r[1], r[2]) \in ToSet(frontier') \cup ToSet(next')
      BY <3>3 DEF Ahead
    <3> QED
      BY <1>3, <1>7, <3>1, <3>2, <3>3 DEF Ahead
  <2>2. \A r : Explored(r) => Explored(r)'
    BY <1>1, <1>7, <2>1, StaysExplored
  <2>3. Phases'
    BY <1>1, <1>2 DEF Phases
  <2>4. Sound'
    <3>1. \A x \in ToSet(frontier') \cup ToSet(next') : IsPlace(x)
      BY <1>2, <1>3, <1>7 DEF Sound
    <3>2. \A x \in ToSet(toParse') : IsOffered(x)
      BY <1>2, <1>7 DEF Sound
    <3> QED
      BY <1>1, <1>2, <3>1, <3>2 DEF Sound, IsPlace, IsOffered
  <2>5. Thorough'
    <3>1. \A p \in visited' : \E r \in Reachable(world) : r[1] = p /\ Explored(r)'
      <4> SUFFICES ASSUME NEW p \in visited'
                   PROVE  \E r \in Reachable(world) : r[1] = p /\ Explored(r)'
        OBVIOUS
      <4>1. CASE p \in visited
        <5>1. PICK r \in Reachable(world) : r[1] = p /\ Explored(r)
          BY <1>2, <4>1 DEF Thorough
        <5> QED
          BY <2>2, <5>1
      <4>2. CASE p = h.path /\ h.path \notin visited
        <5>1. PICK r : r = here
          OBVIOUS
        <5>2. r[1] = p /\ r \in Reachable(world) /\ Explored(r)'
          BY <1>4, <1>7, <4>2, <5>1
        <5> QED
          BY <5>2
      <4> QED
        BY <1>1, <4>1, <4>2
    <3> QED
      BY <1>1, <1>2, <2>1, <3>1 DEF Thorough
  <2> QED
    BY <1>1, <1>2, <1>3, <1>7, <2>3, <2>4, <2>5 DEF SInv, IsSeq
<1>8. CASE Seen(h.path) /\ UNCHANGED <<toParse, next>>
  BY <1>2, <1>7, <1>8 DEF Seen, IsSeq
<1>9. CASE ~Seen(h.path) /\ IsFile(fs, h.path) /\ VisitFile(h)
  <2>1. toParse' = Append(toParse, h) /\ next' = next
    BY <1>9 DEF VisitFile
  <2>2. ToSet(toParse') = ToSet(toParse) \cup {h}
    <3>1. IsSeq(toParse)
      BY DEF CInv, Kinds
    <3> QED
      BY <2>1, <3>1, AppendSet
  <2>3. IsOffered(h)
    <3>1. Usable(world, h.path) => h.path \in Objects(world, h.path)
      BY <1>2, <1>9 DEF Objects
    <3>2. here[1] = h.path /\ here[2] = h.rec
      OBVIOUS
    <3> QED
      BY <1>4, <1>6, <3>1, <3>2 DEF IsOffered
  <2>4. ASSUME NEW r, r = here PROVE Explored(r)'
    <3>1. r[1] = h.path /\ r[2] = h.rec
      BY <2>4
    <3>2. Names(world.fs, h.path) = {}
      BY <1>2, <1>4, <1>9, FileEntries
    <3>3. Subdirs(world, h.path) = {}
      BY <3>2 DEF Subdirs
    <3>4. \A p \in Objects(world, h.path) : p = h.path
      BY <1>2, <1>9 DEF Objects
    <3>5. \A p \in Objects(world, r[1]) : Item(p, r[2]) \in ToSet(toParse')
      BY <1>6, <2>2, <3>1, <3>4
    <3> QED
      BY <1>1, <3>1, <3>3, <3>5 DEF Explored
  <2>5. IsSeq(next') /\ ToSet(next) \subseteq ToSet(next')
    BY <1>2, <2>1
  <2> QED
    BY <1>7, <2>1, <2>2, <2>3, <2>4, <2>5
<1>10. CASE ~Seen(h.path) /\ ~IsFile(fs, h.path) /\ VisitDir(h)
  <2>0. PICK yes : yes = TRUE
    OBVIOUS
  <2> DEFINE subdirs == {n \in Names(fs, h.path) : IsSubdir(Append(h.path, n))}
             objects == (Names(fs, h.path) \ subdirs) \cap Shared
             offered == Items(SortedEntries(h.path, objects), h.rec)
             below == Items(SortedEntries(h.path, subdirs), yes)
  <2>1. /\ toParse' = toParse \o offered
        /\ next' = IF h.rec THEN next \o below ELSE next
    BY <1>10, <2>0 DEF VisitDir
  <2>2. \A n \in Names(fs, h.path) :
          /\ \E k \in DOMAIN NameOrder : NameOrder[k] = n
          /\ Append(h.path, n) \in Seq(STRING)
    BY <1>4, <1>6, NamesOrdered, NamePath
  <2>3. /\ IsSeq(offered)
        /\ \A x \in ToSet(offered) : \E n \in objects : x = Item(Append(h.path, n), h.rec)
        /\ \A n \in objects : Item(Append(h.path, n), h.rec) \in ToSet(offered)
    <3> HIDE DEF subdirs
    <3> QED
      BY <2>2, EntriesItems
  <2>4. /\ IsSeq(below)
        /\ \A x \in ToSet(below) : \E n \in subdirs : x = Item(Append(h.path, n), yes)
        /\ \A n \in subdirs : Item(Append(h.path, n), yes) \in ToSet(below)
    <3>1. \A n \in subdirs : \E k \in DOMAIN NameOrder : NameOrder[k] = n
      BY <2>2
    <3> HIDE DEF subdirs
    <3>2. IsSeq(below)
      BY EntriesItems
    <3>4. \A x \in ToSet(below) : \E n \in subdirs : x = Item(Append(h.path, n), yes)
      BY EntriesItems
    <3>3. \A n \in subdirs : Item(Append(h.path, n), yes) \in ToSet(below)
      BY <3>1, EntriesItems
    <3> QED
      BY <3>2, <3>3, <3>4
  <2> HIDE DEF offered, below
  <2>5. IsSeq(toParse') /\ ToSet(toParse') = ToSet(toParse) \cup ToSet(offered)
    <3>1. IsSeq(toParse)
      BY DEF CInv, Kinds
    <3> QED
      BY <2>1, <2>3, <3>1, SeqJoin, JoinSet
  <2>6. /\ IsSeq(next') /\ ToSet(next) \subseteq ToSet(next')
        /\ ToSet(next') \subseteq ToSet(next) \cup ToSet(below)
        /\ h.rec => ToSet(below) \subseteq ToSet(next')
        /\ ~h.rec => ToSet(next') = ToSet(next)
    <3>1. CASE h.rec
      <4>1. IsSeq(next \o below) /\ ToSet(next \o below) = ToSet(next) \cup ToSet(below)
        BY <1>2, <2>4, SeqJoin, JoinSet
      <4>2. next' = next \o below
        BY <2>1, <3>1
      <4> HIDE DEF h
      <4> QED
        BY <3>1, <4>1, <4>2
    <3>2. CASE ~h.rec
      <4>1. next' = next
        BY <2>1, <3>2
      <4> HIDE DEF h
      <4> QED
        BY <1>2, <3>2, <4>1
    <3> QED
      BY <3>1, <3>2
  <2>7. here[1] = h.path /\ here[2] = h.rec
    OBVIOUS
  <2>8. ASSUME NEW x \in ToSet(offered) PROVE IsOffered(x)
    <3>1. PICK n \in objects : x = Item(Append(h.path, n), h.rec)
      BY <2>3
    <3>2. x.path = Append(h.path, n) /\ x.rec = h.rec
      BY <3>1, ItemParts
    <3>3. Usable(world, x.path) => x.path \in Objects(world, h.path)
      BY <1>2, <1>10, <3>2 DEF Objects
    <3> QED
      BY <1>4, <2>2, <2>7, <3>1, <3>2, <3>3 DEF IsOffered
  <2>9. ASSUME h.rec, NEW x \in ToSet(below) PROVE IsPlace(x)
    <3>1. PICK n \in subdirs : x = Item(Append(h.path, n), yes)
      BY <2>4
    <3>2. x.path = Append(h.path, n) /\ x.rec = yes /\ h.rec = yes
      BY <1>5, <2>0, <2>9, <3>1, ItemParts
    <3>3. Append(h.path, n) \in Subdirs(world, h.path)
      BY <1>2 DEF Subdirs, IsSubdir
    <3>4. <<Append(h.path, n), here[2]>> \in Onward(world, here)
      BY <2>7, <2>9, <3>3 DEF Onward
    <3>5. <<x.path, x.rec>> \in Reachable(world)
      BY <1>5, <2>7, <3>2, <3>4
    <3> QED
      BY <2>2, <3>1, <3>2, <3>5 DEF IsPlace
  <2>10. ASSUME NEW r, r = here PROVE Explored(r)'
    <3>1. r[1] = h.path /\ r[2] = h.rec
      BY <2>10
    <3>2. ASSUME r[2], NEW d \in Subdirs(world, r[1]) PROVE Ahead(<<d, r[2]>>)'
      <4>1. PICK n \in Names(fs, h.path) : d = Append(h.path, n) /\ IsDir(fs, d)
        BY <1>2, <3>1 DEF Subdirs
      <4>2. n \in subdirs /\ h.rec = TRUE
        BY <1>5, <3>1, <3>2, <4>1 DEF IsSubdir
      <4>3. Item(d, yes) \in ToSet(next')
        BY <2>4, <2>6, <4>1, <4>2
      <4>4. <<d, r[2]>>[1] = d /\ <<d, r[2]>>[2] = yes
        BY <2>0, <3>1, <4>2
      <4> QED
        BY <4>3, <4>4 DEF Ahead
    <3>3. ASSUME NEW p \in Objects(world, r[1]) PROVE Item(p, r[2]) \in ToSet(toParse')
      <4>1. PICK n \in Names(fs, h.path) \cap Shared : p = Append(h.path, n) /\ Usable(world, p)
        BY <1>2, <1>10, <3>1 DEF Objects
      <4>2. ~IsDir(fs, p)
        BY <1>2, <4>1 DEF Usable, IsDir
      <4>3. n \in objects
        BY <4>1, <4>2 DEF IsSubdir
      <4> QED
        BY <2>3, <2>5, <3>1, <4>1, <4>3
    <3> QED
      BY <1>1, <3>2, <3>3 DEF Explored
  <2>11. \A x \in ToSet(next') : x \in ToSet(next) \/ IsPlace(x)
    BY <1>5, <2>6, <2>9
  <2>12. \A x \in ToSet(toParse') : x \in ToSet(toParse) \/ IsOffered(x)
    BY <2>5, <2>8
  <2> QED
    BY <1>7, <2>5, <2>6, <2>10, <2>11, <2>12
<1> QED
  BY <1>8, <1>9, <1>10 DEF Visit

(* The entries a level adds to the index, and the places it leads to.      *)
Added == [i \in DOMAIN InOrder |-> Entry(InOrder[i])]
Led == FlattenSeq([i \in DOMAIN InOrder |-> InOrder[i].follow])

(* The result of an item of the level that is a library.                   *)
LEMMA LevelResults ==
  ASSUME CInv, SInv, stage = "parse"
  PROVE  /\ \A k \in DOMAIN InOrder :
              \E x \in ToSet(toParse) : ParseLib(x) # <<>> /\ InOrder[k] = ParseLib(x)[1]
         /\ \A x \in ToSet(toParse) : Usable(world, x.path) =>
              \E k \in DOMAIN InOrder : InOrder[k] = ParseLib(x)[1]
         /\ \A x \in ToSet(toParse) : ParseLib(x) # <<>> =>
              /\ Usable(world, x.path)
              /\ Entry(ParseLib(x)[1]) = Described(world, x.path)
              /\ IsSeq(ParseLib(x)[1].follow)
              /\ ToSet(ParseLib(x)[1].follow) = {Item(d, x.rec) : d \in RunPathDirs(world, x.path)}
              /\ \A d \in RunPathDirs(world, x.path) : d \in Seq(STRING)
<1>1. world \in Worlds /\ fs = world.fs /\ \A x \in ToSet(toParse) : x.path \in Seq(STRING)
  BY DEF SInv, Phases, Sound, IsOffered
<1>2. \A k \in DOMAIN InOrder : \E i \in Libs : InOrder[k] = ParseLib(toParse[i])[1]
  BY OrderedResults
<1>3. \A i \in Libs : toParse[i] \in ToSet(toParse) /\ ParseLib(toParse[i]) # <<>>
  BY DEF Libs, ToSet
<1>4. ASSUME NEW x \in ToSet(toParse), Usable(world, x.path)
      PROVE  \E k \in DOMAIN InOrder : InOrder[k] = ParseLib(x)[1]
  <2>1. ParseLib(x) # <<>>
    BY <1>1, <1>4, ParsedLibrary
  <2>2. PICK i \in DOMAIN toParse : toParse[i] = x
    BY DEF ToSet
  <2>3. i \in Libs
    BY <2>1, <2>2 DEF Libs
  <2> QED
    BY <2>2, <2>3, LibPlace
<1>5. ASSUME NEW x \in ToSet(toParse), ParseLib(x) # <<>>
      PROVE  /\ Usable(world, x.path)
             /\ Entry(ParseLib(x)[1]) = Described(world, x.path)
             /\ IsSeq(ParseLib(x)[1].follow)
             /\ ToSet(ParseLib(x)[1].follow) = {Item(d, x.rec) : d \in RunPathDirs(world, x.path)}
             /\ \A d \in RunPathDirs(world, x.path) : d \in Seq(STRING)
  BY <1>1, <1>5, ParsedLibrary
<1> QED
  BY <1>2, <1>3, <1>4, <1>5

(* A level adds the libraries it parsed, and no others.                    *)
LEMMA LevelAdded ==
  ASSUME CInv, SInv, stage = "parse"
  PROVE  /\ IsSeq(Added)
         /\ \A e \in ToSet(Added) :
              \E x \in ToSet(toParse) : Usable(world, x.path) /\ e = Described(world, x.path)
         /\ \A x \in ToSet(toParse) : Usable(world, x.path) => Described(world, x.path) \in ToSet(Added)
<1> DEFINE n == Cardinality(Libs)
<1>1. DOMAIN InOrder = 1 .. n /\ n \in Nat
  BY OrderedResults, FS_CardinalityType
<1>2. DOMAIN Added = 1 .. n /\ Added = [i \in 1 .. n |-> Added[i]]
      /\ \A i \in DOMAIN InOrder : Added[i] = Entry(InOrder[i]) /\ i \in DOMAIN Added
  BY <1>1 DEF Added
<1> HIDE DEF n
<1>3. IsSeq(Added)
  <2>1. IsList(Added)
    BY <1>1, <1>2, FunctionList
  <2> QED
    BY <2>1, ListSeq, SeqIsSeq
<1>4. ASSUME NEW e \in ToSet(Added)
      PROVE  \E x \in ToSet(toParse) : Usable(world, x.path) /\ e = Described(world, x.path)
  <2>1. PICK k \in DOMAIN InOrder : e = Entry(InOrder[k])
    BY <1>1, <1>2 DEF ToSet
  <2>2. PICK x \in ToSet(toParse) : ParseLib(x) # <<>> /\ InOrder[k] = ParseLib(x)[1]
    BY LevelResults
  <2> QED
    BY <2>1, <2>2, LevelResults
<1>5. ASSUME NEW x \in ToSet(toParse), Usable(world, x.path)
      PROVE  Described(world, x.path) \in ToSet(Added)
  <2>1. PICK k \in DOMAIN InOrder : InOrder[k] = ParseLib(x)[1]
    BY <1>5, LevelResults
  <2>2. ParseLib(x) # <<>>
    BY <1>5, ParsedLibrary DEF SInv, Phases, Sound, IsOffered
  <2>3. Entry(InOrder[k]) = Described(world, x.path)
    BY <2>1, <2>2, LevelResults
  <2>4. k \in DOMAIN Added /\ Added[k] = Described(world, x.path)
    BY <1>2, <2>3
  <2> QED
    BY <2>4 DEF ToSet
<1> QED
  BY <1>3, <1>4, <1>5

(* It leads to the RUNPATH directories of these, with their flags.         *)
LEMMA LevelLed ==
  ASSUME CInv, SInv, stage = "parse"
  PROVE  /\ IsSeq(Led)
         /\ \A y \in ToSet(Led) :
              \E x \in ToSet(toParse) : \E d \in RunPathDirs(world, x.path) :
                Usable(world, x.path) /\ y = Item(d, x.rec) /\ d \in Seq(STRING)
         /\ \A x \in ToSet(toParse) : Usable(world, x.path) =>
              \A d \in RunPathDirs(world, x.path) : Item(d, x.rec) \in ToSet(Led)
<1> DEFINE n == Cardinality(Libs)
           seqs == [i \in DOMAIN InOrder |-> InOrder[i].follow]
           S == UNION {ToSet(InOrder[i].follow) : i \in DOMAIN InOrder}
<1>1. DOMAIN InOrder = 1 .. n /\ n \in Nat
  BY OrderedResults, FS_CardinalityType
<1>2. ASSUME NEW i \in 1 .. n PROVE InOrder[i].follow \in Seq(S)
  <2>1. PICK x \in ToSet(toParse) : ParseLib(x) # <<>> /\ InOrder[i] = ParseLib(x)[1]
    BY <1>1, LevelResults
  <2>2. IsSeq(InOrder[i].follow)
    BY <2>1, LevelResults
  <2> DEFINE f == InOrder[i].follow
  <2>3. ToSet(f) \subseteq S
    BY <1>1
  <2> HIDE DEF S, f
  <2>4. f \in Seq(ToSet(f))
    BY <2>2 DEF IsSeq, ToSet, f
  <2>5. f \in Seq(S)
    BY <2>3, <2>4
  <2> QED
    BY <2>5 DEF f
<1>3. seqs \in Seq(Seq(S)) /\ DOMAIN seqs = 1 .. n /\ \A i \in 1 .. n : seqs[i] = InOrder[i].follow
  <2>1. \A i \in 1 .. n : seqs[i] \in Seq(S) /\ seqs[i] = InOrder[i].follow
    BY <1>1, <1>2
  <2>2. seqs = [i \in 1 .. n |-> seqs[i]]
    BY <1>1
  <2> DEFINE V == Seq(S)
  <2> HIDE DEF S, seqs, n
  <2>3. \A i \in 1 .. n : seqs[i] \in V
    BY <2>1
  <2> HIDE DEF V
  <2>4. seqs \in [1 .. n -> V]
    BY <2>2, <2>3
  <2>5. seqs \in Seq(V) /\ DOMAIN seqs = 1 .. n
    BY <1>1, <2>4
  <2> QED
    BY <2>1, <2>5 DEF V
<1>4. Led = FlattenSeq(seqs)
  BY DEF Led
<1> HIDE DEF S, seqs, n
<1>5. /\ Led \in Seq(S)
      /\ \A k \in DOMAIN Led : \E i \in DOMAIN seqs : \E j \in DOMAIN seqs[i] : Led[k] = seqs[i][j]
      /\ \A i \in DOMAIN seqs : \A j \in DOMAIN seqs[i] : \E k \in DOMAIN Led : Led[k] = seqs[i][j]
  <2>1. /\ FlattenSeq(seqs) \in Seq(S)
        /\ \A k \in DOMAIN FlattenSeq(seqs) :
             \E i \in DOMAIN seqs : \E j \in DOMAIN seqs[i] : FlattenSeq(seqs)[k] = seqs[i][j]
        /\ \A i \in DOMAIN seqs : \A j \in DOMAIN seqs[i] :
             \E k \in DOMAIN FlattenSeq(seqs) : FlattenSeq(seqs)[k] = seqs[i][j]
    BY <1>3, FlattenElements
  <2> QED
    BY <1>4, <2>1
<1>6. IsSeq(Led)
  BY <1>5, SeqIsSeq
<1>7. ASSUME NEW y \in ToSet(Led)
      PROVE  \E x \in ToSet(toParse) : \E d \in RunPathDirs(world, x.path) :
               Usable(world, x.path) /\ y = Item(d, x.rec) /\ d \in Seq(STRING)
  <2>1. PICK k \in DOMAIN Led : Led[k] = y
    BY DEF ToSet
  <2>2. PICK i \in 1 .. n : y \in ToSet(InOrder[i].follow)
    <3>1. PICK i \in DOMAIN seqs : \E j \in DOMAIN seqs[i] : Led[k] = seqs[i][j]
      BY <1>5, <2>1
    <3>2. PICK j \in DOMAIN seqs[i] : Led[k] = seqs[i][j]
      BY <3>1
    <3>3. i \in 1 .. n /\ seqs[i] = InOrder[i].follow
      BY <1>3
    <3>4. y \in ToSet(seqs[i])
      BY <2>1, <3>2 DEF ToSet
    <3> QED
      BY <3>3, <3>4
  <2>3. PICK x \in ToSet(toParse) : ParseLib(x) # <<>> /\ InOrder[i] = ParseLib(x)[1]
    BY <1>1, LevelResults
  <2>4. ToSet(InOrder[i].follow) = {Item(d, x.rec) : d \in RunPathDirs(world, x.path)}
    BY <2>3, LevelResults
  <2>5. PICK d \in RunPathDirs(world, x.path) : y = Item(d, x.rec)
    BY <2>2, <2>4
  <2>6. d \in Seq(STRING) /\ Usable(world, x.path)
    BY <2>3, LevelResults
  <2> QED
    BY <2>5, <2>6
<1>8. ASSUME NEW x \in ToSet(toParse), Usable(world, x.path), NEW d \in RunPathDirs(world, x.path)
      PROVE  Item(d, x.rec) \in ToSet(Led)
  <2>1. PICK k \in DOMAIN InOrder : InOrder[k] = ParseLib(x)[1]
    BY <1>8, LevelResults
  <2>2. ParseLib(x) # <<>>
    BY <1>8, ParsedLibrary DEF SInv, Phases, Sound, IsOffered
  <2>3. ToSet(InOrder[k].follow) = {Item(e, x.rec) : e \in RunPathDirs(world, x.path)}
    BY <2>1, <2>2, LevelResults
  <2>4. Item(d, x.rec) \in ToSet(InOrder[k].follow)
    BY <2>3
  <2>5. PICK j \in DOMAIN InOrder[k].follow : InOrder[k].follow[j] = Item(d, x.rec)
    BY <2>4 DEF ToSet
  <2>6. k \in DOMAIN seqs /\ seqs[k] = InOrder[k].follow
    BY <1>1, <1>3
  <2>7. PICK m \in DOMAIN Led : Led[m] = seqs[k][j]
    BY <1>5, <2>5, <2>6
  <2> QED
    BY <2>5, <2>6, <2>7 DEF ToSet
<1> QED
  BY <1>6, <1>7, <1>8

(* The end of a level, in the order of one thread.                         *)
LEMMA MergeStep ==
  ASSUME CInv, SInv, Merge
  PROVE  /\ stage = "parse" /\ frontier = <<>>
         /\ index' = index \o Added /\ frontier' = next \o Led
         /\ toParse' = <<>> /\ next' = <<>>
         /\ stage' = IF frontier' = <<>> THEN "collect" ELSE "scan"
         /\ UNCHANGED <<world, fs, visited>>
<1>1. Finished
  BY DEF Finished, Merge
<1>2. /\ [i \in DOMAIN Gather |-> Entry(Gather[i].lib)] = Added
      /\ [i \in DOMAIN Gather |-> Gather[i].lib.follow]
           = [i \in DOMAIN InOrder |-> InOrder[i].follow]
  BY <1>1, GatherOrdered DEF Added
<1>3. stage = "parse" /\ frontier = <<>>
  BY DEF Merge, SInv, Phases
<1> QED
  BY <1>2, <1>3 DEF Merge, Led

(* A level ends: what its libraries name lies ahead, and they are indexed. *)
LEMMA MergeSearch == ASSUME CInv, SInv, Merge PROVE SInv'
<1>1. /\ stage = "parse" /\ frontier = <<>>
      /\ index' = index \o Added /\ frontier' = next \o Led
      /\ toParse' = <<>> /\ next' = <<>>
      /\ stage' = IF frontier' = <<>> THEN "collect" ELSE "scan"
      /\ UNCHANGED <<world, fs, visited>>
  BY MergeStep
<1>2. /\ world \in Worlds /\ IsSeq(next) /\ IsSeq(index) /\ fs = world.fs /\ Sound /\ Thorough
  BY <1>1 DEF SInv, Phases
<1>3. IsSeq(index') /\ ToSet(index') = ToSet(index) \cup ToSet(Added)
  BY <1>1, <1>2, LevelAdded, SeqJoin, JoinSet
<1>4. IsSeq(frontier') /\ ToSet(frontier') = ToSet(next) \cup ToSet(Led)
  BY <1>1, <1>2, LevelLed, SeqJoin, JoinSet
<1>5. \A s : s = <<>> => IsSeq(s) /\ ToSet(s) = {}
  BY DEF IsSeq, ToSet
<1>6. IsSeq(next') /\ ToSet(next') = {} /\ ToSet(toParse') = {} /\ ToSet(frontier) = {}
  BY <1>1, <1>5
<1>7. ASSUME NEW x \in ToSet(toParse), Usable(world, x.path)
      PROVE  \E r \in Reachable(world) : r[2] = x.rec /\ x.path \in Objects(world, r[1])
  BY <1>2, <1>7 DEF Sound, IsOffered
<1>8. ASSUME NEW y \in ToSet(Led) PROVE IsPlace(y)
  <2>1. PICK x \in ToSet(toParse) : \E d \in RunPathDirs(world, x.path) :
               Usable(world, x.path) /\ y = Item(d, x.rec) /\ d \in Seq(STRING)
    BY <1>1, LevelLed
  <2>2. PICK d \in RunPathDirs(world, x.path) :
               Usable(world, x.path) /\ y = Item(d, x.rec) /\ d \in Seq(STRING)
    BY <2>1
  <2>3. PICK r \in Reachable(world) : r[2] = x.rec /\ x.path \in Objects(world, r[1])
    BY <1>7, <2>2
  <2>4. <<d, r[2]>> \in Onward(world, r)
    BY <2>3 DEF Onward
  <2>5. <<d, x.rec>> \in Reachable(world)
    BY <1>2, <2>3, <2>4, FlagsBoolean
  <2>6. y.path = d /\ y.rec = x.rec
    BY <2>2, ItemParts
  <2> QED
    BY <2>2, <2>5, <2>6 DEF IsPlace
<1>9. ASSUME NEW e \in ToSet(Added) PROVE e \in Libraries(world)
  <2>1. PICK x \in ToSet(toParse) : Usable(world, x.path) /\ e = Described(world, x.path)
    BY <1>1, LevelAdded
  <2>2. PICK r \in Reachable(world) : x.path \in Objects(world, r[1])
    BY <1>7, <2>1
  <2> QED
    BY <2>1, <2>2 DEF Libraries
<1>10. ASSUME NEW r, Ahead(r) PROVE Ahead(r)'
  <2>1. r[1] \in visited \/ Item(r[1], r[2]) \in ToSet(next)
    BY <1>6, <1>10 DEF Ahead
  <2> QED
    BY <1>1, <1>4, <2>1 DEF Ahead
<1>11. ASSUME NEW r, Explored(r) PROVE Explored(r)'
  <2>1. ASSUME NEW p \in Objects(world, r[1]), Item(p, r[2]) \in ToSet(toParse)
        PROVE  /\ Described(world, p) \in ToSet(index')
               /\ \A d \in RunPathDirs(world, p) : Ahead(<<d, r[2]>>)'
    <3> DEFINE x == Item(p, r[2])
    <3>1. x.path = p /\ x.rec = r[2]
      BY ItemParts
    <3>2. Usable(world, p)
      BY DEF Objects
    <3>3. x \in ToSet(toParse)
      BY <2>1
    <3> HIDE DEF x
    <3>4. Described(world, p) \in ToSet(Added)
      BY <1>1, <3>1, <3>2, <3>3, LevelAdded
    <3>5. ASSUME NEW d \in RunPathDirs(world, p) PROVE Ahead(<<d, r[2]>>)'
      <4>1. Item(d, r[2]) \in ToSet(Led)
        BY <1>1, <3>1, <3>2, <3>3, LevelLed
      <4>2. <<d, r[2]>>[1] = d /\ <<d, r[2]>>[2] = r[2]
        OBVIOUS
      <4> QED
        BY <1>4, <4>1, <4>2 DEF Ahead
    <3> QED
      BY <1>3, <3>4, <3>5
  <2> QED
    BY <1>1, <1>3, <1>10, <1>11, <2>1, StaysExplored
<1>12. Phases'
  BY <1>1, <1>2 DEF Phases
<1>13. Sound'
  <2>1. \A x \in ToSet(frontier') \cup ToSet(next') : IsPlace(x)
    BY <1>2, <1>4, <1>6, <1>8 DEF Sound
  <2>2. ToSet(index') \subseteq Libraries(world)
    BY <1>2, <1>3, <1>9 DEF Sound
  <2> QED
    BY <1>1, <1>6, <2>1, <2>2 DEF Sound, IsPlace
<1>14. Thorough'
  <2>1. \A r \in GivenRoots(world) : Ahead(r)'
    BY <1>1, <1>2, <1>10 DEF Thorough
  <2>2. \A p \in visited : \E r \in Reachable(world) : r[1] = p /\ Explored(r)'
    BY <1>2, <1>11 DEF Thorough
  <2> QED
    BY <1>1, <2>1, <2>2 DEF Thorough
<1> QED
  BY <1>1, <1>2, <1>3, <1>4, <1>6, <1>12, <1>13, <1>14 DEF SInv, IsSeq

(* The other steps leave the search as it is.                              *)
LEMMA NextSearch == ASSUME CInv, SInv, [Next]_vars PROVE SInv'
<1>1. ASSUME UNCHANGED <<world, frontier, visited, toParse, next, index>>, Phases', Thorough'
      PROVE  SInv'
  <2>1. Sound'
    BY <1>1 DEF SInv, Sound, IsPlace, IsOffered
  <2> QED
    BY <1>1, <2>1 DEF SInv, IsSeq
<1>2. ASSUME UNCHANGED <<world, frontier, visited, toParse, next, index>>,
             stage' \in {"start", "done"} \/ stage \notin {"start", "done"}
      PROVE  Thorough'
  <2>1. \A r : Ahead(r)' <=> Ahead(r)
    BY <1>2 DEF Ahead
  <2>2. \A r : Explored(r) => Explored(r)'
    BY <1>2, <2>1, StaysExplored
  <2> QED
    BY <1>2, <2>1, <2>2 DEF SInv, Thorough
<1>3. ASSUME Start PROVE SInv'
  <2>1. CASE stage' # "done"
    BY <1>3, <2>1, StartSearch
  <2>2. CASE stage' = "done"
    <3>1. UNCHANGED <<world, frontier, visited, toParse, next, index>>
      BY <1>3, <2>2 DEF Start, Quit, cacheVars
    <3>2. Phases'
      BY <2>2, <3>1 DEF Phases
    <3> QED
      BY <1>1, <1>2, <2>2, <3>1, <3>2
  <2> QED
    BY <2>1, <2>2
<1>4. ASSUME Spawn \/ \E w \in Workers : Grab(w) \/ Parse(w) PROVE SInv'
  <2>1. /\ UNCHANGED <<world, fs, frontier, visited, toParse, next, index>>
        /\ \/ stage = "scan" /\ stage' = "parse" /\ frontier = <<>>
           \/ stage' = stage
    BY <1>4 DEF Spawn, Grab, Parse
  <2>2. Phases'
    <3>1. CASE stage = "scan" /\ stage' = "parse" /\ frontier = <<>>
      BY <2>1, <3>1 DEF SInv, Phases
    <3>2. CASE stage' = stage
      BY <2>1, <3>2 DEF SInv, Phases
    <3> QED
      BY <2>1, <3>1, <3>2
  <2>3. stage' \in {"start", "done"} \/ stage \notin {"start", "done"}
    BY <2>1
  <2> QED
    BY <1>1, <1>2, <2>1, <2>2, <2>3
<1>5. ASSUME CollectPaths \/ CollectDir \/ Collected \/ Report PROVE SInv'
  <2>1. /\ UNCHANGED <<world, fs, frontier, visited, toParse, next, index>>
        /\ stage \in {"collect", "walk", "patch"}
        /\ stage' \in {"walk", "patch", "done"} /\ (stage = "patch" => stage' = "done")
    BY <1>5 DEF CollectPaths, CollectDir, Collected, Report, cacheVars
  <2>2. Phases'
    BY <2>1 DEF SInv, Phases
  <2> QED
    BY <1>1, <1>2, <2>1, <2>2
<1>6. ASSUME NEW i \in DOMAIN files, PatchOne(i) PROVE SInv'
  <2>1. /\ UNCHANGED <<world, frontier, visited, toParse, next, index>>
        /\ stage = "patch" /\ stage' = stage
    BY <1>6 DEF PatchOne, cacheVars
  <2>2. Phases'
    BY <2>1 DEF SInv, Phases
  <2> QED
    BY <1>1, <1>2, <2>1, <2>2
<1>7. CASE UNCHANGED vars
  <2>1. UNCHANGED <<world, fs, stage, frontier, visited, toParse, next, index>>
    BY <1>7 DEF vars, cacheVars
  <2>2. Phases'
    BY <2>1 DEF SInv, Phases
  <2>3. stage' \in {"start", "done"} \/ stage \notin {"start", "done"}
    BY <2>1
  <2> QED
    BY <1>1, <1>2, <2>1, <2>2, <2>3
<1> QED
  BY <1>3, <1>4, <1>5, <1>6, <1>7, VisitSearch, MergeSearch DEF Next, Populate

(* The search's invariant holds.                                           *)
LEMMA InductiveSearch == Spec => [](CInv /\ SInv)
<1>1. Init => SInv
  BY InitSearch
<1>2. CInv /\ SInv /\ [Next]_vars => SInv'
  BY NextSearch
<1> QED
  BY <1>1, <1>2, InductiveCache, PTL DEF Spec

-----------------------------------------------------------------------------
(* Whatever is reachable has been visited when the level with nothing to   *)
(* follow ends.                                                            *)
LEMMA AllVisited ==
  ASSUME SInv, Populated, OneWay(world)
  PROVE  \A r \in Reachable(world) : r[1] \in visited /\ Explored(r)
<1>1. /\ frontier = <<>> /\ next = <<>> /\ toParse = <<>>
      /\ world \in Worlds /\ Thorough
  BY DEF SInv, Phases, Populated
<1>2. \A r : Ahead(r) => r[1] \in visited
  <2>1. \A s : s = <<>> => ToSet(s) = {}
    BY DEF ToSet
  <2>2. ToSet(frontier) = {} /\ ToSet(next) = {}
    BY <1>1, <2>1
  <2> QED
    BY <2>2 DEF Ahead
<1> DEFINE S == {r \in Reachable(world) : r[1] \in visited}
<1>3. ASSUME NEW r \in S PROVE Explored(r)
  <2>1. PICK s \in Reachable(world) : s[1] = r[1] /\ Explored(s)
    BY <1>1 DEF Thorough
  <2>2. s[2] = r[2]
    BY <2>1 DEF OneWay
  <2> QED
    BY <2>1, <2>2 DEF Explored
<1>4. GivenRoots(world) \subseteq S
  <2>1. \A r \in GivenRoots(world) : Ahead(r)
    BY <1>1 DEF Thorough, Populated
  <2> QED
    BY <1>2, <2>1, RootsReachable
<1>5. ASSUME NEW r \in S, NEW s \in Onward(world, r) PROVE s \in S
  <2>1. s \in Reachable(world)
    BY <1>1, FlagsBoolean
  <2> DEFINE below == IF r[2] THEN Subdirs(world, r[1]) ELSE {}
             named == UNION {RunPathDirs(world, p) : p \in Objects(world, r[1])}
  <2>2. PICK d \in below \cup named : s = <<d, r[2]>>
    BY DEF Onward
  <2>3. Ahead(s)
    <3>1. \A x : Item(x, r[2]) \notin ToSet(toParse)
      BY <1>1 DEF ToSet
    <3>2. Explored(r)
      BY <1>3
    <3>3. CASE d \in below
      <4>1. Ahead(<<d, r[2]>>)
        BY <3>2, <3>3 DEF Explored
      <4> QED
        BY <2>2, <4>1
    <3>4. CASE d \in named
      <4>1. Ahead(<<d, r[2]>>)
        BY <3>1, <3>2, <3>4 DEF Explored
      <4> QED
        BY <2>2, <4>1
    <3> QED
      BY <2>2, <3>3, <3>4
  <2> QED
    BY <1>2, <2>1, <2>3
<1>6. Reachable(world) \subseteq S
  <2> HIDE DEF S
  <2> QED
    BY <1>4, <1>5, ReachableLeast
<1> QED
  BY <1>3, <1>6

(* "Index every shared object reachable from roots", and nothing else,     *)
(* when no path is reached both with and without its subdirectories.       *)
LEMMA IndexComplete == ASSUME SInv, OneWay(world) PROVE AllIndexed
<1> SUFFICES ASSUME Populated PROVE ToSet(index) = Libraries(world)
  BY DEF AllIndexed
<1>1. ToSet(index) \subseteq Libraries(world)
  BY DEF SInv, Sound
<1>2. toParse = <<>>
  BY DEF SInv, Phases, Populated
<1>3. ASSUME NEW e \in Libraries(world) PROVE e \in ToSet(index)
  <2>1. PICK r \in Reachable(world) : \E p \in Objects(world, r[1]) : e = Described(world, p)
    BY DEF Libraries
  <2>2. PICK p \in Objects(world, r[1]) : e = Described(world, p)
    BY <2>1
  <2>3. Explored(r)
    BY AllVisited
  <2>4. Item(p, r[2]) \notin ToSet(toParse)
    BY <1>2 DEF ToSet
  <2> QED
    BY <2>2, <2>3, <2>4 DEF Explored
<1> QED
  BY <1>1, <1>3

(* "Index every shared object reachable from roots" (doc of populate): for *)
(* any tree, roots, number of threads and interleaving, when the walk has  *)
(* ended the index holds every library reachable, under its canonical      *)
(* directory, and nothing else, if no path is reached both with and        *)
(* without its subdirectories (populate's visited does not keep the flag;  *)
(* run nested_libs shows what is missed else).                             *)
THEOREM LibrariesIndexed == Spec => [](OneWay(world) => AllIndexed)
<1>1. SInv => (OneWay(world) => AllIndexed)
  BY IndexComplete
<1> QED
  BY <1>1, InductiveSearch, PTL

(* At no time, and in any call, is anything indexed that the roots do not  *)
(* lead to (populate, parse_lib).                                          *)
THEOREM OnlyReachableIndexed == Spec => [](ToSet(index) \subseteq Libraries(world))
<1>1. SInv => ToSet(index) \subseteq Libraries(world)
  BY DEF SInv, Sound
<1> QED
  BY <1>1, InductiveSearch, PTL

(* Roots that all have the same flag reach each path in one way.           *)
LEMMA FlatOneWay ==
  ASSUME NEW w \in Worlds, \A r, s \in GivenRoots(w) : r[2] = s[2]
  PROVE  OneWay(w)
<1> DEFINE S == {r \in Reachable(w) : \A g \in GivenRoots(w) : r[2] = g[2]}
<1>1. GivenRoots(w) \subseteq S
  BY RootsReachable
<1>2. \A r \in S : Onward(w, r) \subseteq S
  <2>1. \A r : \A s \in Onward(w, r) : s[2] = r[2]
    BY DEF Onward
  <2> QED
    BY <2>1, FlagsBoolean
<1>3. Reachable(w) \subseteq S
  <2> HIDE DEF S
  <2> QED
    BY <1>1, <1>2, ReachableLeast
<1>4. CASE GivenRoots(w) = {}
  <2>1. Reachable(w) \subseteq {}
    <3>1. \A r \in {} : Onward(w, r) \subseteq {}
      OBVIOUS
    <3> QED
      BY <1>4, <3>1, ReachableLeast
  <2> QED
    BY <2>1 DEF OneWay
<1>5. CASE GivenRoots(w) # {}
  BY <1>3, <1>5 DEF OneWay
<1> QED
  BY <1>4, <1>5

(* So every reachable library is indexed in every call with --no-recurse,  *)
(* with --ignore-existing or without --libs (run, populate).               *)
THEOREM FlatLibrariesIndexed ==
  Spec => []((~world.recursive \/ ~world.existing \/ world.libs = <<>>) => AllIndexed)
<1>1. ASSUME SInv, ~world.recursive \/ ~world.existing \/ world.libs = <<>>
      PROVE  AllIndexed
  <2>1. world \in Worlds /\ world.recursive \in BOOLEAN
    BY <1>1, LibCacheAssumption DEF SInv
  <2>2. ASSUME NEW r \in GivenRoots(world), NEW s \in GivenRoots(world) PROVE r[2] = s[2]
    <3>1. CASE ~world.existing
      <4>1. \A g \in GivenRoots(world) : \E p \in ToSet(world.libs) : g = <<p, FALSE>>
        BY <3>1 DEF GivenRoots
      <4>2. PICK p \in ToSet(world.libs) : r = <<p, FALSE>>
        BY <4>1
      <4>3. PICK q \in ToSet(world.libs) : s = <<q, FALSE>>
        BY <4>1
      <4> QED
        BY <4>2, <4>3
    <3>2. CASE world.libs = <<>>
      <4>1. ToSet(world.libs) = {}
        BY <3>2 DEF ToSet
      <4> QED
        BY <4>1 DEF GivenRoots
    <3>3. CASE ~world.recursive
      <4>1. world.recursive = FALSE
        BY <2>1, <3>3
      <4>2. \A g \in GivenRoots(world) : g[2] = FALSE \/ g[2] = world.recursive
        BY RootFlags
      <4> QED
        BY <4>1, <4>2
    <3> QED
      BY <1>1, <3>1, <3>2, <3>3
  <2> QED
    BY <1>1, <2>1, <2>2, FlatOneWay, IndexComplete
<1> QED
  BY <1>1, InductiveSearch, PTL

(* While the roots themselves are walked and parsed.                       *)
FirstLevel == levels = 0 \/ (levels = 1 /\ stage = "parse")

(* The roots visited so far.                                               *)
Scanned == Len(Roots(world)) - Len(frontier)

(* An object to parse is offered by one of the first i roots.              *)
OfRoots(x, i) ==
  Usable(world, x.path) => \E h \in 1 .. i : x.path \in Objects(world, Roots(world)[h].path)

(* An object is to be parsed, and before it only objects of the first i    *)
(* roots.                                                                  *)
Listed(i, p) ==
  \E j \in DOMAIN toParse : toParse[j].path = p /\ \A k \in 1 .. j : OfRoots(toParse[k], i)

(* A library is indexed, and before it only libraries of the first i       *)
(* roots.                                                                  *)
Indexed(i, p) ==
  \E j \in DOMAIN index :
    /\ index[j] = Described(world, p)
    /\ \A k \in 1 .. j : \E h \in 1 .. i : \E q \in Objects(world, Roots(world)[h].path) :
         index[k] = Described(world, q)

(* The roots are visited in order, and their objects listed in that order. *)
FirstScan ==
  /\ Scanned \in Nat
  /\ \A k \in DOMAIN frontier : frontier[k] = Roots(world)[Scanned + k]
  /\ \A x \in ToSet(toParse) : OfRoots(x, Scanned)
  /\ \A p \in visited : \E i \in 1 .. Scanned : p = Roots(world)[i].path
  /\ \A i \in 1 .. Scanned : \A p \in Objects(world, Roots(world)[i].path) : Listed(i, p)

(* The inductive invariant of the roots: what a root offers is indexed     *)
(* before anything that no earlier root and not this one offers.           *)
RInv ==
  /\ levels \in Nat
  /\ levels = 0 => stage \in {"start", "scan", "done"}
  /\ stage = "start" => levels = 0
  /\ FirstLevel => index = <<>>
  /\ FirstLevel /\ stage \in {"scan", "parse"} => FirstScan
  /\ ~FirstLevel /\ stage # "done" =>
       \A i \in DOMAIN Roots(world) : \A p \in Objects(world, Roots(world)[i].path) : Indexed(i, p)

(* No root is visited at the start.                                        *)
LEMMA InitRoots == Init => RInv
<1> SUFFICES ASSUME Init PROVE RInv
  OBVIOUS
<1> USE DEF Init, CacheInit
<1>1. levels = 0 /\ stage = "start" /\ index = <<>>
  OBVIOUS
<1> QED
  BY <1>1 DEF RInv, FirstLevel

(* What a visit adds to the level.                                         *)
LEMMA VisitAdds ==
  ASSUME CInv, SInv, Visit
  PROVE  LET h == Head(frontier)
         IN /\ IsSeq(toParse) /\ IsSeq(toParse')
            /\ \A k \in DOMAIN toParse : k \in DOMAIN toParse' /\ toParse'[k] = toParse[k]
            /\ Seen(h.path) => toParse' = toParse
            /\ ~Seen(h.path) =>
                 /\ \A k \in DOMAIN toParse' : k \notin DOMAIN toParse /\ Usable(world, toParse'[k].path) =>
                      toParse'[k].path \in Objects(world, h.path)
                 /\ \A p \in Objects(world, h.path) : \E k \in DOMAIN toParse' : toParse'[k].path = p
<1> DEFINE h == Head(frontier)
<1>1. frontier # <<>> /\ fs = world.fs /\ world \in Worlds /\ IsTree(fs) /\ IsSeq(frontier)
      /\ IsSeq(toParse)
  BY LibCacheAssumption DEF Visit, SInv, Phases, CInv, Kinds
<1>2. IsPlace(h)
  BY <1>1, TailSet DEF SInv, Sound
<1>3. h.path \in Seq(STRING)
  BY <1>2 DEF IsPlace
<1>4. DOMAIN toParse = 1 .. Len(toParse) /\ Len(toParse) \in Nat
  BY <1>1 DEF IsSeq
<1> HIDE DEF h
<1>5. CASE Seen(h.path)
  BY <1>1, <1>5 DEF Visit, h
<1>6. CASE ~Seen(h.path) /\ IsFile(fs, h.path)
  <2>1. toParse' = Append(toParse, h)
    BY <1>6 DEF Visit, VisitFile, h
  <2>2. IsSeq(toParse')
    BY <1>1, <2>1, SeqAppend
  <2>3. /\ DOMAIN toParse' = 1 .. Len(toParse) + 1 /\ toParse'[Len(toParse) + 1] = h
        /\ \A k \in 1 .. Len(toParse) : toParse'[k] = toParse[k]
    BY <1>1, <2>1, IsSeqList, ListAppend
  <2>4. \A k \in DOMAIN toParse' : k \notin DOMAIN toParse => toParse'[k] = h
    BY <1>4, <2>3
  <2>5. Usable(world, h.path) => h.path \in Objects(world, h.path)
    BY <1>1, <1>6 DEF Objects
  <2>6. \A p \in Objects(world, h.path) : p = h.path
    BY <1>1, <1>6 DEF Objects
  <2>7. Len(toParse) + 1 \in DOMAIN toParse'
    BY <1>4, <2>3
  <2> QED
    BY <1>1, <1>4, <1>6, <2>2, <2>3, <2>4, <2>5, <2>6, <2>7 DEF h
<1>7. CASE ~Seen(h.path) /\ ~IsFile(fs, h.path)
  <2> DEFINE subdirs == {n \in Names(fs, h.path) : IsSubdir(Append(h.path, n))}
             objects == (Names(fs, h.path) \ subdirs) \cap Shared
             offered == Items(SortedEntries(h.path, objects), h.rec)
  <2>1. toParse' = toParse \o offered
    BY <1>7 DEF Visit, VisitDir, h
  <2>2. /\ IsSeq(offered)
        /\ \A x \in ToSet(offered) : \E n \in objects : x = Item(Append(h.path, n), h.rec)
        /\ \A n \in objects : Item(Append(h.path, n), h.rec) \in ToSet(offered)
    <3>1. \A n \in objects : \E k \in DOMAIN NameOrder : NameOrder[k] = n
      BY <1>1, NamesOrdered
    <3> HIDE DEF objects
    <3> QED
      BY <3>1, EntriesItems
  <2>3. ASSUME NEW x \in ToSet(offered), Usable(world, x.path) PROVE x.path \in Objects(world, h.path)
    <3>1. PICK n \in objects : x = Item(Append(h.path, n), h.rec)
      BY <2>2
    <3>2. x.path = Append(h.path, n)
      BY <3>1, ItemParts
    <3> QED
      BY <1>1, <1>7, <2>3, <3>2 DEF Objects
  <2>4. ASSUME NEW p \in Objects(world, h.path) PROVE \E x \in ToSet(offered) : x.path = p
    <3>1. PICK n \in Names(fs, h.path) \cap Shared : p = Append(h.path, n) /\ Usable(world, p)
      BY <1>1, <1>7 DEF Objects
    <3>2. ~IsDir(fs, p)
      BY <1>1, <3>1 DEF Usable, IsDir
    <3>3. n \in objects
      BY <3>1, <3>2 DEF IsSubdir
    <3> QED
      BY <2>2, <3>1, <3>3, ItemParts
  <2> HIDE DEF offered
  <2>5. IsSeq(toParse')
    BY <1>1, <2>1, <2>2, SeqJoin
  <2>6. IsJoin(toParse', toParse, offered)
    BY <1>1, <2>1, <2>2, IsSeqList, ListConcat
  <2>7. /\ \A k \in DOMAIN toParse : k \in DOMAIN toParse' /\ toParse'[k] = toParse[k]
        /\ \A k \in DOMAIN toParse' : k \notin DOMAIN toParse => toParse'[k] \in ToSet(offered)
        /\ \A x \in ToSet(offered) : \E k \in DOMAIN toParse' : toParse'[k] = x
    BY <2>6 DEF IsJoin, ToSet
  <2> QED
    BY <1>1, <1>7, <2>3, <2>4, <2>5, <2>7 DEF h
<1> QED
  BY <1>5, <1>6, <1>7

(* A root is visited.                                                      *)
LEMMA VisitRoots == ASSUME CInv, SInv, RInv, Visit PROVE RInv'
<1> DEFINE h == Head(frontier)
           R == Roots(world)
           b == Scanned
<1>1. /\ stage = "scan" /\ stage' = stage /\ levels' = levels /\ index' = index /\ world' = world
      /\ frontier # <<>> /\ frontier' = Tail(frontier) /\ visited' = visited \cup {h.path}
  BY DEF Visit
<1>2. CASE ~FirstLevel
  BY <1>1, <1>2 DEF RInv, FirstLevel, Indexed
<1>3. CASE FirstLevel
  <2>1. FirstScan /\ IsSeq(frontier) /\ world \in Worlds
    BY <1>1, <1>3 DEF RInv, SInv
  <2>2. /\ DOMAIN frontier = 1 .. Len(frontier) /\ Len(frontier) \in Nat \ {0} /\ h = frontier[1]
        /\ Len(frontier') = Len(frontier) - 1 /\ DOMAIN frontier' = 1 .. Len(frontier) - 1
        /\ \A k \in 1 .. Len(frontier) - 1 : frontier'[k] = frontier[k + 1]
    <3> DEFINE S == {frontier[i] : i \in DOMAIN frontier}
    <3>1. frontier \in Seq(S)
      BY <2>1 DEF IsSeq
    <3> HIDE DEF S
    <3> QED
      BY <1>1, <3>1
  <2>3. Scanned' = b + 1 /\ b \in Nat
    <3>1. Len(R) \in Nat
      BY <2>1, RootItems DEF IsSeq
    <3> HIDE DEF R
    <3>2. Scanned' = Len(R) - Len(frontier')
      BY <1>1 DEF Scanned, R
    <3>3. b = Len(R) - Len(frontier)
      BY DEF Scanned, R
    <3>4. b \in Nat
      BY <2>1 DEF FirstScan
    <3> QED
      BY <2>2, <3>1, <3>2, <3>3, <3>4
  <2>4. h = R[b + 1]
    <3>1. \A k \in DOMAIN frontier : frontier[k] = R[Scanned + k]
      BY <2>1 DEF FirstScan
    <3>2. 1 \in DOMAIN frontier
      BY <2>2
    <3> HIDE DEF R
    <3> QED
      BY <2>2, <3>1, <3>2
  <2>5. \A k \in DOMAIN frontier' : frontier'[k] = R[Scanned' + k]
    <3> SUFFICES ASSUME NEW k \in 1 .. Len(frontier) - 1 PROVE frontier[k + 1] = R[(b + 1) + k]
      BY <2>2, <2>3
    <3>1. k + 1 \in DOMAIN frontier /\ b + (k + 1) = (b + 1) + k
      BY <2>2, <2>3
    <3> QED
      BY <2>1, <3>1 DEF FirstScan
  <2> HIDE DEF h, R, b
  <2>6. \A p \in visited' : \E i \in 1 .. b + 1 : p = R[i].path
    <3>1. \A p \in visited : \E i \in 1 .. b : p = R[i].path
      BY <2>1 DEF FirstScan, R, b
    <3> QED
      BY <1>1, <2>3, <2>4, <3>1
  <2>7. ASSUME NEW x, NEW i \in Nat, NEW j \in Nat, i <= j, OfRoots(x, i) PROVE OfRoots(x, j)
    BY <2>7 DEF OfRoots
  <2>8. /\ IsSeq(toParse) /\ IsSeq(toParse')
        /\ \A k \in DOMAIN toParse : k \in DOMAIN toParse' /\ toParse'[k] = toParse[k]
        /\ Seen(h.path) => toParse' = toParse
        /\ ~Seen(h.path) =>
             /\ \A k \in DOMAIN toParse' : k \notin DOMAIN toParse /\ Usable(world, toParse'[k].path) =>
                   toParse'[k].path \in Objects(world, h.path)
             /\ \A p \in Objects(world, h.path) : \E k \in DOMAIN toParse' : toParse'[k].path = p
    BY VisitAdds DEF h
  <2>9. DOMAIN toParse = 1 .. Len(toParse) /\ DOMAIN toParse' = 1 .. Len(toParse')
        /\ Len(toParse) \in Nat /\ Len(toParse') \in Nat
    BY <2>8 DEF IsSeq
  <2>10. ASSUME NEW k \in DOMAIN toParse' PROVE OfRoots(toParse'[k], b + 1)
    <3>1. CASE k \in DOMAIN toParse
      <4>1. OfRoots(toParse[k], b)
        BY <2>1, <3>1 DEF FirstScan, ToSet, b
      <4> QED
        BY <2>3, <2>7, <2>8, <3>1, <4>1
    <3>2. CASE k \notin DOMAIN toParse
      <4>1. Usable(world, toParse'[k].path) => toParse'[k].path \in Objects(world, h.path)
        BY <2>8, <3>2
      <4>2. b + 1 \in 1 .. b + 1
        BY <2>3
      <4> QED
        BY <2>4, <4>1, <4>2 DEF OfRoots, R
    <3> QED
      BY <3>1, <3>2
  <2> DEFINE ListedNow(i, p) ==
               \E j \in DOMAIN toParse' :
                 toParse'[j].path = p /\ \A k \in 1 .. j : OfRoots(toParse'[k], i)
  <2>11. ASSUME NEW i \in Nat, NEW j \in Nat, i <= j, NEW p, Listed(i, p) PROVE ListedNow(j, p)
    <3>1. PICK m \in DOMAIN toParse : toParse[m].path = p /\ \A k \in 1 .. m : OfRoots(toParse[k], i)
      BY <2>11 DEF Listed
    <3>2. \A k \in 1 .. m : k \in DOMAIN toParse
      BY <2>9
    <3>3. \A k \in 1 .. m : OfRoots(toParse'[k], j)
      BY <2>7, <2>8, <2>11, <3>1, <3>2
    <3> QED
      BY <2>8, <3>1, <3>3
  <2>12. ASSUME NEW i \in 1 .. b + 1, NEW p \in Objects(world, R[i].path) PROVE ListedNow(i, p)
    <3>0. i \in Nat
      BY <2>3
    <3>1. CASE i # b + 1
      <4>1. i \in 1 .. b
        BY <2>3, <3>1
      <4>2. Listed(i, p)
        BY <2>1, <4>1 DEF FirstScan, R, b
      <4> HIDE DEF ListedNow
      <4> QED
        BY <2>11, <3>0, <4>2
    <3>2. CASE i = b + 1 /\ Seen(h.path)
      <4>1. PICK j \in 1 .. b : h.path = R[j].path
        BY <2>1, <3>2 DEF FirstScan, Seen, R, b
      <4>2. Listed(j, p)
        BY <2>1, <2>4, <3>2, <4>1 DEF FirstScan, R, b
      <4>3. j \in Nat /\ j <= i
        BY <2>3, <3>2
      <4> HIDE DEF ListedNow
      <4> QED
        BY <2>11, <3>0, <4>2, <4>3
    <3>3. CASE i = b + 1 /\ ~Seen(h.path)
      <4>1. PICK k \in DOMAIN toParse' : toParse'[k].path = p
        BY <2>4, <2>8, <3>3
      <4>2. \A m \in 1 .. k : m \in DOMAIN toParse'
        BY <2>9
      <4> QED
        BY <2>10, <3>3, <4>1, <4>2
    <3> QED
      BY <3>1, <3>2, <3>3
  <2>13. \A i, p : Listed(i, p)' <=> ListedNow(i, p)
    BY <1>1 DEF Listed, OfRoots
  <2>14. \A x, i : OfRoots(x, i)' <=> OfRoots(x, i)
    BY <1>1 DEF OfRoots
  <2> HIDE DEF ListedNow
  <2>15. FirstScan'
    <3>1. Scanned' \in Nat /\ Roots(world)' = R
      BY <1>1, <2>3 DEF R
    <3>2. \A x \in ToSet(toParse') : OfRoots(x, Scanned)'
      BY <2>3, <2>10, <2>14 DEF ToSet
    <3>3. \A i \in 1 .. b + 1 : \A p \in Objects(world, R[i].path) : Listed(i, p)'
      BY <2>12, <2>13
    <3> QED
      BY <1>1, <2>3, <2>5, <2>6, <3>1, <3>2, <3>3 DEF FirstScan
  <2> QED
    BY <1>1, <1>3, <2>15 DEF RInv, FirstLevel
<1> QED
  BY <1>2, <1>3

(* The roots' libraries are indexed first, and the index only grows.       *)
LEMMA MergeRoots == ASSUME CInv, SInv, RInv, Merge PROVE RInv'
<1> DEFINE R == Roots(world)
<1>1. /\ stage = "parse" /\ stage' \in {"collect", "scan"} /\ levels' = levels /\ world' = world
      /\ index' = index \o Added /\ frontier = <<>>
  BY MergeStep DEF Merge
<1>2. levels \in Nat \ {0}
  BY <1>1 DEF RInv
<1>3. ~FirstLevel'
  BY <1>1, <1>2 DEF FirstLevel
<1>4. /\ IsSeq(index) /\ IsSeq(Added) /\ IsJoin(index', index, Added)
      /\ DOMAIN index = 1 .. Len(index) /\ Len(index) \in Nat
  <2>1. IsSeq(index) /\ IsSeq(Added)
    BY <1>1, LevelAdded DEF SInv
  <2> QED
    BY <1>1, <2>1, IsSeqList, ListConcat DEF IsSeq
<1>5. \A k \in DOMAIN index : k \in DOMAIN index' /\ index'[k] = index[k]
  BY <1>4 DEF IsJoin
<1> DEFINE IndexedNow(i, p) ==
             \E j \in DOMAIN index' :
               /\ index'[j] = Described(world, p)
               /\ \A k \in 1 .. j : \E h \in 1 .. i : \E q \in Objects(world, R[h].path) :
                    index'[k] = Described(world, q)
<1>6. ASSUME NEW i \in DOMAIN R, NEW p \in Objects(world, R[i].path) PROVE IndexedNow(i, p)
  <2>1. CASE ~FirstLevel
    <3>1. PICK j \in DOMAIN index :
            /\ index[j] = Described(world, p)
            /\ \A k \in 1 .. j : \E h \in 1 .. i : \E q \in Objects(world, R[h].path) :
                 index[k] = Described(world, q)
      BY <1>1, <2>1 DEF RInv, Indexed
    <3>2. \A k \in 1 .. j : k \in DOMAIN index
      BY <1>4
    <3> QED
      BY <1>5, <3>1, <3>2
  <2>2. CASE FirstLevel
    <3>1. FirstScan /\ index = <<>> /\ IsSeq(toParse)
      BY <1>1, <2>2 DEF RInv, CInv, Kinds
    <3>2. i \in 1 .. Scanned
      <4>1. Len(frontier) = 0 /\ DOMAIN R = 1 .. Len(R) /\ Len(R) \in Nat
        BY <1>1, RootItems DEF SInv, IsSeq
      <4> QED
        BY <4>1 DEF Scanned
    <3>3. PICK j \in DOMAIN toParse :
            toParse[j].path = p /\ \A k \in 1 .. j : OfRoots(toParse[k], i)
      BY <3>1, <3>2 DEF FirstScan, Listed
    <3>4. Usable(world, p)
      BY DEF Objects
    <3>5. /\ world \in Worlds /\ fs = world.fs
          /\ \A x \in ToSet(toParse) : x.path \in Seq(STRING)
      BY <1>1 DEF SInv, Phases, Sound, IsOffered
    <3>6. j \in Libs
      <4>1. toParse[j] \in ToSet(toParse)
        BY DEF ToSet
      <4>2. ParseLib(toParse[j]) # <<>>
        BY <3>3, <3>4, <3>5, <4>1, ParsedLibrary
      <4> QED
        BY <4>2 DEF Libs
    <3>7. PICK m \in DOMAIN InOrder :
            /\ InOrder[m] = ParseLib(toParse[j])[1]
            /\ \A k \in 1 .. m : k \in DOMAIN InOrder /\
                 \E x \in Libs : x <= j /\ InOrder[k] = ParseLib(toParse[x])[1]
      BY <3>6, LibPlace
    <3>8. ASSUME NEW x \in Libs
          PROVE  /\ Entry(ParseLib(toParse[x])[1]) = Described(world, toParse[x].path)
                 /\ Usable(world, toParse[x].path) /\ x \in Nat \ {0}
      <4>1. toParse[x] \in ToSet(toParse) /\ ParseLib(toParse[x]) # <<>> /\ x \in DOMAIN toParse
        BY DEF Libs, ToSet
      <4>2. DOMAIN toParse = 1 .. Len(toParse) /\ Len(toParse) \in Nat
        BY <3>1 DEF IsSeq
      <4> QED
        BY <1>1, <4>1, <4>2, LevelResults
    <3>9. \A k \in DOMAIN InOrder : k \in DOMAIN index' /\ index'[k] = Entry(InOrder[k])
      <4>1. Len(index) = 0
        BY <3>1
      <4>2. \A k \in DOMAIN InOrder : k \in DOMAIN Added /\ Added[k] = Entry(InOrder[k]) /\ k \in Nat
        BY OrderedResults DEF Added
      <4>3. \A k \in DOMAIN Added : k + 0 \in DOMAIN index' /\ index'[k + 0] = Added[k]
        BY <1>4, <4>1 DEF IsJoin
      <4> QED
        BY <4>2, <4>3
    <3>10. index'[m] = Described(world, p) /\ m \in DOMAIN index'
      BY <3>3, <3>6, <3>7, <3>8, <3>9
    <3>11. ASSUME NEW k \in 1 .. m
           PROVE  \E h \in 1 .. i : \E q \in Objects(world, R[h].path) : index'[k] = Described(world, q)
      <4>1. PICK x \in Libs : x <= j /\ InOrder[k] = ParseLib(toParse[x])[1]
        BY <3>7
      <4>2. index'[k] = Described(world, toParse[x].path) /\ Usable(world, toParse[x].path)
        BY <3>7, <3>8, <3>9, <4>1
      <4>3. OfRoots(toParse[x], i)
        <5>1. x \in 1 .. j
          BY <3>6, <3>8, <4>1
        <5> QED
          BY <3>3, <5>1
      <4> QED
        BY <4>2, <4>3 DEF OfRoots
    <3> QED
      BY <3>10, <3>11
  <2> QED
    BY <2>1, <2>2
<1>7. \A i, p : Indexed(i, p)' <=> IndexedNow(i, p)
  BY <1>1 DEF Indexed
<1> HIDE DEF IndexedNow
<1> QED
  BY <1>1, <1>2, <1>3, <1>6, <1>7 DEF RInv

(* The walk starts before the first root.                                  *)
LEMMA StartRoots == ASSUME SInv, RInv, Start PROVE RInv'
<1>1. stage = "start" /\ world' = world /\ index' = index /\ levels' = levels
      /\ stage' \in {"scan", "done"} /\ (stage' = "scan" => frontier' = Roots(world))
      /\ UNCHANGED <<visited, toParse>>
  BY DEF Start, Quit, cacheVars
<1>2. CASE FirstLevel /\ stage' = "scan"
  <2>1. toParse = <<>> /\ visited = {} /\ world \in Worlds
    BY <1>1 DEF SInv, Phases
  <2>2. ToSet(toParse) = {}
    BY <2>1 DEF ToSet
  <2>3. Scanned' = 0
    <3>1. Len(Roots(world)) \in Nat
      BY <2>1, RootItems DEF IsSeq
    <3>2. Scanned' = Len(Roots(world)) - Len(Roots(world))
      BY <1>1, <1>2 DEF Scanned
    <3> HIDE DEF Roots
    <3> QED
      BY <3>1, <3>2
  <2>4. \A k \in DOMAIN Roots(world) : 0 + k = k
    BY <2>1, RootItems DEF IsSeq
  <2>5. FirstScan'
    <3>1. \A k \in DOMAIN frontier' : frontier'[k] = Roots(world)[0 + k]
      BY <1>1, <1>2, <2>4
    <3>2. 1 .. 0 = {}
      OBVIOUS
    <3> QED
      BY <1>1, <2>1, <2>2, <2>3, <3>1, <3>2 DEF FirstScan
  <2> QED
    BY <1>1, <1>2, <2>5 DEF RInv, FirstLevel
<1>3. CASE FirstLevel /\ stage' = "done"
  BY <1>1, <1>3 DEF RInv, FirstLevel
<1>4. FirstLevel
  BY <1>1 DEF RInv, FirstLevel, SInv
<1> QED
  BY <1>1, <1>2, <1>3, <1>4

(* Every step keeps the order of the roots.                                *)
LEMMA NextRoots == ASSUME CInv, SInv, RInv, [Next]_vars PROVE RInv'
<1>1. ASSUME UNCHANGED <<world, frontier, visited, toParse, index, levels>>,
             \/ stage' = stage
             \/ stage \in {"collect", "walk", "patch"} /\ stage' \in {"walk", "patch", "done"}
      PROVE  RInv'
  <2>1. FirstLevel' => FirstLevel
    BY <1>1 DEF FirstLevel
  <2>2. FirstLevel => FirstLevel' \/ stage' = "done"
    BY <1>1 DEF RInv, FirstLevel
  <2>3. FirstScan => FirstScan'
    BY <1>1 DEF FirstScan, Scanned, Listed, OfRoots
  <2>4. \A i, p : Indexed(i, p) => Indexed(i, p)'
    BY <1>1 DEF Indexed
  <2> QED
    BY <1>1, <2>1, <2>2, <2>3, <2>4 DEF RInv
<1>2. ASSUME Spawn PROVE RInv'
  <2>1. /\ stage = "scan" /\ stage' = "parse" /\ levels' = levels + 1
        /\ UNCHANGED <<world, frontier, visited, toParse, index>>
    BY <1>2 DEF Spawn
  <2>2. levels \in Nat /\ (FirstLevel <=> levels = 0) /\ (FirstLevel' <=> levels = 0)
    BY <2>1 DEF RInv, FirstLevel
  <2>3. FirstScan => FirstScan'
    BY <2>1 DEF FirstScan, Scanned, Listed, OfRoots
  <2>4. \A i, p : Indexed(i, p) => Indexed(i, p)'
    BY <2>1 DEF Indexed
  <2> QED
    BY <2>1, <2>2, <2>3, <2>4 DEF RInv
<1>3. ASSUME \E w \in Workers : Grab(w) \/ Parse(w) PROVE RInv'
  <2>1. UNCHANGED <<world, stage, frontier, visited, toParse, index, levels>>
    BY <1>3 DEF Grab, Parse
  <2> QED
    BY <1>1, <2>1
<1>4. ASSUME CollectPaths \/ CollectDir \/ Collected \/ Report PROVE RInv'
  BY <1>1, <1>4 DEF CollectPaths, CollectDir, Collected, Report, cacheVars
<1>5. ASSUME NEW i \in DOMAIN files, PatchOne(i) PROVE RInv'
  BY <1>1, <1>5 DEF PatchOne, cacheVars
<1>6. CASE UNCHANGED vars
  <2>1. UNCHANGED <<world, stage, frontier, visited, toParse, index, levels>>
    BY <1>6 DEF vars, cacheVars
  <2> QED
    BY <1>1, <2>1
<1> QED
  BY <1>2, <1>3, <1>4, <1>5, <1>6, StartRoots, VisitRoots, MergeRoots DEF Next, Populate

(* The roots' invariant holds.                                             *)
LEMMA InductiveRoots == Spec => []RInv
<1>1. Init => RInv
  BY InitRoots
<1>2. CInv /\ SInv /\ RInv /\ [Next]_vars => RInv'
  BY NextRoots
<1> QED
  BY <1>1, <1>2, InductiveSearch, PTL DEF Spec

(* Where a root's objects are.                                             *)
LEMMA ObjectDir ==
  ASSUME NEW w \in Worlds, w = world, NEW r, r.path \in Seq(STRING), NEW q \in Objects(w, r.path)
  PROVE  Described(w, q).dir = RootDir(r)
<1>1. IsTree(w.fs)
  BY LibCacheAssumption
<1>2. CASE IsFile(w.fs, r.path)
  <2>1. q = r.path
    BY <1>2 DEF Objects
  <2> QED
    BY <1>2, <2>1 DEF Described, RootDir
<1>3. CASE ~IsFile(w.fs, r.path)
  <2>1. PICK n \in Names(w.fs, r.path) : q = Append(r.path, n)
    BY <1>3 DEF Objects
  <2>2. Front(q) = r.path
    BY <1>1, <2>1, NamePath
  <2> QED
    BY <1>3, <2>2 DEF Described, RootDir
<1> QED
  BY <1>2, <1>3

(* The first library that fits is of the first root that offers one.       *)
LEMMA RootsDecide == ASSUME SInv, RInv PROVE RootsOutrank
<1> DEFINE R == Roots(world)
<1> SUFFICES ASSUME Populated, NEW l \in ToSet(index),
                    {i \in DOMAIN R : Offers(R[i], l.name, l.arch, l.osabi)} # {}
             PROVE  FindDir(l.name, l.arch, l.osabi)
                      = RootDir(R[Min({i \in DOMAIN R : Offers(R[i], l.name, l.arch, l.osabi)})])
  BY Zenon DEF RootsOutrank
<1> DEFINE offering == {i \in DOMAIN R : Offers(R[i], l.name, l.arch, l.osabi)}
           fits == {i \in Entries(l.name, l.arch) : OsabiCompatible(l.osabi, index[i].osabi)}
           Fit(e) == e.name = l.name /\ e.arch = l.arch /\ OsabiCompatible(l.osabi, e.osabi)
<1>1. /\ world \in Worlds /\ IsSeq(index) /\ IsSeq(R)
      /\ DOMAIN index = 1 .. Len(index) /\ Len(index) \in Nat
      /\ DOMAIN R = 1 .. Len(R) /\ Len(R) \in Nat
  BY RootItems DEF SInv, IsSeq
<1>2. \A i \in DOMAIN R : \A p \in Objects(world, R[i].path) : Indexed(i, p)
  BY DEF RInv, FirstLevel, Populated
<1>3. \A k : k \in fits <=> k \in DOMAIN index /\ Fit(index[k])
  BY DEF Entries
<1>4. \A i : i \in offering <=>
               i \in DOMAIN R /\ \E p \in Objects(world, R[i].path) : Fit(Described(world, p))
  BY DEF Offers
<1> HIDE DEF R, offering, fits, Fit
<1> DEFINE i == Min(offering)
<1>5. i \in offering /\ \A j \in offering : i <= j
  <2>1. offering # {}
    BY DEF offering
  <2>2. offering \subseteq Nat
    BY <1>1, <1>4
  <2> QED
    BY <2>1, <2>2, MinOf
<1> HIDE DEF i
<1>6. PICK p \in Objects(world, R[i].path) : Fit(Described(world, p))
  BY <1>4, <1>5
<1>7. PICK j \in DOMAIN index :
        /\ index[j] = Described(world, p)
        /\ \A k \in 1 .. j : \E h \in 1 .. i : \E q \in Objects(world, R[h].path) :
             index[k] = Described(world, q)
  BY <1>2, <1>4, <1>5, <1>6 DEF Indexed, R
<1> DEFINE m == Min(fits)
<1>8. m \in fits /\ m <= j /\ m \in 1 .. j
  <2>1. j \in fits
    BY <1>3, <1>6, <1>7
  <2>2. fits \subseteq Nat
    BY <1>1, <1>3
  <2>3. m \in fits /\ m <= j
    BY <2>1, <2>2, MinOf
  <2> HIDE DEF m
  <2> QED
    BY <1>1, <1>3, <2>3
<1>9. FindDir(l.name, l.arch, l.osabi) = index[m].dir
  <2>1. fits # {}
    BY <1>8
  <2> QED
    BY <2>1 DEF FindDir, First, fits
<1> HIDE DEF m
<1>10. PICK h \in 1 .. i : \E q \in Objects(world, R[h].path) : index[m] = Described(world, q)
  BY <1>7, <1>8
<1>11. PICK q \in Objects(world, R[h].path) : index[m] = Described(world, q)
  BY <1>10
<1>12. h = i
  <2>1. Fit(Described(world, q))
    BY <1>3, <1>8, <1>11
  <2>2. i \in DOMAIN R
    BY <1>4, <1>5
  <2>3. h \in DOMAIN R /\ h <= i
    BY <1>1, <2>2
  <2>4. i <= h
    BY <1>4, <1>5, <2>1, <2>3
  <2> QED
    BY <1>1, <2>2, <2>3, <2>4
<1>13. R[i].path \in Seq(STRING)
  BY <1>1, <1>4, <1>5, RootItems DEF ToSet, R
<1>14. index[m].dir = RootDir(R[i])
  BY <1>1, <1>11, <1>12, <1>13, ObjectDir
<1> QED
  BY <1>9, <1>14 DEF i, offering, R

(* A library that a search root offers is taken from the first root that   *)
(* does, in command-line order, for any tree, number of threads and        *)
(* interleaving, whatever else is reachable (populate, find).              *)
THEOREM RootsOutrankLater == Spec => []RootsOutrank
<1>1. SInv /\ RInv => RootsOutrank
  BY RootsDecide
<1> QED
  BY <1>1, InductiveSearch, InductiveRoots, PTL

-----------------------------------------------------------------------------
(* A function on 1 .. n is a sequence.                                     *)
LEMMA ListOver ==
  ASSUME NEW V, NEW n \in Nat, NEW f \in [1 .. n -> V]
  PROVE  f \in Seq(V) /\ DOMAIN f = 1 .. n /\ Len(f) = n
OBVIOUS

(* What is flattened holds what its sequences hold.                        *)
LEMMA FlattenedSet ==
  ASSUME NEW S, NEW seqs \in Seq(Seq(S))
  PROVE  /\ FlattenSeq(seqs) \in Seq(S)
         /\ ToSet(FlattenSeq(seqs)) = UNION {ToSet(seqs[i]) : i \in DOMAIN seqs}
<1> DEFINE F == FlattenSeq(seqs)
<1>2. /\ F \in Seq(S)
      /\ \A k \in DOMAIN F : \E i \in DOMAIN seqs : \E j \in DOMAIN seqs[i] : F[k] = seqs[i][j]
      /\ \A i \in DOMAIN seqs : \A j \in DOMAIN seqs[i] : \E k \in DOMAIN F : F[k] = seqs[i][j]
  BY FlattenElements
<1> HIDE DEF F
<1>3. ASSUME NEW x, x \in ToSet(F) PROVE \E i \in DOMAIN seqs : x \in ToSet(seqs[i])
  <2>1. PICK k \in DOMAIN F : F[k] = x
    BY <1>3 DEF ToSet
  <2> QED
    BY <1>2, <2>1 DEF ToSet
<1>4. ASSUME NEW i \in DOMAIN seqs, NEW x, x \in ToSet(seqs[i]) PROVE x \in ToSet(F)
  <2>1. PICK j \in DOMAIN seqs[i] : seqs[i][j] = x
    BY <1>4 DEF ToSet
  <2> QED
    BY <1>2, <2>1 DEF ToSet
<1>5. ToSet(F) = UNION {ToSet(seqs[i]) : i \in DOMAIN seqs}
  BY <1>3, <1>4
<1> QED
  BY <1>2, <1>5 DEF F

(* The elements at some places.                                            *)
Keeping(s, keep) == [i \in DOMAIN s |-> IF i \in keep THEN <<s[i]>> ELSE <<>>]

(* They are those elements, and no others.                                 *)
LEMMA KeptSet ==
  ASSUME NEW S, NEW s \in Seq(S), NEW keep
  PROVE  /\ FlattenSeq(Keeping(s, keep)) \in Seq(S)
         /\ ToSet(FlattenSeq(Keeping(s, keep))) = {s[i] : i \in keep \cap DOMAIN s}
<1> DEFINE seqs == Keeping(s, keep)
<1>1. DOMAIN s = 1 .. Len(s) /\ Len(s) \in Nat /\ \A i \in DOMAIN s : s[i] \in S
  OBVIOUS
<1>2. ASSUME NEW i \in DOMAIN s
      PROVE  /\ seqs[i] = IF i \in keep THEN <<s[i]>> ELSE <<>>
             /\ seqs[i] \in Seq(S)
             /\ ToSet(seqs[i]) = {x \in {s[i]} : i \in keep}
  <2>1. seqs[i] = IF i \in keep THEN <<s[i]>> ELSE <<>>
    BY DEF Keeping
  <2>2. s[i] \in S
    BY <1>1
  <2> DEFINE y == s[i]
             q == seqs[i]
  <2>3. y \in S /\ q = IF i \in keep THEN <<y>> ELSE <<>>
    BY <2>1, <2>2
  <2> HIDE DEF y, q
  <2>4. q \in Seq(S) /\ ToSet(q) = {x \in {y} : i \in keep}
    BY <2>3 DEF ToSet
  <2> QED
    BY <2>1, <2>4 DEF y, q
<1>3. seqs \in Seq(Seq(S)) /\ DOMAIN seqs = DOMAIN s
  <2> DEFINE V == Seq(S)
             n == Len(s)
  <2>1. n \in Nat /\ seqs \in [1 .. n -> V] /\ DOMAIN s = 1 .. n
    BY <1>1, <1>2 DEF Keeping
  <2> HIDE DEF V, n, seqs
  <2>2. seqs \in Seq(V) /\ DOMAIN seqs = 1 .. n
    BY <2>1, ListOver
  <2> QED
    BY <2>1, <2>2 DEF V
<1> HIDE DEF seqs
<1>4. /\ FlattenSeq(seqs) \in Seq(S)
      /\ ToSet(FlattenSeq(seqs)) = UNION {ToSet(seqs[i]) : i \in DOMAIN seqs}
  BY <1>3, FlattenedSet
<1>5. UNION {ToSet(seqs[i]) : i \in DOMAIN seqs} = {s[i] : i \in keep \cap DOMAIN s}
  <2>1. \A i \in DOMAIN s : ToSet(seqs[i]) = {x \in {s[i]} : i \in keep}
    BY <1>2
  <2>2. DOMAIN seqs = DOMAIN s
    BY <1>3
  <2> QED
    BY <2>1, <2>2
<1>6. ToSet(FlattenSeq(seqs)) = {s[i] : i \in keep \cap DOMAIN s}
  BY <1>4, <1>5
<1> QED
  BY <1>4, <1>6 DEF seqs

(* The paths of some kinds.                                                *)
LEMMA OfKindSet ==
  ASSUME NEW S, NEW paths \in Seq(S), NEW kinds
  PROVE  /\ OfKind(paths, kinds) \in Seq(S)
         /\ ToSet(OfKind(paths, kinds)) = {p \in ToSet(paths) : LinkKind(fs, p) \in kinds}
<1> DEFINE keep == {i \in DOMAIN paths : LinkKind(fs, paths[i]) \in kinds}
           seqs == Keeping(paths, keep)
<1>1. OfKind(paths, kinds) = FlattenSeq(seqs)
  <2>1. seqs = [i \in DOMAIN paths |->
                  IF LinkKind(fs, paths[i]) \in kinds THEN <<paths[i]>> ELSE <<>>]
    BY DEF Keeping
  <2> QED
    BY <2>1 DEF OfKind
<1> HIDE DEF keep
<1>2. /\ FlattenSeq(seqs) \in Seq(S)
      /\ ToSet(FlattenSeq(seqs)) = {paths[i] : i \in keep \cap DOMAIN paths}
  BY KeptSet
<1> HIDE DEF seqs
<1>3. {paths[i] : i \in keep \cap DOMAIN paths} = {p \in ToSet(paths) : LinkKind(fs, p) \in kinds}
  BY DEF keep, ToSet
<1> QED
  BY <1>1, <1>2, <1>3

(* join_rpaths keeps each directory.                                       *)
LEMMA JoinRpathsSet ==
  ASSUME NEW dirs \in Seq(Seq(STRING))
  PROVE  /\ JoinRpaths[dirs] \in Seq(Seq(STRING))
         /\ ToSet(JoinRpaths[dirs]) = ToSet(dirs)
<1> DEFINE P == Seq(STRING)
           keep == {i \in DOMAIN dirs : ~\E j \in 1 .. i - 1 : dirs[j] = dirs[i]}
           seqs == Keeping(dirs, keep)
<1>1. JoinRpaths[dirs] = FlattenSeq(seqs)
  <2>1. seqs = [i \in DOMAIN dirs |->
                IF \E j \in 1 .. i - 1 : dirs[j] = dirs[i] THEN <<>> ELSE <<dirs[i]>>]
    BY DEF Keeping
  <2> QED
    BY <2>1 DEF JoinRpaths
<1>2. dirs \in Seq(P)
  OBVIOUS
<1>3. ASSUME NEW i \in DOMAIN dirs PROVE \E j \in keep : dirs[j] = dirs[i]
  <2> DEFINE J == {j \in DOMAIN dirs : dirs[j] = dirs[i]}
  <2>1. DOMAIN dirs = 1 .. Len(dirs) /\ Len(dirs) \in Nat
    OBVIOUS
  <2>2. J \subseteq Nat /\ J # {}
    BY <2>1
  <2>3. PICK j \in J : \A y \in J : j <= y
    BY <2>2, LeastNatural
  <2>4. j \in DOMAIN dirs /\ dirs[j] = dirs[i] /\ j \in 1 .. Len(dirs)
    BY <2>1
  <2>5. ASSUME NEW m \in 1 .. j - 1 PROVE dirs[m] # dirs[j]
    <3>1. m \in DOMAIN dirs /\ m < j
      BY <2>1, <2>4
    <3> QED
      BY <2>3, <2>4, <3>1
  <2>6. j \in keep
    BY <2>4, <2>5
  <2> QED
    BY <2>4, <2>6
<1> HIDE DEF P
<1>4. keep \subseteq DOMAIN dirs
  OBVIOUS
<1> HIDE DEF keep
<1>5. /\ FlattenSeq(seqs) \in Seq(P)
      /\ ToSet(FlattenSeq(seqs)) = {dirs[i] : i \in keep \cap DOMAIN dirs}
  BY <1>2, KeptSet
<1> HIDE DEF seqs
<1>6. ToSet(FlattenSeq(seqs)) = ToSet(dirs)
  BY <1>3, <1>4, <1>5 DEF ToSet
<1> QED
  BY <1>1, <1>5, <1>6 DEF P

(* The duplicates dropped, no directory comes twice.                       *)
LEMMA JoinRpathsOnce ==
  ASSUME NEW dirs \in Seq(Seq(STRING))
  PROVE  \A k, l \in DOMAIN JoinRpaths[dirs] : JoinRpaths[dirs][k] = JoinRpaths[dirs][l] => k = l
<1> DEFINE P == Seq(STRING)
           seqs == [i \in DOMAIN dirs |->
                      IF \E j \in 1 .. i - 1 : dirs[j] = dirs[i] THEN <<>> ELSE <<dirs[i]>>]
<1>1. JoinRpaths[dirs] = FlattenSeq(seqs)
  BY DEF JoinRpaths
<1>2. dirs \in Seq(P) /\ DOMAIN dirs = 1 .. Len(dirs) /\ Len(dirs) \in Nat
  OBVIOUS
<1>3. ASSUME NEW i \in DOMAIN dirs
      PROVE  /\ seqs[i] \in Seq(P)
             /\ \A j \in DOMAIN seqs[i] : /\ j = 1 /\ seqs[i][j] = dirs[i]
                                          /\ \A h \in 1 .. i - 1 : dirs[h] # dirs[i]
  <2>1. dirs[i] \in P
    BY <1>2
  <2> HIDE DEF P
  <2>2. CASE \E j \in 1 .. i - 1 : dirs[j] = dirs[i]
    <3>1. seqs[i] = <<>>
      BY <2>2
    <3> HIDE DEF seqs
    <3> QED
      BY <3>1
  <2>3. CASE ~\E j \in 1 .. i - 1 : dirs[j] = dirs[i]
    <3>1. seqs[i] = <<dirs[i]>>
      BY <2>3
    <3> DEFINE x == dirs[i]
               y == seqs[i]
    <3>2. y = <<x>> /\ x \in P
      BY <2>1, <3>1
    <3> HIDE DEF x, y
    <3>3. y \in Seq(P) /\ \A j \in DOMAIN y : j = 1 /\ y[j] = x
      BY <3>2
    <3> QED
      BY <2>3, <3>3 DEF x, y
  <2> QED
    BY <2>2, <2>3
<1>4. seqs \in Seq(Seq(P)) /\ DOMAIN seqs = DOMAIN dirs
  <2> DEFINE V == Seq(P)
             n == Len(dirs)
  <2>1. seqs \in [1 .. n -> V] /\ n \in Nat
    BY <1>2, <1>3
  <2> HIDE DEF P, V, seqs, n
  <2>2. seqs \in Seq(V) /\ DOMAIN seqs = 1 .. n
    BY <2>1, ListOver
  <2> QED
    BY <1>2, <2>2 DEF V, n
<1> HIDE DEF P, seqs
<1>5. ASSUME NEW i \in DOMAIN seqs, NEW j \in DOMAIN seqs, NEW a \in DOMAIN seqs[i],
             NEW b \in DOMAIN seqs[j], seqs[i][a] = seqs[j][b]
      PROVE  i = j /\ a = b
  <2>1. /\ a = 1 /\ dirs[i] = dirs[j] /\ b = 1 /\ i \in Nat /\ j \in Nat
        /\ \A h \in 1 .. i - 1 : dirs[h] # dirs[i]
        /\ \A h \in 1 .. j - 1 : dirs[h] # dirs[j]
    BY <1>2, <1>3, <1>4, <1>5
  <2>2. ~(i < j) /\ ~(j < i)
    BY <1>2, <1>4, <2>1
  <2> QED
    BY <2>1, <2>2
<1>6. \A k, l \in DOMAIN FlattenSeq(seqs) : FlattenSeq(seqs)[k] = FlattenSeq(seqs)[l] => k = l
  BY <1>4, <1>5, FlattenInjective
<1> QED
  BY <1>1, <1>6

-----------------------------------------------------------------------------
(* A file, and what patching may have made of it.                          *)
SameBut(a, b) ==
  /\ b \in Elves /\ b.etype = a.etype /\ b.debug = a.debug
  /\ b.arch = a.arch /\ b.osabi = a.osabi
  /\ b.needed = a.needed /\ b.dlopen = a.dlopen
  /\ b.interp = NoPath <=> a.interp = NoPath
(* A tree, and what patching may have made of it.                          *)
Alike(t, u) ==
  /\ DOMAIN u = DOMAIN t
  /\ \A p \in DOMAIN t : IF t[p].kind = "elf" THEN SameBut(t[p], u[p]) ELSE u[p] = t[p]

(* A file stays one.                                                       *)
LEMMA SameButElf ==
  ASSUME NEW b \in Elves
  PROVE  /\ b.kind = "elf" /\ b.runpath \in Seq(Seq(STRING)) /\ b.interp \in Seq(STRING)
         /\ b.needed \in Seq(Sonames) /\ b.dlopen \in Seq(Seq(Sonames))
         /\ b.debug \in BOOLEAN /\ b.etype \in {"REL", "EXEC", "DYN"}
BY DEF Elves

(* The nodes keep their kinds.                                             *)
LEMMA AlikeKind ==
  ASSUME NEW t, NEW u, Alike(t, u), NEW p \in DOMAIN t
  PROVE  p \in DOMAIN u /\ u[p].kind = t[p].kind
<1>1. CASE t[p].kind = "elf"
  BY <1>1, SameButElf DEF Alike, SameBut
<1>2. CASE t[p].kind # "elf"
  BY <1>2 DEF Alike
<1> QED
  BY <1>1, <1>2

(* What is made of a tree is a tree.                                       *)
LEMMA AlikeTree ==
  ASSUME NEW t, NEW u, IsTree(t), Alike(t, u)
  PROVE  IsTree(u)
<1>1. DOMAIN u = DOMAIN t /\ \A p \in DOMAIN t : u[p].kind = t[p].kind
  BY AlikeKind DEF Alike
<1>2. <<"/">> \in DOMAIN u /\ u[<<"/">>].kind = "dir"
  BY <1>1 DEF IsTree
<1>3. ASSUME NEW p \in DOMAIN u
      PROVE  /\ p \in Seq(STRING)
             /\ Front(p) = NoPath => p = <<"/">>
             /\ Front(p) # NoPath =>
                  /\ Front(p) \in DOMAIN u /\ u[Front(p)].kind = "dir"
                  /\ \E i \in DOMAIN NameOrder : NameOrder[i] = Last(p)
  BY <1>1, <1>3 DEF IsTree
<1>4. ASSUME NEW p \in DOMAIN u, u[p].kind = "link" PROVE u[p].to \in DOMAIN u \cup {NoPath}
  <2>1. u[p] = t[p] /\ t[p].kind = "link"
    BY <1>1, <1>4 DEF Alike
  <2> QED
    BY <1>1, <2>1 DEF IsTree
<1>5. ASSUME NEW p \in DOMAIN u, u[p].kind = "elf" PROVE u[p].runpath \in Seq(Seq(STRING))
  <2>1. u[p] \in Elves
    BY <1>1, <1>5 DEF Alike, SameBut
  <2> QED
    BY <2>1, SameButElf
<1> QED
  BY <1>2, <1>3, <1>4, <1>5 DEF IsTree

(* Names lead where they led.                                              *)
LEMMA AlikeEnter ==
  ASSUME NEW t, NEW u, Alike(t, u), NEW spot, NEW name
  PROVE  Enter(u, spot, name) = Enter(t, spot, name)
<1> DEFINE p == Append(spot.path, name)
<1>1. p \in DOMAIN u <=> p \in DOMAIN t
  BY DEF Alike
<1>2. p \in DOMAIN t => u[p].kind = t[p].kind
  BY AlikeKind
<1>3. p \in DOMAIN t /\ t[p].kind = "link" => u[p] = t[p]
  BY DEF Alike
<1> HIDE DEF p
<1>4. \A v : Enter(v, spot, name) =
        IF spot.path = NoPath \/ p \notin DOMAIN v THEN [spot EXCEPT !.path = NoPath]
        ELSE IF v[p].kind # "link" THEN [spot EXCEPT !.path = p]
        ELSE IF spot.links = MaxLinks THEN [spot EXCEPT !.path = NoPath]
        ELSE [path |-> v[p].to, links |-> spot.links + 1]
  BY DEF Enter, p
<1>5. CASE spot.path = NoPath \/ p \notin DOMAIN t
  BY <1>1, <1>4, <1>5
<1>6. CASE ~(spot.path = NoPath \/ p \notin DOMAIN t)
  <2>1. CASE t[p].kind # "link"
    BY <1>1, <1>2, <1>4, <1>6, <2>1
  <2>2. CASE t[p].kind = "link"
    BY <1>1, <1>3, <1>4, <1>6, <2>2
  <2> QED
    BY <2>1, <2>2
<1> QED
  BY <1>5, <1>6

(* And so do paths.                                                        *)
LEMMA AlikeCanonical ==
  ASSUME NEW t, NEW u, IsTree(t), Alike(t, u), NEW p \in Seq(STRING)
  PROVE  Canonical(u, p) = Canonical(t, p)
<1>1. PICK f : Resolves(t, p, f) /\ Canonical(t, p) = f[Len(p)].path
  BY Resolving
<1>2. PICK g : Resolves(u, p, g) /\ Canonical(u, p) = g[Len(p)].path
  BY AlikeTree, Resolving
<1> DEFINE P == {m \in 0 .. Len(p) : g[m] = f[m]}
<1>3. Len(p) \in Nat /\ 0 \in 0 .. Len(p)
  OBVIOUS
<1>4. 0 \in P
  BY <1>1, <1>2, <1>3 DEF Resolves
<1>5. ASSUME NEW m \in 0 .. Len(p) - 1, m \in P PROVE m + 1 \in P
  <2>1. m + 1 \in 0 .. Len(p) /\ (m + 1) - 1 = m
    BY <1>3
  <2>2. f[m + 1] = IF m + 1 <= 1 THEN Origin ELSE Enter(t, f[m], p[m + 1])
    BY <1>1, <2>1 DEF Resolves
  <2>3. g[m + 1] = IF m + 1 <= 1 THEN Origin ELSE Enter(u, g[m], p[m + 1])
    BY <1>2, <2>1 DEF Resolves
  <2>4. Enter(u, f[m], p[m + 1]) = Enter(t, f[m], p[m + 1])
    BY AlikeEnter
  <2> QED
    BY <1>5, <2>1, <2>2, <2>3, <2>4
<1> HIDE DEF P
<1>6. \A m \in 0 .. Len(p) : m \in P
  BY <1>3, <1>4, <1>5, InductionUpTo
<1>7. g[Len(p)] = f[Len(p)]
  BY <1>3, <1>6 DEF P
<1> QED
  BY <1>1, <1>2, <1>7

(* What is found there is what was, or what patching made of it.           *)
LEMMA AlikeNode ==
  ASSUME NEW t, NEW u, IsTree(t), Alike(t, u), NEW p \in Seq(STRING)
  PROVE  /\ NodeAt(u, p).kind = NodeAt(t, p).kind
         /\ NodeAt(t, p).kind = "elf" => SameBut(NodeAt(t, p), NodeAt(u, p))
         /\ NodeAt(t, p).kind # "elf" => NodeAt(u, p) = NodeAt(t, p)
         /\ IsFile(u, p) = IsFile(t, p) /\ IsDir(u, p) = IsDir(t, p)
<1> DEFINE c == Canonical(t, p)
<1>1. Canonical(u, p) = c
  BY AlikeCanonical
<1>2. c \in KnownIn(t)
  BY CanonicalKnown
<1> HIDE DEF c
<1>3. NodeAt(t, p) = (IF c = NoPath THEN [kind |-> "none"] ELSE t[c])
      /\ NodeAt(u, p) = (IF c = NoPath THEN [kind |-> "none"] ELSE u[c])
  BY <1>1 DEF NodeAt, c
<1>4. c = NoPath \/ c \in DOMAIN t
  BY <1>2 DEF KnownIn
<1>5. /\ NodeAt(u, p).kind = NodeAt(t, p).kind
      /\ NodeAt(t, p).kind = "elf" => SameBut(NodeAt(t, p), NodeAt(u, p))
      /\ NodeAt(t, p).kind # "elf" => NodeAt(u, p) = NodeAt(t, p)
  <2>1. CASE c = NoPath
    BY <1>3, <2>1
  <2>2. CASE c # NoPath
    <3>1. u[c].kind = t[c].kind
      BY <1>4, <2>2, AlikeKind
    <3>2. IF t[c].kind = "elf" THEN SameBut(t[c], u[c]) ELSE u[c] = t[c]
      BY <1>4, <2>2 DEF Alike
    <3> QED
      BY <1>3, <2>2, <3>1, <3>2
  <2> QED
    BY <2>1, <2>2
<1> QED
  BY <1>5 DEF IsFile, IsDir

(* And the paths themselves keep their kinds.                              *)
LEMMA AlikeLinkKind ==
  ASSUME NEW t, NEW u, IsTree(t), Alike(t, u), NEW p \in Seq(STRING), Front(p) \in Seq(STRING)
  PROVE  Unfollowed(u, p) = Unfollowed(t, p) /\ LinkKind(u, p) = LinkKind(t, p)
<1>1. Unfollowed(u, p) = Unfollowed(t, p)
  BY AlikeCanonical DEF Unfollowed
<1>2. \A q \in DOMAIN t : u[q].kind = t[q].kind
  BY AlikeKind
<1> QED
  BY <1>1, <1>2 DEF LinkKind, Alike

(* Patching one of its files makes such a tree of a tree.                  *)
LEMMA PatchedAlike ==
  ASSUME NEW t, \A p \in DOMAIN t : t[p].kind = "elf" => t[p] \in Elves,
         NEW at \in DOMAIN t, t[at].kind = "elf", NEW runpath \in Seq(Seq(STRING)),
         world.interp # NoPath, world.interp \in Seq(STRING),
         NEW u, DOMAIN u = DOMAIN t, u[at] = Patched(t[at], runpath),
         \A p \in DOMAIN t : p # at => u[p] = t[p]
  PROVE  /\ Alike(t, u) /\ SameBut(t[at], u[at])
         /\ u[at].runpath = IF runpath = <<>> THEN t[at].runpath ELSE runpath
         /\ u[at].interp = IF t[at].interp = NoPath THEN NoPath ELSE world.interp
         /\ \A p \in DOMAIN t : p # at => u[p] = t[p]
<1> DEFINE a == t[at]
           b == Patched(a, runpath)
<1>1. a \in Elves /\ DOMAIN u = DOMAIN t /\ u[at] = b /\ \A p \in DOMAIN t : p # at => u[p] = t[p]
  OBVIOUS
<1> HIDE DEF b, a
<1>2. /\ b = [a EXCEPT !.interp = IF a.interp = NoPath THEN a.interp ELSE world.interp,
                       !.runpath = IF runpath = <<>> THEN a.runpath ELSE runpath]
      /\ NoPath \in Seq(STRING)
  BY DEF b, Patched, NoPath
<1>3. /\ b \in Elves
      /\ b.runpath = (IF runpath = <<>> THEN a.runpath ELSE runpath)
      /\ b.interp = (IF a.interp = NoPath THEN NoPath ELSE world.interp)
      /\ b.etype = a.etype /\ b.debug = a.debug /\ b.arch = a.arch /\ b.osabi = a.osabi
      /\ b.needed = a.needed /\ b.dlopen = a.dlopen
  BY <1>1, <1>2 DEF Elves
<1>4. SameBut(a, b)
  BY <1>3 DEF SameBut
<1>5. \A c \in Elves : SameBut(c, c)
  BY DEF SameBut
<1>6. Alike(t, u)
  <2> SUFFICES ASSUME NEW p \in DOMAIN t
               PROVE  IF t[p].kind = "elf" THEN SameBut(t[p], u[p]) ELSE u[p] = t[p]
    BY <1>1 DEF Alike
  <2>1. CASE p = at
    BY <1>1, <1>4, <2>1 DEF a
  <2>2. CASE p # at
    BY <1>1, <1>5, <2>2
  <2> QED
    BY <2>1, <2>2
<1> QED
  BY <1>1, <1>3, <1>4, <1>6 DEF a

-----------------------------------------------------------------------------
(* Following the names of a path that begins another.                      *)
LEMMA ResolvesPrefix ==
  ASSUME NEW t, NEW p \in Seq(STRING), NEW q \in Seq(STRING), Len(q) <= Len(p),
         \A k \in 1 .. Len(q) : q[k] = p[k],
         NEW f, NEW g, Resolves(t, p, f), Resolves(t, q, g)
  PROVE  \A k \in 0 .. Len(q) : g[k] = f[k]
<1> DEFINE P == {m \in 0 .. Len(q) : g[m] = f[m]}
<1>1. Len(q) \in Nat /\ \A k \in 0 .. Len(q) : k \in 0 .. Len(p) /\ (k > 1 => q[k] = p[k])
  OBVIOUS
<1>2. 0 \in P
  BY <1>1 DEF Resolves
<1>3. ASSUME NEW m \in 0 .. Len(q) - 1, m \in P PROVE m + 1 \in P
  <2>0. m + 1 \in 0 .. Len(q) /\ (m + 1) - 1 = m /\ m + 1 \in Nat
    BY <1>1
  <2>1. g[m] = f[m] /\ m + 1 \in 0 .. Len(p) /\ (m + 1 <= 1 \/ q[m + 1] = p[m + 1])
    BY <1>1, <1>3, <2>0
  <2>2. g[m + 1] = IF m + 1 <= 1 THEN Origin ELSE Enter(t, g[m], q[m + 1])
    BY <2>0 DEF Resolves
  <2>3. f[m + 1] = IF m + 1 <= 1 THEN Origin ELSE Enter(t, f[m], p[m + 1])
    BY <2>0, <2>1 DEF Resolves
  <2> QED
    BY <2>0, <2>1, <2>2, <2>3
<1> HIDE DEF P
<1>4. \A m \in 0 .. Len(q) : m \in P
  BY <1>1, <1>2, <1>3, InductionUpTo
<1> QED
  BY <1>4 DEF P

(* No more links are followed than may be.                                 *)
LEMMA LinksBounded ==
  ASSUME NEW t, NEW p \in Seq(STRING), NEW f, Resolves(t, p, f)
  PROVE  \A k \in 0 .. Len(p) : f[k].links <= MaxLinks
<1> DEFINE P == {m \in 0 .. Len(p) : f[m].links <= MaxLinks}
<1>1. Len(p) \in Nat /\ MaxLinks \in Nat /\ Origin.links = 0 /\ 0 \in 0 .. Len(p)
  BY FileTreeAssumption DEF Origin
<1>2. 0 \in P
  BY <1>1 DEF Resolves
<1>3. ASSUME NEW m \in 0 .. Len(p) - 1, m \in P PROVE m + 1 \in P
  <2>0. m + 1 \in 0 .. Len(p) /\ (m + 1) - 1 = m /\ m \in 0 .. Len(p)
    BY <1>1
  <2>1. f[m + 1] = IF m + 1 <= 1 THEN Origin ELSE Enter(t, f[m], p[m + 1])
    BY <2>0 DEF Resolves
  <2>2. f[m] \in Spots /\ f[m].links \in Nat /\ f[m].links <= MaxLinks
    BY <1>3, <2>0 DEF Resolves, Spots
  <2>3. Enter(t, f[m], p[m + 1]).links <= MaxLinks
    BY <1>1, <2>2 DEF Enter, Spots
  <2> QED
    BY <1>1, <2>0, <2>1, <2>3
<1> HIDE DEF P
<1>4. \A m \in 0 .. Len(p) : m \in P
  BY <1>1, <1>2, <1>3, InductionUpTo
<1> QED
  BY <1>4 DEF P

(* Where a path leads, and over how many links.                            *)
SpotAt(t, p) == (CHOOSE f : Resolves(t, p, f))[Len(p)]

(* It leads there over no more links than the kernel follows, and the root *)
(* over none.                                                              *)
LEMMA Spotted ==
  ASSUME NEW t, IsTree(t), NEW p \in Seq(STRING)
  PROVE  /\ SpotAt(t, p) \in Spots /\ SpotAt(t, p).path = Canonical(t, p)
         /\ SpotAt(t, p).links \in Nat /\ SpotAt(t, p).links <= MaxLinks
         /\ Len(p) <= 1 => SpotAt(t, p) = Origin
<1>1. PICK f : Resolves(t, p, f) /\ Canonical(t, p) = f[Len(p)].path
  BY Resolving
<1> DEFINE g == CHOOSE h : Resolves(t, p, h)
<1>2. Resolves(t, p, g)
  BY <1>1
<1>3. SpotAt(t, p) = g[Len(p)]
  BY DEF SpotAt
<1> HIDE DEF g
<1>4. Len(p) \in Nat /\ Len(p) \in 0 .. Len(p)
  OBVIOUS
<1>5. g[Len(p)] = f[Len(p)]
  BY <1>1, <1>2, <1>4, ResolvesPrefix
<1>6. g[Len(p)] \in Spots /\ g[Len(p)].links <= MaxLinks
  BY <1>2, <1>4, LinksBounded DEF Resolves
<1>7. Len(p) <= 1 => g[Len(p)] = Origin
  BY <1>2, <1>4 DEF Resolves
<1> QED
  BY <1>1, <1>3, <1>5, <1>6, <1>7 DEF Spots

(* A path's last name is entered from where the others lead.               *)
LEMMA SpotNext ==
  ASSUME NEW t, IsTree(t), NEW d \in Seq(STRING), d # NoPath, NEW n \in STRING
  PROVE  SpotAt(t, Append(d, n)) = Enter(t, SpotAt(t, d), n)
<1> DEFINE p == Append(d, n)
<1>1. /\ p \in Seq(STRING) /\ Len(p) = Len(d) + 1 /\ Len(d) \in Nat /\ p[Len(d) + 1] = n
      /\ \A k \in 1 .. Len(d) : p[k] = d[k]
  <2>1. p \in Seq(STRING)
    BY AppendOne
  <2>2. Len(p) = Len(d) + 1 /\ Len(d) \in Nat
    BY AppendOne
  <2>3. p[Len(d) + 1] = n
    BY AppendOne
  <2>4. \A k \in 1 .. Len(d) : p[k] = d[k]
    BY AppendOne
  <2> QED
    BY <2>1, <2>2, <2>3, <2>4
<1>2. Len(d) # 0
  BY DEF NoPath
<1> HIDE DEF p
<1>3. \E f : Resolves(t, p, f)
  BY <1>1, Resolving
<1>4. \E g : Resolves(t, d, g)
  BY Resolving
<1> DEFINE f == CHOOSE h : Resolves(t, p, h)
           g == CHOOSE h : Resolves(t, d, h)
<1>5. Resolves(t, p, f) /\ Resolves(t, d, g)
  BY <1>3, <1>4
<1>6. SpotAt(t, p) = f[Len(p)] /\ SpotAt(t, d) = g[Len(d)]
  BY DEF SpotAt
<1> HIDE DEF f, g
<1>7. Len(d) <= Len(p) /\ Len(d) \in 0 .. Len(d) /\ Len(p) \in 0 .. Len(p) /\ ~(Len(p) <= 1)
      /\ Len(p) - 1 = Len(d)
  BY <1>1, <1>2
<1>8. g[Len(d)] = f[Len(d)]
  <2>1. \A k \in 0 .. Len(d) : g[k] = f[k]
    <3>1. Len(d) <= Len(p) /\ \A k \in 1 .. Len(d) : d[k] = p[k]
      BY <1>1, <1>7
    <3>2. p \in Seq(STRING) /\ d \in Seq(STRING)
      BY <1>1
    <3>3. \A x, y \in Seq(STRING) :
            Len(y) <= Len(x) /\ (\A k \in 1 .. Len(y) : y[k] = x[k])
              /\ Resolves(t, x, f) /\ Resolves(t, y, g) =>
                 \A k \in 0 .. Len(y) : g[k] = f[k]
      BY ResolvesPrefix
    <3> QED
      BY <1>5, <3>1, <3>2, <3>3
  <2> QED
    BY <1>7, <2>1
<1>9. f[Len(p)] = Enter(t, f[Len(p) - 1], p[Len(p)])
  BY <1>5, <1>7 DEF Resolves
<1> QED
  BY <1>1, <1>6, <1>7, <1>8, <1>9 DEF p

(* A path is what comes before its last name, and that.                   *)
LEMMA PathParts ==
  ASSUME NEW S, NEW p \in Seq(S), p # <<>>
  PROVE  /\ Front(p) \in Seq(S) /\ Last(p) \in S /\ p = Append(Front(p), Last(p))
         /\ Len(p) = Len(Front(p)) + 1 /\ Len(Front(p)) \in Nat
         /\ \A k \in 1 .. Len(Front(p)) : Front(p)[k] = p[k]
<1> DEFINE q == SubSeq(p, 1, Len(p) - 1)
<1>1. Len(p) \in Nat \ {0} /\ p[Len(p)] \in S
  OBVIOUS
<1>2. q \in Seq(S) /\ Len(q) = Len(p) - 1 /\ \A k \in 1 .. Len(p) - 1 : q[k] = p[k]
  <2>1. \A m \in 0 .. Len(p) : /\ SubSeq(p, 1, m) \in Seq(S) /\ Len(SubSeq(p, 1, m)) = m
                               /\ \A k \in 1 .. m : SubSeq(p, 1, m)[k] = p[k]
    OBVIOUS
  <2>2. Len(p) - 1 \in 0 .. Len(p)
    BY <1>1
  <2> HIDE DEF q
  <2> QED
    BY <2>1, <2>2 DEF q
<1> HIDE DEF q
<1>3. p = Append(q, p[Len(p)])
  BY <1>1, <1>2
<1> QED
  BY <1>1, <1>2, <1>3 DEF Front, Last, q

(* Nowhere is no node, and only the root has no directory.                 *)
LEMMA TreePaths ==
  ASSUME NEW t, IsTree(t)
  PROVE  /\ NoPath \notin DOMAIN t
         /\ \A p \in DOMAIN t : p \in Seq(STRING) /\ p # NoPath
<1>1. Front(NoPath) = NoPath
  BY DEF Front, NoPath
<1>2. NoPath # <<"/">>
  BY DEF NoPath
<1>3. NoPath \notin DOMAIN t
  BY <1>1, <1>2 DEF IsTree
<1> QED
  BY <1>3 DEF IsTree

(* The root leads to itself.                                               *)
LEMMA RootSpot ==
  ASSUME NEW t, IsTree(t)
  PROVE  /\ SpotAt(t, <<"/">>) = Origin /\ SpotAt(t, NoPath) = Origin
         /\ Canonical(t, <<"/">>) = <<"/">> /\ Canonical(t, NoPath) = <<"/">>
<1>1. <<"/">> \in Seq(STRING) /\ Len(<<"/">>) <= 1 /\ NoPath \in Seq(STRING) /\ Len(NoPath) <= 1
  <2>1. <<"/">> \in Seq(STRING)
    BY DEF IsTree
  <2> QED
    BY <2>1 DEF NoPath
<1>2. SpotAt(t, <<"/">>) = Origin /\ SpotAt(t, NoPath) = Origin
  BY <1>1, Spotted
<1>3. Canonical(t, <<"/">>) = Origin.path /\ Canonical(t, NoPath) = Origin.path
  BY <1>1, <1>2, Spotted
<1> QED
  BY <1>2, <1>3 DEF Origin

(* A node that is no link is where its path leads, over no links.          *)
LEMMA SelfSpot ==
  ASSUME NEW t, IsTree(t), NEW p \in DOMAIN t, t[p].kind # "link"
  PROVE  SpotAt(t, p) = [path |-> p, links |-> 0]
<1> DEFINE Good(m) == \A q \in DOMAIN t : Len(q) = m /\ t[q].kind # "link"
                                            => SpotAt(t, q) = [path |-> q, links |-> 0]
           P == {m \in Nat : Good(m)}
<1>1. \A q \in DOMAIN t : q \in Seq(STRING) /\ q # NoPath /\ Len(q) \in Nat
  BY TreePaths
<1>2. 0 \in P
  BY <1>1 DEF NoPath
<1>3. ASSUME NEW m \in Nat, m \in P PROVE m + 1 \in P
  <2> SUFFICES ASSUME NEW q \in DOMAIN t, Len(q) = m + 1, t[q].kind # "link"
               PROVE  SpotAt(t, q) = [path |-> q, links |-> 0]
    OBVIOUS
  <2>1. /\ Front(q) \in Seq(STRING) /\ Last(q) \in STRING /\ q = Append(Front(q), Last(q))
        /\ Len(q) = Len(Front(q)) + 1 /\ Len(Front(q)) \in Nat
    BY <1>1, PathParts DEF NoPath
  <2>2. CASE Front(q) = NoPath
    <3>1. q = <<"/">>
      BY <2>2 DEF IsTree
    <3> QED
      BY <3>1, RootSpot DEF Origin
  <2>3. CASE Front(q) # NoPath
    <3>1. Front(q) \in DOMAIN t /\ t[Front(q)].kind = "dir" /\ Len(Front(q)) = m
      BY <2>1, <2>3 DEF IsTree
    <3>2. SpotAt(t, Front(q)) = [path |-> Front(q), links |-> 0]
      BY <1>3, <3>1
    <3>3. SpotAt(t, Append(Front(q), Last(q))) = Enter(t, SpotAt(t, Front(q)), Last(q))
      BY <2>1, <2>3, SpotNext
    <3>4. SpotAt(t, q) = Enter(t, [path |-> Front(q), links |-> 0], Last(q))
      BY <2>1, <3>2, <3>3
    <3>5. Append(Front(q), Last(q)) \in DOMAIN t /\ t[Append(Front(q), Last(q))].kind # "link"
      BY <2>1
    <3>6. Enter(t, [path |-> Front(q), links |-> 0], Last(q))
            = [[path |-> Front(q), links |-> 0] EXCEPT !.path = Append(Front(q), Last(q))]
      BY <2>3, <3>5 DEF Enter
    <3> QED
      BY <2>1, <3>4, <3>6
  <2> QED
    BY <2>2, <2>3
<1> HIDE DEF P
<1>4. \A m \in Nat : m \in P
  BY <1>2, <1>3, InductionOnSet
<1> QED
  BY <1>1, <1>4 DEF P

(* So canonical paths are.                                                 *)
LEMMA SelfCanonical ==
  ASSUME NEW t, IsTree(t), NEW p \in DOMAIN t, t[p].kind # "link"
  PROVE  Canonical(t, p) = p /\ NodeAt(t, p) = t[p]
<1>1. p \in Seq(STRING) /\ p # NoPath
  BY TreePaths
<1>2. Canonical(t, p) = p
  BY <1>1, SelfSpot, Spotted
<1> QED
  BY <1>1, <1>2 DEF NodeAt

(* What is found by a name in a directory is found by it where the         *)
(* directory really is.                                                    *)
LEMMA FoundInReal ==
  ASSUME NEW t, IsTree(t), NEW d \in Seq(STRING), d # NoPath, NEW n \in STRING,
         Canonical(t, Append(d, n)) # NoPath
  PROVE  /\ Canonical(t, d) \in DOMAIN t /\ t[Canonical(t, d)].kind = "dir"
         /\ Append(Canonical(t, d), n) \in DOMAIN t
         /\ Canonical(t, Append(Canonical(t, d), n)) = Canonical(t, Append(d, n))
         /\ t[Append(Canonical(t, d), n)].kind # "link" =>
              Canonical(t, Append(d, n)) = Append(Canonical(t, d), n)
<1> DEFINE c == Canonical(t, d)
           p == Append(c, n)
<1>1. /\ SpotAt(t, d) \in Spots /\ SpotAt(t, d).path = c
      /\ SpotAt(t, d).links \in Nat /\ SpotAt(t, d).links <= MaxLinks
  BY Spotted
<1>2. Append(d, n) \in Seq(STRING)
  BY AppendOne
<1>3. /\ SpotAt(t, Append(d, n)).path = Canonical(t, Append(d, n))
      /\ SpotAt(t, Append(d, n)) = Enter(t, SpotAt(t, d), n)
  BY <1>2, Spotted, SpotNext
<1>4. Enter(t, SpotAt(t, d), n).path # NoPath
  BY <1>3
<1>5. c # NoPath /\ p \in DOMAIN t
  <2> HIDE DEF c
  <2> QED
    BY <1>1, <1>4 DEF Enter, Spots
<1>6. c \in KnownIn(t)
  BY CanonicalKnown
<1>7. c \in DOMAIN t /\ c \in Seq(STRING)
  BY <1>5, <1>6, TreePaths DEF KnownIn
<1> HIDE DEF c
<1>8. Front(p) = c
  BY <1>7, PathEntry
<1>9. t[c].kind = "dir"
  BY <1>5, <1>8 DEF IsTree
<1>10. SpotAt(t, c) = [path |-> c, links |-> 0]
  BY <1>7, <1>9, SelfSpot
<1>11. SpotAt(t, p) = Enter(t, [path |-> c, links |-> 0], n)
  BY <1>5, <1>7, <1>10, SpotNext
<1>12. Canonical(t, p) = SpotAt(t, p).path
  BY <1>5, TreePaths, Spotted
<1>13. CASE t[p].kind # "link"
  <2>1. Enter(t, [path |-> c, links |-> 0], n).path = p
    BY <1>5, <1>13 DEF Enter
  <2>2. Enter(t, SpotAt(t, d), n).path = p
    BY <1>1, <1>5, <1>13 DEF Enter, Spots
  <2> QED
    BY <1>3, <1>5, <1>7, <1>9, <1>11, <1>12, <2>1, <2>2 DEF c
<1>14. CASE t[p].kind = "link"
  <2>1. SpotAt(t, d).links # MaxLinks /\ Enter(t, SpotAt(t, d), n).path = t[p].to
    BY <1>1, <1>4, <1>5, <1>14 DEF Enter, Spots
  <2>2. MaxLinks # 0
    BY <1>1, <2>1, FileTreeAssumption
  <2>3. Enter(t, [path |-> c, links |-> 0], n).path = t[p].to
    BY <1>5, <1>14, <2>2 DEF Enter
  <2> QED
    BY <1>3, <1>5, <1>7, <1>9, <1>11, <1>12, <1>14, <2>1, <2>3 DEF c
<1> QED
  BY <1>13, <1>14

(* A path whose last name is no link leads to itself.                      *)
LEMMA UnfollowedNode ==
  ASSUME NEW t, IsTree(t), NEW p \in Seq(STRING), p # NoPath, IsAbsolute(p),
         LinkKind(t, p) \notin {"link", "none"}
  PROVE  /\ Unfollowed(t, p) \in DOMAIN t /\ Canonical(t, p) = Unfollowed(t, p)
         /\ NodeAt(t, p) = t[Unfollowed(t, p)] /\ t[Unfollowed(t, p)].kind = LinkKind(t, p)
<1>1. Unfollowed(t, p) \in DOMAIN t /\ t[Unfollowed(t, p)].kind = LinkKind(t, p)
  BY DEF LinkKind
<1>2. Unfollowed(t, p) # NoPath
  BY <1>1, TreePaths
<1>3. /\ Front(p) \in Seq(STRING) /\ Last(p) \in STRING /\ p = Append(Front(p), Last(p))
      /\ Len(p) = Len(Front(p)) + 1 /\ Len(Front(p)) \in Nat
  BY PathParts DEF NoPath
<1>4. Canonical(t, p) = Unfollowed(t, p)
  <2>1. CASE p = <<"/">>
    <3>1. Front(p) = NoPath
      BY <1>3, <2>1 DEF NoPath
    <3> QED
      BY <2>1, <3>1, RootSpot DEF Unfollowed
  <2>2. CASE p # <<"/">>
    <3>1. Front(p) # NoPath
      <4>1. SUFFICES ASSUME Front(p) = NoPath PROVE FALSE
        OBVIOUS
      <4>2. Len(p) = 1 /\ p[1] = "/"
        BY <1>3, <4>1 DEF NoPath, IsAbsolute
      <4>3. p = <<"/">>
        BY <4>2
      <4> QED
        BY <2>2, <4>3
    <3> DEFINE c == Canonical(t, Front(p))
    <3>2. Unfollowed(t, p) = Append(c, Last(p)) /\ c # NoPath
      BY <1>2, <2>2 DEF Unfollowed
    <3>3. c \in KnownIn(t)
      BY <1>3, CanonicalKnown
    <3>4. SpotAt(t, Front(p)) \in Spots /\ SpotAt(t, Front(p)).path = c
      BY <1>3, Spotted
    <3>5. SpotAt(t, Append(Front(p), Last(p))) = Enter(t, SpotAt(t, Front(p)), Last(p))
      BY <1>3, <3>1, SpotNext
    <3>6. SpotAt(t, p).path = Canonical(t, p)
      BY Spotted
    <3> HIDE DEF c
    <3>7. Enter(t, SpotAt(t, Front(p)), Last(p)).path = Append(c, Last(p))
      BY <1>1, <3>2, <3>4 DEF Enter, Spots
    <3>8. SpotAt(t, p) = Enter(t, SpotAt(t, Front(p)), Last(p))
      BY <1>3, <3>5
    <3> QED
      BY <3>2, <3>6, <3>7, <3>8
  <2> QED
    BY <2>1, <2>2
<1> QED
  BY <1>1, <1>2, <1>4 DEF NodeAt

-----------------------------------------------------------------------------
(* What is reachable are paths.                                            *)
LEMMA ReachablePaths ==
  ASSUME NEW w \in Worlds
  PROVE  \A r \in Reachable(w) : r[1] \in Seq(STRING)
<1> DEFINE S == {r \in Reachable(w) : r[1] \in Seq(STRING)}
<1>1. IsTree(w.fs) /\ w.paths \in Seq(Seq(STRING)) /\ w.libs \in Seq(Seq(STRING))
  BY LibCacheAssumption
<1>2. GivenRoots(w) \subseteq S
  <2>1. \A p \in ToSet(w.libs) \cup ToSet(w.paths) : p \in Seq(STRING)
    BY <1>1 DEF ToSet
  <2>2. \A r \in GivenRoots(w) : \E p \in ToSet(w.libs) \cup ToSet(w.paths) : r[1] = p
    <3>1. PICK no : no = FALSE
      OBVIOUS
    <3>2. {<<p, FALSE>> : p \in ToSet(w.libs)} = {<<p, no>> : p \in ToSet(w.libs)}
      BY <3>1
    <3>3. \A r \in GivenRoots(w) :
            \/ \E p \in ToSet(w.libs) : r = <<p, no>>
            \/ \E p \in ToSet(w.paths) : r = <<p, w.recursive>>
      BY <3>2 DEF GivenRoots
    <3> QED
      BY <3>3
  <2> QED
    BY <2>1, <2>2, RootsReachable
<1>3. ASSUME NEW r \in S PROVE Onward(w, r) \subseteq S
  <2> SUFFICES ASSUME NEW s \in Onward(w, r) PROVE s[1] \in Seq(STRING) /\ s \in Reachable(w)
    OBVIOUS
  <2>1. s \in Reachable(w)
    BY FathomedAssumption DEF Fathomed
  <2>2. PICK d : /\ s = <<d, r[2]>>
                 /\ d \in Subdirs(w, r[1]) \/ \E p \in Objects(w, r[1]) : d \in RunPathDirs(w, p)
    BY DEF Onward
  <2>3. CASE d \in Subdirs(w, r[1])
    <3>1. PICK n \in Names(w.fs, r[1]) : d = Append(r[1], n)
      BY <2>3 DEF Subdirs
    <3>2. d \in Seq(STRING)
      BY <1>1, <3>1, NamePath
    <3> QED
      BY <2>1, <2>2, <3>2
  <2>4. CASE \E p \in Objects(w, r[1]) : d \in RunPathDirs(w, p)
    <3>1. PICK p \in Objects(w, r[1]) : d \in RunPathDirs(w, p)
      BY <2>4
    <3>2. NodeAt(w.fs, p).kind = "elf" /\ d \in ToSet(NodeAt(w.fs, p).runpath)
      BY <3>1 DEF Objects, Usable, RunPathDirs
    <3>3. p \in Seq(STRING)
      <4>1. p = r[1] \/ \E n \in Names(w.fs, r[1]) : p = Append(r[1], n)
        BY <3>1 DEF Objects
      <4> QED
        BY <1>1, <4>1, NamePath
    <3>4. Canonical(w.fs, p) \in KnownIn(w.fs)
      BY <1>1, <3>3, CanonicalKnown
    <3>5. NodeAt(w.fs, p).runpath \in Seq(Seq(STRING))
      BY <1>1, <3>2, <3>4 DEF NodeAt, KnownIn, IsTree
    <3>6. d \in Seq(STRING)
      BY <3>2, <3>5 DEF ToSet
    <3> QED
      BY <2>1, <2>2, <3>6
  <2> QED
    BY <2>2, <2>3, <2>4
<1>4. Reachable(w) \subseteq S
  <2> HIDE DEF S
  <2> QED
    BY <1>2, <1>3, ReachableLeast
<1> QED
  BY <1>4

(* A library is found by its name in its directory.                        *)
Provides(t, l) ==
  /\ l.name \in STRING /\ l.dir \in Seq(STRING) /\ l.dir # NoPath
  /\ LET lib == NodeAt(t, Append(l.dir, l.name))
     IN lib.kind = "elf" /\ lib.arch = l.arch /\ lib.osabi = l.osabi

(* Every library that the roots lead to provides its name.                 *)
LEMMA LibraryProvides ==
  ASSUME NEW w \in Worlds, NEW l \in Libraries(w)
  PROVE  Provides(w.fs, l)
<1> DEFINE t == w.fs
<1>1. IsTree(t)
  BY LibCacheAssumption
<1>2. PICK r \in Reachable(w) : \E p \in Objects(w, r[1]) : l = Described(w, p)
  BY DEF Libraries
<1>3. PICK p \in Objects(w, r[1]) : l = Described(w, p)
  BY <1>2
<1>4. p \in Seq(STRING)
  <2>1. r[1] \in Seq(STRING)
    BY ReachablePaths
  <2>2. p = r[1] \/ \E n \in Names(w.fs, r[1]) : p = Append(r[1], n)
    BY <1>3 DEF Objects
  <2> QED
    BY <1>1, <2>1, <2>2, NamePath
<1>5. NodeAt(t, p).kind = "elf"
  BY <1>3 DEF Objects, Usable
<1> HIDE DEF t
<1>6. Canonical(t, p) # NoPath /\ t[Canonical(t, p)].kind = "elf"
  BY <1>5 DEF NodeAt
<1>7. Canonical(t, p) # <<"/">>
  BY <1>1, <1>6 DEF IsTree
<1>8. p # NoPath
  BY <1>1, <1>7, RootSpot
<1>9. Front(p) \in Seq(STRING) /\ Last(p) \in STRING /\ p = Append(Front(p), Last(p))
      /\ Len(p) = Len(Front(p)) + 1 /\ Len(Front(p)) \in Nat
  BY <1>4, <1>8, PathParts DEF NoPath
<1>10. Front(p) # NoPath
  <2> SUFFICES ASSUME Front(p) = NoPath PROVE FALSE
    OBVIOUS
  <2>1. Len(p) <= 1
    BY <1>9 DEF NoPath
  <2>2. Canonical(t, p) = <<"/">>
    BY <1>1, <1>4, <2>1, Spotted DEF Origin
  <2> QED
    BY <1>7, <2>2
<1>11. Canonical(t, Append(Front(p), Last(p))) # NoPath
  BY <1>6, <1>9
<1>12. /\ Canonical(t, Front(p)) \in DOMAIN t
       /\ Canonical(t, Append(Canonical(t, Front(p)), Last(p))) = Canonical(t, p)
  <2> DEFINE d == Front(p)
             n == Last(p)
  <2>1. d \in Seq(STRING) /\ d # NoPath /\ n \in STRING
    BY <1>9, <1>10
  <2>2. Canonical(t, Append(d, n)) # NoPath
    BY <1>11
  <2> HIDE DEF d, n
  <2>3. /\ Canonical(t, d) \in DOMAIN t
        /\ Canonical(t, Append(Canonical(t, d), n)) = Canonical(t, Append(d, n))
    BY <1>1, <2>1, <2>2, FoundInReal
  <2>4. p = Append(d, n)
    BY <1>9 DEF d, n
  <2> QED
    BY <2>3, <2>4 DEF d, n
<1>13. NodeAt(t, Append(Canonical(t, Front(p)), Last(p))) = NodeAt(t, p)
  BY <1>12 DEF NodeAt
<1>14. Canonical(t, Front(p)) \in Seq(STRING) /\ Canonical(t, Front(p)) # NoPath
  BY <1>1, <1>12, TreePaths
<1>15. /\ l.name = Last(p) /\ l.dir = Canonical(t, Front(p))
       /\ l.arch = NodeAt(t, p).arch /\ l.osabi = NodeAt(t, p).osabi
  BY <1>3 DEF Described, t
<1> QED
  BY <1>5, <1>9, <1>13, <1>14, <1>15 DEF Provides, t

(* And still is when files have been patched.                              *)
LEMMA StillProvides ==
  ASSUME NEW t, NEW u, IsTree(t), Alike(t, u), NEW l, Provides(t, l)
  PROVE  Provides(u, l)
<1> DEFINE p == Append(l.dir, l.name)
<1>1. l.name \in STRING /\ l.dir \in Seq(STRING) /\ l.dir # NoPath
      /\ NodeAt(t, p).kind = "elf" /\ NodeAt(t, p).arch = l.arch /\ NodeAt(t, p).osabi = l.osabi
  BY DEF Provides
<1>2. p \in Seq(STRING)
  BY <1>1, AppendOne
<1> HIDE DEF p
<1>3. SameBut(NodeAt(t, p), NodeAt(u, p)) /\ NodeAt(u, p).kind = "elf"
  BY <1>1, <1>2, AlikeNode
<1> QED
  BY <1>1, <1>3 DEF Provides, SameBut, p

-----------------------------------------------------------------------------
(* What the cache is asked for: the directory of a library indexed.        *)
Answers(i, name, arch, osabi) ==
  index[i].name = name /\ index[i].arch = arch /\ OsabiCompatible(osabi, index[i].osabi)

(* Cache::find answers with one of those libraries, or there is none.      *)
LEMMA FindDirIs ==
  ASSUME IsSeq(index), NEW name, NEW arch, NEW osabi
  PROVE  \/ /\ FindDir(name, arch, osabi) = NoPath
            /\ \A i \in DOMAIN index : ~Answers(i, name, arch, osabi)
         \/ \E i \in DOMAIN index : /\ Answers(i, name, arch, osabi)
                                    /\ FindDir(name, arch, osabi) = index[i].dir
<1> DEFINE S == {i \in Entries(name, arch) : OsabiCompatible(osabi, index[i].osabi)}
<1>1. DOMAIN index \subseteq Nat
  <2>1. IsList(index)
    BY IsSeqList
  <2>2. DOMAIN index = 1 .. Len(index)
    BY <2>1, ListSeq
  <2> QED
    BY <2>1, <2>2 DEF IsList
<1>2. \A i : i \in S <=> i \in DOMAIN index /\ Answers(i, name, arch, osabi)
  BY DEF Entries, Answers
<1>3. FindDir(name, arch, osabi) = IF S = {} THEN NoPath ELSE index[Min(S)].dir
  BY DEF FindDir, First
<1> HIDE DEF S
<1>4. CASE S = {}
  BY <1>2, <1>3, <1>4
<1>5. CASE S # {}
  <2>1. Min(S) \in S
    BY <1>1, <1>2, <1>5, MinOf
  <2> QED
    BY <1>2, <1>3, <1>5, <2>1
<1> QED
  BY <1>4, <1>5

(* The first alternative that is found, if any, gives the directory.       *)
LEMMA FirstFound ==
  ASSUME NEW S, NEW alts \in Seq(S), NEW elf
  PROVE  \/ /\ DirsFor(elf, alts) = <<>>
            /\ ~FoundAny(elf, alts)
         \/ \E k \in DOMAIN alts :
              /\ Found(elf, alts[k]) /\ \A j \in DOMAIN alts : j < k => ~Found(elf, alts[j])
              /\ DirsFor(elf, alts)
                   = IF AtHand(elf, alts[k]) \/ CacheDir(elf, alts[k]) = NoPath THEN <<>>
                     ELSE <<CacheDir(elf, alts[k])>>
<1> DEFINE I == {i \in 1 .. Len(alts) : Found(elf, alts[i])}
           first == SelectInSeq(alts, LAMBDA cand : Found(elf, cand))
<1>1. first = IF I # {} THEN Min(I) ELSE 0
  BY DEF SelectInSeq
<1>2. DOMAIN alts = 1 .. Len(alts) /\ I \subseteq Nat
  OBVIOUS
<1>3. DirsFor(elf, alts)
        = IF first = 0 \/ AtHand(elf, alts[first]) \/ CacheDir(elf, alts[first]) = NoPath THEN <<>>
          ELSE <<CacheDir(elf, alts[first])>>
  BY DEF DirsFor
<1>4. \A i : i \in I <=> i \in DOMAIN alts /\ Found(elf, alts[i])
  BY <1>2
<1> HIDE DEF I, first
<1>5. CASE I = {}
  <2>1. ~FoundAny(elf, alts)
    BY <1>4, <1>5 DEF FoundAny
  <2> QED
    BY <1>1, <1>3, <1>5, <2>1
<1>6. CASE I # {}
  <2>1. Min(I) \in I /\ \A y \in I : Min(I) <= y
    BY <1>2, <1>6, MinOf
  <2>2. first \in I /\ first # 0 /\ \A y \in I : ~(y < first)
    BY <1>1, <1>2, <1>4, <1>6, <2>1
  <2> QED
    BY <1>3, <1>4, <2>2
<1> QED
  BY <1>5, <1>6

-----------------------------------------------------------------------------
(* The index, as the tree is now.                                          *)
IndexProvides == IsSeq(index) /\ \A i \in DOMAIN index : Provides(fs, index[i])

(* It gives directories.                                                   *)
LEMMA CacheDirType ==
  ASSUME IndexProvides, NEW elf, NEW cand
  PROVE  CacheDir(elf, cand) \in Seq(STRING)
<1>1. NoPath \in Seq(STRING)
  BY DEF NoPath
<1>2. \A i \in DOMAIN index : index[i].dir \in Seq(STRING)
  BY DEF IndexProvides, Provides
<1>3. FindDir(cand[1], elf.arch, elf.osabi) = NoPath
      \/ \E i \in DOMAIN index : FindDir(cand[1], elf.arch, elf.osabi) = index[i].dir
  BY FindDirIs DEF IndexProvides
<1> QED
  BY <1>1, <1>2, <1>3 DEF CacheDir

(* At most one directory for a dependency.                                 *)
LEMMA DirsForType ==
  ASSUME IndexProvides, NEW S, NEW alts \in Seq(S), NEW elf
  PROVE  DirsFor(elf, alts) \in Seq(Seq(STRING))
<1> DEFINE P == Seq(STRING)
<1>1. \A cand : CacheDir(elf, cand) \in P
  BY CacheDirType
<1> HIDE DEF P
<1>2. DirsFor(elf, alts) = <<>> \/ \E k \in DOMAIN alts : DirsFor(elf, alts) = <<CacheDir(elf, alts[k])>>
  BY FirstFound
<1>3. DirsFor(elf, alts) \in Seq(P)
  <2>1. CASE DirsFor(elf, alts) = <<>>
    BY <2>1
  <2>2. CASE \E k \in DOMAIN alts : DirsFor(elf, alts) = <<CacheDir(elf, alts[k])>>
    <3>1. PICK k \in DOMAIN alts : DirsFor(elf, alts) = <<CacheDir(elf, alts[k])>>
      BY <2>2
    <3> DEFINE d == CacheDir(elf, alts[k])
    <3>2. d \in P /\ DirsFor(elf, alts) = <<d>>
      BY <1>1, <3>1
    <3> HIDE DEF d
    <3> QED
      BY <3>2
  <2> QED
    BY <1>2, <2>1, <2>2
<1> QED
  BY <1>3 DEF P

(* The dependencies of a file.                                             *)
LEMMA DepsSet ==
  ASSUME NEW elf \in Elves
  PROVE  /\ Deps(elf) \in Seq(Seq(Sonames))
         /\ ToSet(Deps(elf)) = {<<n>> : n \in ToSet(elf.needed)} \cup ToSet(elf.dlopen)
         /\ \A d \in ToSet(Deps(elf)) : d \in Seq(Sonames)
<1> DEFINE V == Seq(Sonames)
           a == [i \in DOMAIN elf.needed |-> <<elf.needed[i]>>]
           m == Len(elf.needed)
<1>1. elf.needed \in Seq(Sonames) /\ elf.dlopen \in Seq(V)
  BY SameButElf
<1>2. m \in Nat /\ DOMAIN elf.needed = 1 .. m /\ \A i \in 1 .. m : elf.needed[i] \in Sonames
  BY <1>1
<1>3. a \in [1 .. m -> V]
  <2>1. \A i \in 1 .. m : <<elf.needed[i]>> \in Seq(Sonames)
    BY <1>2
  <2> HIDE DEF m
  <2> QED
    BY <1>2, <2>1
<1>4. \A i \in 1 .. m : a[i] = <<elf.needed[i]>>
  BY <1>2
<1>5. Deps(elf) = a \o elf.dlopen
  BY DEF Deps
<1> HIDE DEF V, a, m
<1>6. a \in Seq(V) /\ DOMAIN a = 1 .. m
  BY <1>2, <1>3, ListOver
<1>7. Deps(elf) \in Seq(V)
  BY <1>1, <1>5, <1>6
<1>8. IsSeq(a) /\ IsSeq(elf.dlopen)
  BY <1>1, <1>6, SeqIsSeq
<1>9. ToSet(Deps(elf)) = ToSet(a) \cup ToSet(elf.dlopen)
  BY <1>5, <1>8, JoinSet
<1>10. ToSet(a) = {<<n>> : n \in ToSet(elf.needed)}
  BY <1>2, <1>4, <1>6 DEF ToSet
<1>11. \A d \in ToSet(Deps(elf)) : d \in V
  BY <1>7 DEF ToSet
<1> QED
  BY <1>7, <1>9, <1>10, <1>11 DEF V

(* Its run path: the directories asked for, and those of its dependencies. *)
LEMMA RunPathSet ==
  ASSUME IndexProvides, world \in Worlds, NEW elf \in Elves
  PROVE  /\ RunPath(elf) \in Seq(Seq(STRING))
         /\ ToSet(RunPath(elf))
              = (IF elf.interp = NoPath THEN {} ELSE ToSet(world.runtime))
                  \cup (UNION {ToSet(DirsFor(elf, d)) : d \in ToSet(Deps(elf))})
                  \cup ToSet(world.append)
         /\ \A k, l \in DOMAIN RunPath(elf) : RunPath(elf)[k] = RunPath(elf)[l] => k = l
<1> DEFINE P == Seq(STRING)
           V == Seq(P)
           deps == Deps(elf)
           n == Len(deps)
           seqs == [i \in DOMAIN deps |-> DirsFor(elf, deps[i])]
           r == IF elf.interp # NoPath THEN world.runtime ELSE <<>>
           all == r \o FlattenSeq(seqs) \o world.append
<1>1. world.runtime \in V /\ world.append \in V
  BY AutoAssumption
<1>2. deps \in Seq(Seq(Sonames))
  BY DepsSet
<1>3. n \in Nat /\ DOMAIN deps = 1 .. n /\ \A i \in 1 .. n : deps[i] \in Seq(Sonames)
  <2> DEFINE W == Seq(Sonames)
  <2>1. deps \in Seq(W)
    BY <1>2
  <2> HIDE DEF W, deps
  <2>2. n \in Nat /\ DOMAIN deps = 1 .. n /\ \A i \in 1 .. n : deps[i] \in W
    BY <2>1
  <2> QED
    BY <2>2 DEF W
<1>4. RunPath(elf) = JoinRpaths[all]
  BY DEF RunPath
<1> HIDE DEF deps
<1>5. \A i \in 1 .. n : DirsFor(elf, deps[i]) \in Seq(Seq(STRING))
  BY <1>3, DirsForType
<1>6. seqs \in [1 .. n -> V]
  BY <1>3, <1>5
<1> HIDE DEF n, V
<1>7. seqs \in Seq(V) /\ DOMAIN seqs = 1 .. n
  BY <1>3, <1>6, ListOver
<1>8. \A i \in 1 .. n : seqs[i] = DirsFor(elf, deps[i])
  BY <1>3
<1> HIDE DEF seqs, P
<1>9. /\ FlattenSeq(seqs) \in V
      /\ ToSet(FlattenSeq(seqs)) = UNION {ToSet(seqs[i]) : i \in DOMAIN seqs}
  BY <1>7, FlattenedSet DEF V
<1>10. r \in V
  BY <1>1 DEF V
<1> DEFINE f == FlattenSeq(seqs)
           w == world.append
<1>11. f \in Seq(P) /\ r \in Seq(P) /\ w \in Seq(P)
  BY <1>1, <1>9, <1>10 DEF V
<1> HIDE DEF f, r, w
<1>12. r \o f \in Seq(P) /\ (r \o f) \o w \in Seq(P)
  BY <1>11
<1>13. IsSeq(r) /\ IsSeq(f) /\ IsSeq(r \o f) /\ IsSeq(w)
  BY <1>11, <1>12, SeqIsSeq
<1>14. ToSet((r \o f) \o w) = ToSet(r) \cup ToSet(f) \cup ToSet(w)
  BY <1>13, JoinSet
<1>15. all = (r \o f) \o w /\ all \in Seq(Seq(STRING))
  BY <1>12 DEF f, w, P
<1> HIDE DEF all
<1>16. JoinRpaths[all] \in Seq(Seq(STRING)) /\ ToSet(JoinRpaths[all]) = ToSet(all)
  BY <1>15, JoinRpathsSet
<1>17. ToSet(f) = UNION {ToSet(DirsFor(elf, d)) : d \in ToSet(deps)}
  <2>1. ToSet(deps) = {deps[i] : i \in 1 .. n}
    BY <1>3 DEF ToSet
  <2>2. ToSet(f) = UNION {ToSet(seqs[i]) : i \in 1 .. n}
    BY <1>7, <1>9 DEF f
  <2> QED
    BY <1>8, <2>1, <2>2
<1>18. ToSet(r) = IF elf.interp = NoPath THEN {} ELSE ToSet(world.runtime)
  BY DEF r, ToSet
<1>19. ToSet(RunPath(elf)) = ToSet(r) \cup ToSet(f) \cup ToSet(w)
  BY <1>4, <1>14, <1>15, <1>16
<1>20. RunPath(elf) \in Seq(Seq(STRING))
  BY <1>4, <1>16
<1>21. ToSet(RunPath(elf)) = (IF elf.interp = NoPath THEN {} ELSE ToSet(world.runtime))
                               \cup (UNION {ToSet(DirsFor(elf, d)) : d \in ToSet(Deps(elf))})
                               \cup ToSet(world.append)
  <2>1. ToSet(f) = UNION {ToSet(DirsFor(elf, d)) : d \in ToSet(Deps(elf))}
    BY <1>17 DEF deps
  <2>2. ToSet(w) = ToSet(world.append)
    BY DEF w
  <2> DEFINE F == UNION {ToSet(DirsFor(elf, d)) : d \in ToSet(Deps(elf))}
             R == IF elf.interp = NoPath THEN {} ELSE ToSet(world.runtime)
  <2>3. ToSet(f) = F /\ ToSet(r) = R
    BY <1>18, <2>1
  <2> HIDE DEF F, R
  <2>4. ToSet(RunPath(elf)) = R \cup F \cup ToSet(world.append)
    BY <1>19, <2>2, <2>3
  <2> QED
    BY <2>4 DEF F, R
<1>22. \A k, l \in DOMAIN RunPath(elf) : RunPath(elf)[k] = RunPath(elf)[l] => k = l
  BY <1>4, <1>15, JoinRpathsOnce
<1> QED
  BY <1>20, <1>21, <1>22

-----------------------------------------------------------------------------
(* A name in a directory.                                                  *)
LEMMA SonameParts ==
  ASSUME NEW c \in Sonames, ~IsAbsolute(c), NEW d \in Seq(STRING)
  PROVE  c = <<c[1]>> /\ c[1] \in STRING /\ Join(d, c) = Append(d, c[1])
<1>1. c \in Seq(STRING) /\ c # <<>> /\ ~(Len(c) > 1)
  BY DEF Sonames, NoPath
<1>2. c = <<c[1]>> /\ c[1] \in STRING
  BY <1>1
<1>3. d \o <<c[1]>> = Append(d, c[1])
  BY <1>2
<1> QED
  BY <1>2, <1>3 DEF Join

(* What patch_one finds, the loader does.                                  *)
LEMMA FoundLoads ==
  ASSUME IndexProvides, world \in Worlds, NEW elf, NEW c \in Sonames, Found(elf, c),
         InLibc(c) /\ ~IsAbsolute(c) => Loadable(elf, Join(world.libc, c)),
         NEW b, b.arch = elf.arch, b.osabi = elf.osabi,
         \/ AtHand(elf, c) \/ CacheDir(elf, c) = NoPath \/ CacheDir(elf, c) \in ToSet(b.runpath)
  PROVE  LoaderFinds(b, c)
<1>1. \A p : Loadable(b, p) <=> Loadable(elf, p)
  BY DEF Loadable
<1>2. CASE IsAbsolute(c)
  <2>1. Join(world.libc, c) = c
    BY <1>2 DEF Join
  <2>2. CacheDir(elf, c) = NoPath
    BY <1>2 DEF CacheDir
  <2>3. IsFile(fs, c)
    BY <2>1, <2>2 DEF Found, AtHand, InLibc
  <2> QED
    BY <1>2, <2>3 DEF LoaderFinds
<1>3. CASE ~IsAbsolute(c) /\ InLibc(c)
  <2>1. world.libc # NoPath /\ Loadable(b, Join(world.libc, c))
    BY <1>1, <1>3 DEF InLibc
  <2> QED
    BY <1>3, <2>1 DEF LoaderFinds
<1>4. CASE ~IsAbsolute(c) /\ ~InLibc(c)
  <2>1. ~AtHand(elf, c)
    BY <1>4 DEF AtHand
  <2>2. CacheDir(elf, c) # NoPath /\ CacheDir(elf, c) \in ToSet(b.runpath)
    BY <1>4, <2>1 DEF Found
  <2>3. CacheDir(elf, c) = FindDir(c[1], elf.arch, elf.osabi)
    BY <1>4 DEF CacheDir
  <2>4. PICK i \in DOMAIN index : /\ Answers(i, c[1], elf.arch, elf.osabi)
                                  /\ FindDir(c[1], elf.arch, elf.osabi) = index[i].dir
    BY <2>2, <2>3, FindDirIs DEF IndexProvides
  <2> DEFINE d == index[i].dir
  <2>5. Provides(fs, index[i])
    BY DEF IndexProvides
  <2>6. d \in Seq(STRING) /\ d \in ToSet(b.runpath)
    BY <2>2, <2>3, <2>4, <2>5 DEF Provides
  <2>7. Join(d, c) = Append(d, c[1])
    BY <1>4, <2>6, SonameParts
  <2>8. index[i].name = c[1] /\ index[i].arch = elf.arch /\ OsabiCompatible(elf.osabi, index[i].osabi)
    BY <2>4 DEF Answers
  <2>9. Loadable(elf, Join(d, c))
    BY <2>5, <2>7, <2>8 DEF Provides, Loadable
  <2> QED
    BY <1>1, <1>4, <2>6, <2>9 DEF LoaderFinds
<1> QED
  BY <1>2, <1>3, <1>4

(* Patching files hides nothing from the loader.                           *)
LEMMA StillFinds ==
  ASSUME IsTree(fs), Alike(fs, fs'), world' = world, world.libc \in Seq(STRING),
         NEW b, b.runpath \in Seq(Seq(STRING)), NEW c \in Sonames, LoaderFinds(b, c)
  PROVE  LoaderFinds(b, c)'
<1>1. c \in Seq(STRING)
  BY DEF Sonames
<1>2. CASE IsAbsolute(c)
  BY <1>1, <1>2, AlikeNode DEF LoaderFinds
<1>3. CASE ~IsAbsolute(c)
  <2>1. PICK d \in ToSet(b.runpath) \cup ({world.libc} \ {NoPath}) : Loadable(b, Join(d, c))
    BY <1>3 DEF LoaderFinds
  <2>2. d \in Seq(STRING)
    BY <2>1 DEF ToSet
  <2> DEFINE p == Join(d, c)
  <2>3. p \in Seq(STRING)
    <3>1. c[1] \in STRING /\ p = Append(d, c[1])
      BY <1>3, <2>2, SonameParts
    <3> HIDE DEF p
    <3> QED
      BY <2>2, <3>1, AppendOne
  <2> HIDE DEF p
  <2>4. NodeAt(fs, p).kind = "elf" /\ NodeAt(fs, p).arch = b.arch
        /\ OsabiCompatible(b.osabi, NodeAt(fs, p).osabi)
    BY <2>1 DEF Loadable, p
  <2>5. SameBut(NodeAt(fs, p), NodeAt(fs', p)) /\ NodeAt(fs', p).kind = "elf"
    BY <2>3, <2>4, AlikeNode
  <2>6. Loadable(b, p)'
    BY <2>4, <2>5 DEF Loadable, SameBut
  <2> QED
    BY <1>3, <2>1, <2>6 DEF LoaderFinds, p
<1> QED
  BY <1>2, <1>3

-----------------------------------------------------------------------------
(* What is collected: paths from the root, those of the files found.       *)
ListsPaths ==
  /\ files \in Seq(Seq(STRING)) /\ stack \in Seq(Seq(STRING))
  /\ \A d \in ToSet(stack) : d # NoPath /\ IsAbsolute(d)
  /\ \A p \in ToSet(files) : Canonical(fs, p) \in DOMAIN fs
(* A file that has been dealt with: what it needs is missing, or found.    *)
Served(i) ==
  LET elf == NodeAt(fs, files[i])
  IN Eligible(elf) => \A dep \in ToSet(Deps(elf)) :
       (\E m \in missing : m.dep = dep) \/ \E k \in DOMAIN dep : LoaderFinds(elf, dep[k])

(* The inductive invariant of patching.                                    *)
LInv ==
  /\ world \in Worlds /\ Alike(world.fs, fs)
  /\ stage \notin {"patch", "done"} => settled = {} /\ missing = {}
  /\ stage \notin {"start", "done"} => Interpreter.kind = "elf"
  /\ answer.kind # "none" => stage = "done"
  /\ ListsPaths /\ settled \subseteq DOMAIN files
  /\ LibcFits(world) => \A i \in settled : Served(i)
  /\ answer.kind = "ok" => settled = DOMAIN files /\ \A m \in missing : Ignored(m.dep)

(* The tree of the call.                                                   *)
LEMMA CallTree ==
  ASSUME NEW w \in Worlds
  PROVE  /\ IsTree(w.fs) /\ Alike(w.fs, w.fs)
         /\ w.interp \in Seq(STRING) /\ w.libc \in Seq(STRING)
<1>1. \A p \in DOMAIN w.fs : w.fs[p].kind = "elf" => w.fs[p] \in Elves
  BY AutoAssumption
<1>2. \A e \in Elves : SameBut(e, e)
  BY DEF SameBut
<1>3. Alike(w.fs, w.fs)
  BY <1>1, <1>2 DEF Alike
<1> QED
  BY <1>3, AutoAssumption, LibCacheAssumption

(* The invariant holds of a call that has not started.                     *)
LEMMA InitLoads == Init => LInv
<1> SUFFICES ASSUME Init PROVE LInv
  OBVIOUS
<1>1. /\ world \in Worlds /\ fs = world.fs /\ stage = "start"
      /\ stack = <<>> /\ files = <<>> /\ settled = {} /\ missing = {}
      /\ answer.kind = "none"
  BY DEF Init, None
<1>2. Alike(world.fs, fs)
  BY <1>1, CallTree
<1>3. ListsPaths
  <2>1. ToSet(<<>>) = {}
    BY DEF ToSet
  <2> QED
    BY <1>1, <2>1 DEF ListsPaths
<1> QED
  BY <1>1, <1>2, <1>3 DEF LInv

(* The main thread goes on.                                                *)
LEMMA GoOn ==
  ASSUME LInv, UNCHANGED <<world, fs, stack, files, settled, missing, answer>>,
         \/ stage' = stage
         \/ /\ stage \notin {"start", "patch", "done"} /\ stage' \notin {"start", "done"}
  PROVE  LInv'
<1>1. ListsPaths'
  BY DEF LInv, ListsPaths
<1>2. Interpreter' = Interpreter
  BY DEF Interpreter
<1>3. \A i \in settled : Served(i) => Served(i)'
  BY DEF Served, Eligible, Deps, LoaderFinds, Loadable, Interpreter
<1>4. \A m \in missing : Ignored(m.dep)' <=> Ignored(m.dep)
  BY DEF Ignored
<1>5. LibcFits(world') <=> LibcFits(world)
  OBVIOUS
<1> QED
  BY <1>1, <1>2, <1>3, <1>4, <1>5 DEF LInv

(* The entries of a directory.                                             *)
LEMMA EntryPaths ==
  ASSUME IsTree(fs), NEW dir \in Seq(STRING), dir # NoPath, IsAbsolute(dir)
  PROVE  LET entries == SortedEntries(dir, Names(fs, dir))
         IN /\ entries \in Seq(Seq(STRING))
            /\ ToSet(entries) = {Append(dir, n) : n \in Names(fs, dir)}
            /\ \A p \in ToSet(entries) : p # NoPath /\ IsAbsolute(p)
<1> DEFINE names == Names(fs, dir)
           s == InByteOrder(names)
           entries == SortedEntries(dir, names)
           P == Seq(STRING)
           n == Len(s)
<1>1. /\ s \in Seq(STRING) /\ \A j \in DOMAIN s : s[j] \in names
      /\ \A k \in DOMAIN NameOrder : NameOrder[k] \in names => \E j \in DOMAIN s : s[j] = NameOrder[k]
  BY ByteOrder
<1>2. \A x \in names : x \in STRING /\ \E k \in DOMAIN NameOrder : NameOrder[k] = x
  BY NamesOrdered
<1>3. entries = [i \in DOMAIN s |-> Append(dir, s[i])]
  BY DEF SortedEntries
<1> HIDE DEF s, names
<1>4. n \in Nat /\ DOMAIN s = 1 .. n
  BY <1>1
<1>5. ASSUME NEW x \in names
      PROVE  Append(dir, x) \in P /\ Append(dir, x) # NoPath /\ IsAbsolute(Append(dir, x))
  <2>1. x \in STRING
    BY <1>2
  <2>2. Append(dir, x) \in Seq(STRING)
    BY <2>1, AppendOne
  <2>3. Len(Append(dir, x)) = Len(dir) + 1 /\ Len(dir) \in Nat
    BY <2>1, AppendOne
  <2>4. \A k \in 1 .. Len(dir) : Append(dir, x)[k] = dir[k]
    BY <2>1, AppendOne
  <2>5. Len(dir) # 0
    BY DEF NoPath
  <2>6. Append(dir, x)[1] = dir[1]
    BY <2>3, <2>4, <2>5
  <2>7. Len(NoPath) = 0
    BY DEF NoPath
  <2> QED
    BY <2>2, <2>3, <2>6, <2>7 DEF IsAbsolute
<1>6. entries \in [1 .. n -> P]
  BY <1>1, <1>3, <1>4, <1>5
<1> HIDE DEF P, n, entries
<1>7. entries \in Seq(P) /\ DOMAIN entries = 1 .. n
  BY <1>4, <1>6, ListOver
<1>8. ToSet(entries) = {Append(dir, x) : x \in names}
  <2>1. \A x \in names : \E j \in DOMAIN s : s[j] = x
    BY <1>1, <1>2
  <2>2. {s[j] : j \in DOMAIN s} = names
    BY <1>1, <2>1
  <2>3. ToSet(entries) = {Append(dir, s[j]) : j \in DOMAIN s}
    BY <1>3 DEF ToSet
  <2> QED
    BY <2>2, <2>3
<1> QED
  BY <1>5, <1>7, <1>8 DEF P, entries, names

(* Files that are no links are found by their paths.                       *)
LEMMA OfKindFound ==
  ASSUME IsTree(fs), NEW paths \in Seq(Seq(STRING)),
         \A p \in ToSet(paths) : p # NoPath /\ IsAbsolute(p)
  PROVE  /\ OfKind(paths, FileKinds) \in Seq(Seq(STRING))
         /\ OfKind(paths, {"dir"}) \in Seq(Seq(STRING))
         /\ \A p \in ToSet(OfKind(paths, FileKinds)) : Canonical(fs, p) \in DOMAIN fs
         /\ \A d \in ToSet(OfKind(paths, {"dir"})) : d # NoPath /\ IsAbsolute(d)
<1> DEFINE P == Seq(STRING)
<1>1. paths \in Seq(P)
  OBVIOUS
<1>2. \A p \in ToSet(paths) : p \in P
  <2> HIDE DEF P
  <2> QED
    BY <1>1 DEF ToSet
<1> HIDE DEF P
<1>3. \A kinds : /\ OfKind(paths, kinds) \in Seq(P)
                 /\ ToSet(OfKind(paths, kinds)) = {p \in ToSet(paths) : LinkKind(fs, p) \in kinds}
  BY <1>1, OfKindSet
<1>4. ASSUME NEW p \in ToSet(OfKind(paths, FileKinds)) PROVE Canonical(fs, p) \in DOMAIN fs
  <2>1. p \in ToSet(paths) /\ LinkKind(fs, p) \in FileKinds
    BY <1>3
  <2>2. LinkKind(fs, p) \notin {"link", "none"}
    BY <2>1 DEF FileKinds
  <2> QED
    BY <1>2, <2>1, <2>2, UnfollowedNode DEF P
<1>5. \A d \in ToSet(OfKind(paths, {"dir"})) : d # NoPath /\ IsAbsolute(d)
  BY <1>3
<1> QED
  BY <1>3, <1>4, <1>5 DEF P

(* The paths given are collected before any file is patched.               *)
LEMMA CollectPathsLoads == ASSUME LInv, CollectPaths PROVE LInv'
<1>1. /\ stage = "collect" /\ stage' = "walk"
      /\ files' = OfKind(world.paths, FileKinds) /\ stack' = OfKind(world.paths, {"dir"})
      /\ UNCHANGED <<world, fs, settled, missing, answer>>
  BY DEF CollectPaths
<1>2. IsTree(fs)
  BY CallTree, AlikeTree DEF LInv
<1>3. world.paths \in Seq(Seq(STRING)) /\ \A p \in ToSet(world.paths) : p # NoPath /\ IsAbsolute(p)
  BY LibCacheAssumption DEF LInv
<1>4. ListsPaths'
  BY <1>1, <1>2, <1>3, OfKindFound DEF ListsPaths
<1>5. Interpreter' = Interpreter
  BY <1>1 DEF Interpreter
<1>6. settled = {} /\ missing = {}
  BY <1>1 DEF LInv
<1> QED
  BY <1>1, <1>4, <1>5, <1>6 DEF LInv

(* So is what a directory holds.                                           *)
LEMMA CollectDirLoads == ASSUME LInv, CollectDir PROVE LInv'
<1> DEFINE dir == Last(stack)
           entries == SortedEntries(dir, Names(fs, dir))
           more == OfKind(entries, FileKinds)
           deeper == IF world.recursive THEN OfKind(entries, {"dir"}) ELSE <<>>
           P == Seq(STRING)
<1>1. /\ stage = "walk" /\ stage' = "walk" /\ stack # <<>>
      /\ files' = files \o more /\ stack' = Front(stack) \o deeper
      /\ UNCHANGED <<world, fs, settled, missing, answer>>
  BY DEF CollectDir
<1>2. IsTree(fs)
  BY CallTree, AlikeTree DEF LInv
<1>3. stack \in Seq(P) /\ files \in Seq(P)
  BY DEF LInv, ListsPaths
<1>4. dir \in P /\ Front(stack) \in Seq(P) /\ ToSet(Front(stack)) \subseteq ToSet(stack)
      /\ dir \in ToSet(stack)
  <2> HIDE DEF P
  <2>1. /\ Front(stack) \in Seq(P) /\ dir \in P /\ Len(stack) = Len(Front(stack)) + 1
        /\ \A k \in 1 .. Len(Front(stack)) : Front(stack)[k] = stack[k]
    BY <1>1, <1>3, PathParts
  <2>2. ToSet(Front(stack)) \subseteq ToSet(stack)
    BY <1>3, <2>1 DEF ToSet
  <2>3. dir \in ToSet(stack)
    BY <1>1, <1>3 DEF ToSet, Last
  <2> QED
    BY <2>1, <2>2, <2>3
<1>5. dir # NoPath /\ IsAbsolute(dir)
  BY <1>4 DEF LInv, ListsPaths
<1>6. entries \in Seq(P) /\ \A p \in ToSet(entries) : p # NoPath /\ IsAbsolute(p)
  BY <1>2, <1>4, <1>5, EntryPaths
<1> HIDE DEF entries
<1>7. /\ more \in Seq(P) /\ OfKind(entries, {"dir"}) \in Seq(P)
      /\ \A p \in ToSet(more) : Canonical(fs, p) \in DOMAIN fs
      /\ \A d \in ToSet(OfKind(entries, {"dir"})) : d # NoPath /\ IsAbsolute(d)
  BY <1>2, <1>6, OfKindFound
<1>8. deeper \in Seq(P) /\ \A d \in ToSet(deeper) : d # NoPath /\ IsAbsolute(d)
  <2>1. ToSet(<<>>) = {}
    BY DEF ToSet
  <2> HIDE DEF P
  <2> QED
    BY <1>7, <2>1
<1> HIDE DEF deeper, more, dir
<1>9. /\ files' \in Seq(P) /\ stack' \in Seq(P)
      /\ ToSet(files') = ToSet(files) \cup ToSet(more)
      /\ ToSet(stack') = ToSet(Front(stack)) \cup ToSet(deeper)
  <2> HIDE DEF P
  <2>1. IsSeq(files) /\ IsSeq(more) /\ IsSeq(Front(stack)) /\ IsSeq(deeper)
    BY <1>3, <1>4, <1>7, <1>8, SeqIsSeq
  <2>2. files \o more \in Seq(P) /\ Front(stack) \o deeper \in Seq(P)
    BY <1>3, <1>4, <1>7, <1>8
  <2> QED
    BY <1>1, <2>1, <2>2, JoinSet
<1>10. ListsPaths'
  <2>1. \A d \in ToSet(stack') : d # NoPath /\ IsAbsolute(d)
    BY <1>4, <1>8, <1>9 DEF LInv, ListsPaths
  <2>2. \A p \in ToSet(files') : Canonical(fs, p) \in DOMAIN fs
    BY <1>7, <1>9 DEF LInv, ListsPaths
  <2> QED
    BY <1>1, <1>9, <2>1, <2>2 DEF ListsPaths
<1>11. Interpreter' = Interpreter
  BY <1>1 DEF Interpreter
<1>12. settled = {} /\ missing = {}
  BY <1>1 DEF LInv
<1> QED
  BY <1>1, <1>10, <1>11, <1>12 DEF LInv

-----------------------------------------------------------------------------
(* What is made of it twice is made of it.                                 *)
LEMMA AlikeAgain ==
  ASSUME NEW s, NEW t, NEW u, Alike(s, t), Alike(t, u)
  PROVE  Alike(s, u)
<1>1. DOMAIN u = DOMAIN s /\ DOMAIN t = DOMAIN s
  BY DEF Alike
<1> SUFFICES ASSUME NEW p \in DOMAIN s
             PROVE  IF s[p].kind = "elf" THEN SameBut(s[p], u[p]) ELSE u[p] = s[p]
  BY <1>1 DEF Alike
<1>2. t[p].kind = s[p].kind /\ p \in DOMAIN t
  BY <1>1, AlikeKind
<1>3. CASE s[p].kind = "elf"
  <2>1. SameBut(s[p], t[p]) /\ SameBut(t[p], u[p])
    BY <1>2, <1>3 DEF Alike
  <2> QED
    BY <1>3, <2>1 DEF SameBut
<1>4. CASE s[p].kind # "elf"
  BY <1>2, <1>4 DEF Alike
<1> QED
  BY <1>3, <1>4

(* The index holds what is there.                                          *)
LEMMA IndexStands == ASSUME SInv, LInv PROVE IndexProvides
<1>1. world \in Worlds /\ IsSeq(index) /\ ToSet(index) \subseteq Libraries(world)
  BY DEF SInv, Sound
<1>2. IsTree(world.fs) /\ Alike(world.fs, fs)
  BY <1>1, CallTree DEF LInv
<1>3. ASSUME NEW i \in DOMAIN index PROVE Provides(fs, index[i])
  <2>1. index[i] \in Libraries(world)
    BY <1>1 DEF ToSet
  <2>2. Provides(world.fs, index[i])
    BY <1>1, <2>1, LibraryProvides
  <2> QED
    BY <1>2, <2>2, StillProvides
<1> QED
  BY <1>1, <1>3 DEF IndexProvides

(* What patching a file does to the tree.                                  *)
Patches(i, at) ==
  /\ i \in DOMAIN files /\ at = Canonical(fs, files[i]) /\ Eligible(fs[at])
  /\ fs' = [fs EXCEPT ![at] = Patched(fs[at], RunPath(fs[at]))]
  /\ UNCHANGED <<world, stage, cacheVars, stack, files, answer>>

(* The file has the run path and the loader it was to have; nothing else   *)
(* has changed.                                                            *)
LEMMA PatchTree ==
  ASSUME SInv, LInv, stage = "patch", NEW i, NEW at, Patches(i, at)
  PROVE  /\ IsTree(fs) /\ IndexProvides /\ at \in DOMAIN fs /\ at \in DOMAIN world.fs
         /\ Alike(fs, fs') /\ Alike(world.fs, fs')
         /\ fs[at] \in Elves /\ SameBut(world.fs[at], fs[at]) /\ SameBut(fs[at], fs'[at])
         /\ world.fs[at].kind = "elf"
         /\ fs'[at].runpath = IF RunPath(fs[at]) = <<>> THEN fs[at].runpath ELSE RunPath(fs[at])
         /\ fs'[at].interp = IF fs[at].interp = NoPath THEN NoPath ELSE world.interp
         /\ \A p \in DOMAIN fs : p # at => fs'[p] = fs[p]
<1>1. /\ world \in Worlds /\ Alike(world.fs, fs) /\ IsTree(world.fs) /\ IsTree(fs)
      /\ world.interp \in Seq(STRING) /\ Interpreter.kind = "elf"
  BY CallTree, AlikeTree DEF LInv
<1>2. IndexProvides
  BY IndexStands
<1>3. at \in DOMAIN fs /\ at \in DOMAIN world.fs
  BY <1>1 DEF LInv, ListsPaths, Patches, ToSet, Alike
<1>4. fs[at].kind = "elf"
  BY DEF Patches, Eligible
<1>5. world.fs[at].kind = "elf"
  BY <1>1, <1>3, <1>4, AlikeKind
<1>6. \A p \in DOMAIN fs : fs[p].kind = "elf" => fs[p] \in Elves
  <2> TAKE p \in DOMAIN fs
  <2> HAVE fs[p].kind = "elf"
  <2>1. p \in DOMAIN world.fs
    BY <1>1 DEF Alike
  <2>2. world.fs[p].kind = "elf"
    BY <1>1, <2>1, AlikeKind
  <2> QED
    BY <1>1, <2>1, <2>2 DEF Alike, SameBut
<1>7. fs[at] \in Elves /\ SameBut(world.fs[at], fs[at])
  BY <1>1, <1>3, <1>4, <1>5, <1>6 DEF Alike
<1>8. RunPath(fs[at]) \in Seq(Seq(STRING))
  BY <1>1, <1>2, <1>7, RunPathSet
<1>9. world.interp # NoPath
  <2> SUFFICES ASSUME world.interp = NoPath PROVE FALSE
    OBVIOUS
  <2>1. Canonical(fs, world.interp) = <<"/">>
    BY <1>1, RootSpot
  <2>2. Interpreter.kind = fs[<<"/">>].kind
    BY <2>1 DEF Interpreter, NodeAt, NoPath
  <2> QED
    BY <1>1, <2>2 DEF IsTree
<1> DEFINE rp == RunPath(fs[at])
           new == fs'
<1>10. new = [fs EXCEPT ![at] = Patched(fs[at], rp)]
  BY DEF Patches
<1>11. rp \in Seq(Seq(STRING))
  BY <1>8
<1> HIDE DEF rp, new
<1>12. /\ DOMAIN new = DOMAIN fs /\ new[at] = Patched(fs[at], rp)
       /\ \A p \in DOMAIN fs : p # at => new[p] = fs[p]
  BY <1>3, <1>10
<1>13. /\ Alike(fs, new) /\ SameBut(fs[at], new[at])
       /\ new[at].runpath = (IF rp = <<>> THEN fs[at].runpath ELSE rp)
       /\ new[at].interp = (IF fs[at].interp = NoPath THEN NoPath ELSE world.interp)
       /\ \A p \in DOMAIN fs : p # at => new[p] = fs[p]
  BY <1>1, <1>3, <1>4, <1>6, <1>9, <1>11, <1>12, PatchedAlike
<1>14. Alike(world.fs, new)
  BY <1>1, <1>13, AlikeAgain
<1> QED
  BY <1>1, <1>2, <1>3, <1>5, <1>7, <1>13, <1>14 DEF rp, new

(* The file patched: what is found for it, the loader finds.               *)
LEMMA PatchedServed ==
  ASSUME SInv, LInv, stage = "patch", NEW i, NEW at, Patches(i, at), LibcFits(world),
         NEW dep \in ToSet(Deps(fs[at])), FoundAny(fs[at], dep), NEW b, b = fs'[at]
  PROVE  \E k \in DOMAIN dep : LoaderFinds(b, dep[k])'
<1>1. /\ IsTree(fs) /\ IndexProvides /\ at \in DOMAIN fs /\ at \in DOMAIN world.fs
      /\ Alike(fs, fs') /\ fs[at] \in Elves
      /\ SameBut(world.fs[at], fs[at]) /\ SameBut(fs[at], fs'[at]) /\ world.fs[at].kind = "elf"
      /\ fs'[at].runpath = IF RunPath(fs[at]) = <<>> THEN fs[at].runpath ELSE RunPath(fs[at])
  BY PatchTree
<1>2. /\ world \in Worlds /\ Alike(world.fs, fs) /\ IsTree(world.fs)
      /\ world.interp \in Seq(STRING) /\ world.libc \in Seq(STRING)
      /\ Interpreter.kind = "elf" /\ world' = world
  BY CallTree DEF LInv, Patches
<1> DEFINE elf == fs[at]
<1>3. dep \in Seq(Sonames)
  BY <1>1, DepsSet
<1>4. PICK k \in DOMAIN dep :
        /\ Found(elf, dep[k])
        /\ DirsFor(elf, dep) = IF AtHand(elf, dep[k]) \/ CacheDir(elf, dep[k]) = NoPath THEN <<>>
                               ELSE <<CacheDir(elf, dep[k])>>
  BY <1>3, FirstFound
<1> DEFINE c == dep[k]
<1>5. c \in Sonames
  BY <1>3
<1>6. AtHand(elf, c) \/ CacheDir(elf, c) = NoPath \/ CacheDir(elf, c) \in ToSet(b.runpath)
  <2> SUFFICES ASSUME ~AtHand(elf, c), CacheDir(elf, c) # NoPath
               PROVE  CacheDir(elf, c) \in ToSet(b.runpath)
    OBVIOUS
  <2>1. DirsFor(elf, dep) = <<CacheDir(elf, c)>>
    BY <1>4
  <2>2. CacheDir(elf, c) \in ToSet(DirsFor(elf, dep))
    BY <2>1 DEF ToSet
  <2>3. CacheDir(elf, c) \in ToSet(RunPath(elf))
    BY <1>1, <1>2, <2>2, RunPathSet
  <2>4. RunPath(elf) # <<>>
    BY <2>3 DEF ToSet
  <2>5. b.runpath = RunPath(elf)
    BY <1>1, <2>4
  <2> QED
    BY <2>3, <2>5
<1>7. b.arch = elf.arch /\ b.osabi = elf.osabi /\ b.runpath \in Seq(Seq(STRING))
  BY <1>1, SameButElf DEF SameBut
<1>8. InLibc(c) /\ ~IsAbsolute(c) => Loadable(elf, Join(world.libc, c))
  <2> SUFFICES ASSUME InLibc(c), ~IsAbsolute(c) PROVE Loadable(elf, Join(world.libc, c))
    OBVIOUS
  <2> DEFINE p == Join(world.libc, c)
             lib == NodeAt(world.fs, p)
             a == world.fs[at]
  <2>1. p \in Seq(STRING)
    <3>1. c[1] \in STRING /\ p = Append(world.libc, c[1])
      BY <1>2, <1>5, SonameParts
    <3> HIDE DEF p
    <3> QED
      BY <1>2, <3>1, AppendOne
  <2>2. IsFile(fs, p)
    BY DEF InLibc
  <2>3. IsFile(world.fs, p)
    BY <1>2, <2>1, <2>2, AlikeNode
  <2>4. a.kind = "elf" /\ a.arch = elf.arch /\ a.osabi = elf.osabi /\ a.needed = elf.needed
        /\ a.dlopen = elf.dlopen
    BY <1>1 DEF SameBut
  <2>5. c \in Candidates(a)
    <3>1. c \in Candidates(elf)
      <4>1. dep \in {<<n>> : n \in ToSet(elf.needed)} \/ dep \in ToSet(elf.dlopen)
        BY <1>1, DepsSet
      <4>2. CASE dep \in {<<n>> : n \in ToSet(elf.needed)}
        <5>1. PICK n \in ToSet(elf.needed) : dep = <<n>>
          BY <4>2
        <5>2. c = n
          BY <5>1
        <5> QED
          BY <5>2 DEF Candidates
      <4>3. CASE dep \in ToSet(elf.dlopen)
        BY <4>3 DEF Candidates, ToSet
      <4> QED
        BY <4>1, <4>2, <4>3
    <3> QED
      BY <2>4, <3>1 DEF Candidates
  <2>6. NodeAt(world.fs, world.interp).kind = "elf" /\ a.arch = NodeAt(world.fs, world.interp).arch
    <3>1. elf.arch = Interpreter.arch
      BY DEF Patches, Eligible
    <3>2. /\ NodeAt(world.fs, world.interp).arch = Interpreter.arch
          /\ NodeAt(world.fs, world.interp).kind = "elf"
      BY <1>2, AlikeNode DEF Interpreter, SameBut
    <3> QED
      BY <2>4, <3>1, <3>2
  <2>7. lib.kind = "elf" /\ lib.arch = a.arch /\ OsabiCompatible(a.osabi, lib.osabi)
    BY <1>1, <2>3, <2>4, <2>5, <2>6 DEF LibcFits
  <2>8. SameBut(lib, NodeAt(fs, p)) /\ NodeAt(fs, p).kind = "elf"
    BY <1>2, <2>1, <2>7, AlikeNode
  <2> QED
    BY <2>4, <2>7, <2>8 DEF Loadable, SameBut
<1> HIDE DEF c, elf
<1>9. LoaderFinds(b, c)
  BY <1>1, <1>2, <1>4, <1>5, <1>6, <1>7, <1>8, FoundLoads DEF c
<1>10. LoaderFinds(b, c)'
  BY <1>1, <1>2, <1>5, <1>7, <1>9, StillFinds
<1> QED
  BY <1>10 DEF c

-----------------------------------------------------------------------------
(* Patching keeps the loader what it is.                                   *)
LEMMA SameLoader ==
  ASSUME LInv, stage = "patch", Alike(fs, fs'), world' = world
  PROVE  /\ Interpreter'.kind = "elf"
         /\ Interpreter'.arch = Interpreter.arch /\ Interpreter'.osabi = Interpreter.osabi
         /\ \A e : Eligible(e)' <=> Eligible(e)
<1>1. /\ world \in Worlds /\ IsTree(fs) /\ world.interp \in Seq(STRING) /\ Interpreter.kind = "elf"
  BY CallTree, AlikeTree DEF LInv
<1>2. NodeAt(fs', world.interp).kind = "elf" /\ SameBut(NodeAt(fs, world.interp), NodeAt(fs', world.interp))
  BY <1>1, AlikeNode DEF Interpreter
<1>3. Interpreter' = NodeAt(fs', world.interp)
  BY DEF Interpreter
<1>4. /\ Interpreter'.kind = "elf"
      /\ Interpreter'.arch = Interpreter.arch /\ Interpreter'.osabi = Interpreter.osabi
  BY <1>2, <1>3 DEF Interpreter, SameBut
<1> QED
  BY <1>4 DEF Eligible

(* The files of the list are nodes.                                        *)
LEMMA ListedNode ==
  ASSUME LInv, NEW j \in DOMAIN files
  PROVE  /\ files[j] \in Seq(STRING) /\ Canonical(fs, files[j]) \in DOMAIN fs
         /\ NodeAt(fs, files[j]) = fs[Canonical(fs, files[j])]
<1> DEFINE p == files[j]
<1>1. p \in Seq(STRING) /\ p \in ToSet(files)
  <2> DEFINE P == Seq(STRING)
  <2>1. files \in Seq(P)
    BY DEF LInv, ListsPaths
  <2> HIDE DEF P
  <2> QED
    BY <2>1 DEF ToSet, P
<1>2. Canonical(fs, p) \in DOMAIN fs
  BY <1>1 DEF LInv, ListsPaths
<1>3. IsTree(fs)
  BY CallTree, AlikeTree DEF LInv
<1>4. Canonical(fs, p) # NoPath
  BY <1>2, <1>3, TreePaths DEF IsTree, NoPath
<1> QED
  BY <1>1, <1>2, <1>4 DEF NodeAt

(* After a file has been patched, what has been dealt with is served.      *)
LEMMA OneServed ==
  ASSUME SInv, LInv, stage = "patch", LibcFits(world), NEW i, NEW at, Patches(i, at),
         missing' = missing \cup {[file |-> at, dep |-> d] :
                                    d \in {x \in ToSet(Deps(fs[at])) : ~FoundAny(fs[at], x)}},
         NEW j \in settled \cup {i}
  PROVE  Served(j)'
<1>1. /\ IsTree(fs) /\ at \in DOMAIN fs /\ Alike(fs, fs') /\ Alike(world.fs, fs')
      /\ fs[at] \in Elves /\ SameBut(fs[at], fs'[at])
      /\ \A p \in DOMAIN fs : p # at => fs'[p] = fs[p]
  BY PatchTree
<1>2. /\ world \in Worlds /\ Alike(world.fs, fs) /\ world.libc \in Seq(STRING)
      /\ world' = world /\ files' = files /\ i \in DOMAIN files /\ j \in DOMAIN files
      /\ at = Canonical(fs, files[i])
  BY CallTree DEF LInv, Patches
<1> DEFINE q == Canonical(fs, files[j])
<1>3. files[j] \in Seq(STRING) /\ q \in DOMAIN fs /\ NodeAt(fs, files[j]) = fs[q]
  BY <1>2, ListedNode
<1>4. NodeAt(fs', files[j]) = fs'[q]
  <2>1. Canonical(fs', files[j]) = q
    BY <1>1, <1>3, AlikeCanonical
  <2>2. q # NoPath
    BY <1>1, <1>3, TreePaths DEF IsTree, NoPath
  <2> QED
    BY <2>1, <2>2 DEF NodeAt
<1> HIDE DEF q
<1> SUFFICES ASSUME NEW e, e = fs'[q], Eligible(e)', NEW dep \in ToSet(Deps(e))
             PROVE  (\E m \in missing' : m.dep = dep) \/ \E k \in DOMAIN dep : LoaderFinds(e, dep[k])'
  BY <1>2, <1>4 DEF Served, Eligible, Deps, LoaderFinds, Loadable, Interpreter
<1>5. CASE q = at
  <2>1. Deps(e) = Deps(fs[at])
    BY <1>1, <1>5 DEF Deps, SameBut
  <2>2. CASE FoundAny(fs[at], dep)
    BY <1>5, <2>1, <2>2, PatchedServed
  <2>3. CASE ~FoundAny(fs[at], dep)
    <3>1. [file |-> at, dep |-> dep] \in missing'
      BY <2>1, <2>3
    <3> QED
      BY <3>1
  <2> QED
    BY <2>2, <2>3
<1>6. CASE q # at
  <2>1. e = fs[q] /\ j \in settled
    BY <1>1, <1>2, <1>3, <1>6 DEF q
  <2>2. Eligible(e)
    BY <1>1, <1>2, SameLoader
  <2>3. (\E m \in missing : m.dep = dep) \/ \E k \in DOMAIN dep : LoaderFinds(e, dep[k])
    BY <1>3, <2>1, <2>2 DEF LInv, Served
  <2>4. e \in Elves
    <3>1. world.fs[q].kind = "elf" /\ q \in DOMAIN world.fs
      BY <1>2, <1>3, <2>1, <2>2, AlikeKind DEF Eligible, Alike
    <3> QED
      BY <1>2, <2>1, <3>1 DEF Alike, SameBut
  <2>5. dep \in Seq(Sonames) /\ e.runpath \in Seq(Seq(STRING))
    BY <2>4, DepsSet, SameButElf
  <2>6. \A k \in DOMAIN dep : LoaderFinds(e, dep[k]) => LoaderFinds(e, dep[k])'
    <3> TAKE k \in DOMAIN dep
    <3> HAVE LoaderFinds(e, dep[k])
    <3>1. dep[k] \in Sonames
      BY <2>5
    <3> QED
      BY <1>1, <1>2, <2>5, <3>1, StillFinds
  <2> QED
    BY <2>3, <2>6
<1> QED
  BY <1>5, <1>6

(* patch_one keeps the invariant: the file is skipped, or its dependencies *)
(* are served or noted.                                                    *)
LEMMA PatchOneLoads == ASSUME SInv, LInv, NEW i \in DOMAIN files, PatchOne(i) PROVE LInv'
<1> DEFINE at == Canonical(fs, files[i])
<1>1. /\ stage = "patch" /\ settled' = settled \cup {i}
      /\ UNCHANGED <<world, stage, cacheVars, stack, files, answer>>
      /\ IF Eligible(fs[at])
         THEN /\ fs' = [fs EXCEPT ![at] = Patched(fs[at], RunPath(fs[at]))]
              /\ missing' = missing \cup
                   {[file |-> at, dep |-> d] :
                      d \in {x \in ToSet(Deps(fs[at])) : ~FoundAny(fs[at], x)}}
         ELSE fs' = fs /\ missing' = missing
  BY DEF PatchOne
<1>2. /\ files \in Seq(Seq(STRING)) /\ at \in DOMAIN fs /\ NodeAt(fs, files[i]) = fs[at]
      /\ answer.kind = "none" \/ answer.kind # "ok"
  BY <1>1, ListedNode DEF LInv, ListsPaths
<1>3. answer.kind = "none"
  BY <1>1 DEF LInv
<1> HIDE DEF at
<1>4. CASE Eligible(fs[at])
  <2>1. Patches(i, at)
    BY <1>1, <1>4 DEF Patches, at
  <2>2. Alike(fs, fs') /\ Alike(world.fs, fs') /\ IsTree(fs)
    BY <1>1, <2>1, PatchTree
  <2>3. Interpreter'.kind = "elf"
    BY <1>1, <2>2, SameLoader
  <2>4. ListsPaths'
    <3> DEFINE P == Seq(STRING)
    <3>1. files \in Seq(P) /\ \A p \in ToSet(files) : p \in P
      <4>1. files \in Seq(P)
        BY DEF LInv, ListsPaths
      <4> HIDE DEF P
      <4> QED
        BY <4>1 DEF ToSet
    <3>2. \A p \in ToSet(files) : Canonical(fs', p) = Canonical(fs, p)
      BY <2>2, <3>1, AlikeCanonical
    <3>3. DOMAIN fs' = DOMAIN fs
      BY <2>2 DEF Alike
    <3> QED
      BY <1>1, <3>2, <3>3 DEF LInv, ListsPaths
  <2>5. LibcFits(world) => \A j \in settled' : Served(j)'
    BY <1>1, <1>4, <2>1, OneServed
  <2> QED
    BY <1>1, <1>3, <2>2, <2>3, <2>4, <2>5 DEF LInv
<1>5. CASE ~Eligible(fs[at])
  <2>1. fs' = fs /\ missing' = missing
    BY <1>1, <1>5
  <2>2. Interpreter' = Interpreter /\ ListsPaths'
    BY <1>1, <2>1 DEF Interpreter, LInv, ListsPaths
  <2>3. \A j \in settled : Served(j) => Served(j)'
    BY <1>1, <2>1 DEF Served, Eligible, Deps, LoaderFinds, Loadable, Interpreter
  <2>4. Served(i)'
    BY <1>1, <1>2, <1>5, <2>1 DEF Served, Eligible, Interpreter
  <2> QED
    BY <1>1, <1>3, <2>1, <2>2, <2>3, <2>4 DEF LInv
<1> QED
  BY <1>4, <1>5

(* report_missing: the call succeeds only when all that is missing is to   *)
(* be ignored.                                                             *)
LEMMA ReportLoads == ASSUME LInv, Report PROVE LInv'
<1>1. /\ stage = "patch" /\ stage' = "done" /\ settled = DOMAIN files
      /\ answer'.kind = "ok" => \A m \in missing : Ignored(m.dep)
      /\ UNCHANGED <<world, fs, stack, files, settled, missing>>
  BY DEF Report
<1>2. Interpreter' = Interpreter /\ ListsPaths'
  BY <1>1 DEF Interpreter, LInv, ListsPaths
<1>3. \A j \in settled : Served(j) => Served(j)'
  BY <1>1 DEF Served, Eligible, Deps, LoaderFinds, Loadable, Interpreter
<1>4. \A m \in missing : Ignored(m.dep)' <=> Ignored(m.dep)
  BY <1>1 DEF Ignored
<1> QED
  BY <1>1, <1>2, <1>3, <1>4 DEF LInv

-----------------------------------------------------------------------------
(* The call ends early, or has a loader.                                   *)
LEMMA StartLoads == ASSUME LInv, Start PROVE LInv'
<1>1. /\ stage = "start" /\ UNCHANGED <<world, fs, stack, files, settled, missing>>
      /\ \/ stage' = "done" /\ answer'.kind = "err"
         \/ /\ stage' = "scan" /\ answer' = answer
            /\ IsFile(fs, world.interp) /\ Interpreter.kind # "junk"
  BY DEF Start, Quit
<1>2. Interpreter' = Interpreter /\ ListsPaths'
  BY <1>1 DEF Interpreter, LInv, ListsPaths
<1>3. settled = {} /\ missing = {}
  BY <1>1 DEF LInv
<1>4. stage' = "scan" => Interpreter.kind = "elf"
  BY <1>1 DEF Interpreter, IsFile, FileKinds
<1> QED
  BY <1>1, <1>2, <1>3, <1>4 DEF LInv

(* Every step keeps the invariant of patching.                             *)
LEMMA NextLoads == ASSUME SInv, LInv, [Next]_vars PROVE LInv'
<1>1. ASSUME Visit \/ Spawn \/ Merge \/ \E w \in Workers : Grab(w) \/ Parse(w),
             UNCHANGED <<stack, files, settled, missing, answer>>
      PROVE  LInv'
  <2>1. ASSUME Visit \/ \E w \in Workers : Grab(w) \/ Parse(w)
        PROVE  stage' = stage /\ UNCHANGED <<world, fs>>
    BY <2>1 DEF Visit, Grab, Parse
  <2>2. ASSUME Spawn
        PROVE  stage = "scan" /\ stage' = "parse" /\ UNCHANGED <<world, fs>>
    BY <2>2 DEF Spawn
  <2>3. ASSUME Merge
        PROVE  stage = "parse" /\ stage' \in {"collect", "scan"} /\ UNCHANGED <<world, fs>>
    BY <2>3 DEF Merge
  <2> QED
    BY <1>1, <2>1, <2>2, <2>3, GoOn
<1>2. ASSUME Collected PROVE LInv'
  <2>1. /\ stage = "walk" /\ stage' = "patch"
        /\ UNCHANGED <<world, fs, stack, files, settled, missing, answer>>
    BY <1>2 DEF Collected
  <2> QED
    BY <2>1, GoOn
<1>3. CASE UNCHANGED vars
  <2>1. UNCHANGED <<world, fs, stack, files, settled, missing, answer>> /\ stage' = stage
    BY <1>3 DEF vars
  <2> QED
    BY <2>1, GoOn
<1> QED
  BY <1>1, <1>2, <1>3, StartLoads, CollectPathsLoads, CollectDirLoads, PatchOneLoads, ReportLoads
     DEF Next, Populate

(* The invariant of patching holds.                                        *)
LEMMA InductiveLoads == Spec => []LInv
<1>1. Init => LInv
  BY InitLoads
<1>2. SInv /\ LInv /\ [Next]_vars => LInv'
  BY NextLoads
<1> QED
  BY <1>1, <1>2, InductiveSearch, PTL DEF Spec

(* When a call has succeeded, the dynamic loader finds every dependency of *)
(* every file patched, through the run path just written or in the libc's  *)
(* directory, or it was to be ignored: for any tree, number of threads and *)
(* order of the files, a file patched earlier, or later, than those that   *)
(* depend on it included (patch_one, report_missing). The libc's directory *)
(* must hold, under the names the files ask for, libraries that fit them:  *)
(* of it patch_one asks no more than whether a file exists.                *)
THEOREM EveryDependencyLoads == Spec => [](LibcFits(world) => Loads)
<1>1. LInv => (LibcFits(world) => Loads)
  <2> SUFFICES ASSUME LInv, LibcFits(world), answer.kind = "ok", NEW i \in DOMAIN files,
                      NEW elf, elf = NodeAt(fs, files[i]), Eligible(elf), NEW dep \in ToSet(Deps(elf))
               PROVE  Ignored(dep) \/ \E k \in DOMAIN dep : LoaderFinds(elf, dep[k])
    BY DEF Loads
  <2>1. i \in settled /\ \A m \in missing : Ignored(m.dep)
    BY DEF LInv
  <2>2. Served(i)
    BY <2>1 DEF LInv
  <2> QED
    BY <2>1, <2>2 DEF Served
<1> QED
  BY <1>1, InductiveLoads, PTL

-----------------------------------------------------------------------------
(* What is left of a pattern matches what is left of a text.               *)
Piece(p, t, m, a, b) == IF p[m] = "*" THEN a <= b ELSE b = a + 1 /\ p[m] \in {"?", t[b]}

(* A cut of a text from j on, one piece per character of a pattern from i  *)
(* on.                                                                     *)
Cuts(p, t, i, j, cut) ==
  /\ cut \in [i .. Len(p) -> 0 .. Len(t)] /\ cut[i] = j /\ cut[Len(p)] = Len(t)
  /\ \A m \in i + 1 .. Len(p) : Piece(p, t, m, cut[m - 1], cut[m])

(* There is one.                                                           *)
MatchesFrom(p, t, i, j) == \E cut : Cuts(p, t, i, j, cut)

(* All of them is Matches.                                                 *)
LEMMA MatchesAll ==
  ASSUME NEW S, NEW p \in Seq(S), NEW t
  PROVE  Call!Matches(p, t) <=> MatchesFrom(p, t, 0, 0)
<1>1. DOMAIN p = 0 + 1 .. Len(p) /\ Len(p) \in Nat
  OBVIOUS
<1>2. Call!Matches(p, t) <=>
        \E cut \in [0 .. Len(p) -> 0 .. Len(t)] :
          /\ cut[0] = 0 /\ cut[Len(p)] = Len(t)
          /\ \A m \in DOMAIN p : Piece(p, t, m, cut[m - 1], cut[m])
  BY Zenon DEF Call!Matches, Piece
<1> QED
  BY <1>1, <1>2 DEF MatchesFrom, Cuts

(* Nothing left of the pattern matches nothing left of the text.           *)
LEMMA MatchesEnd ==
  ASSUME NEW p, NEW t, Len(p) \in Nat, Len(t) \in Nat, NEW j \in 0 .. Len(t)
  PROVE  MatchesFrom(p, t, Len(p), j) <=> j = Len(t)
<1>1. ASSUME MatchesFrom(p, t, Len(p), j) PROVE j = Len(t)
  BY <1>1 DEF MatchesFrom, Cuts
<1>2. ASSUME j = Len(t) PROVE MatchesFrom(p, t, Len(p), j)
  <2> DEFINE cut == [m \in Len(p) .. Len(p) |-> j]
  <2>1. Cuts(p, t, Len(p), j, cut)
    BY <1>2 DEF Cuts
  <2> QED
    BY <2>1 DEF MatchesFrom
<1> QED
  BY <1>1, <1>2

(* The first character of the pattern matches a piece, and what follows it *)
(* the rest.                                                               *)
LEMMA MatchesNext ==
  ASSUME NEW p, NEW t, Len(p) \in Nat, Len(t) \in Nat,
         NEW i \in 0 .. Len(p) - 1, NEW j \in 0 .. Len(t)
  PROVE  MatchesFrom(p, t, i, j) <=>
           \E k \in 0 .. Len(t) : Piece(p, t, i + 1, j, k) /\ MatchesFrom(p, t, i + 1, k)
<1> DEFINE n == Len(p)
           l == Len(t)
<1>1. n \in Nat /\ l \in Nat /\ i \in 0 .. n - 1 /\ j \in 0 .. l
  OBVIOUS
<1>2. \A a, b, f : Cuts(p, t, a, b, f) <=>
        /\ f \in [a .. n -> 0 .. l] /\ f[a] = b /\ f[n] = l
        /\ \A m \in a + 1 .. n : Piece(p, t, m, f[m - 1], f[m])
  BY DEF Cuts
<1> HIDE DEF n, l
<1>3. ASSUME NEW cut, Cuts(p, t, i, j, cut)
      PROVE  \E k \in 0 .. l : Piece(p, t, i + 1, j, k) /\ MatchesFrom(p, t, i + 1, k)
  <2> DEFINE k == cut[i + 1]
             f == [m \in i + 1 .. n |-> cut[m]]
  <2>1. /\ cut \in [i .. n -> 0 .. l] /\ cut[i] = j /\ cut[n] = l
        /\ \A m \in i + 1 .. n : Piece(p, t, m, cut[m - 1], cut[m])
    BY <1>2, <1>3
  <2>2. i + 1 \in i .. n /\ k \in 0 .. l
    BY <1>1, <2>1
  <2>3. Piece(p, t, i + 1, j, k)
    <3>1. i + 1 \in i + 1 .. n /\ (i + 1) - 1 = i
      BY <1>1
    <3>2. Piece(p, t, i + 1, cut[(i + 1) - 1], cut[i + 1])
      BY <2>1, <3>1
    <3> QED
      BY <2>1, <3>1, <3>2
  <2>4. f \in [i + 1 .. n -> 0 .. l] /\ f[i + 1] = k /\ f[n] = l
    BY <1>1, <2>1
  <2>5. ASSUME NEW m \in i + 2 .. n PROVE Piece(p, t, m, f[m - 1], f[m])
    <3>1. m \in i + 1 .. n /\ m - 1 \in i + 1 .. n
      BY <1>1
    <3>2. f[m] = cut[m] /\ f[m - 1] = cut[m - 1]
      BY <3>1
    <3>3. Piece(p, t, m, cut[m - 1], cut[m])
      BY <2>1, <3>1
    <3> QED
      BY <3>2, <3>3
  <2>6. Cuts(p, t, i + 1, k, f)
    <3>1. (i + 1) + 1 .. n = i + 2 .. n
      BY <1>1
    <3> HIDE DEF f, k
    <3> QED
      BY <1>2, <2>4, <2>5, <3>1
  <2>7. MatchesFrom(p, t, i + 1, k)
    BY <2>6 DEF MatchesFrom
  <2> QED
    BY <2>2, <2>3, <2>7
<1>4. ASSUME NEW k \in 0 .. l, Piece(p, t, i + 1, j, k), NEW f, Cuts(p, t, i + 1, k, f)
      PROVE  MatchesFrom(p, t, i, j)
  <2> DEFINE cut == [m \in i .. n |-> IF m = i THEN j ELSE f[m]]
  <2>1. /\ f \in [i + 1 .. n -> 0 .. l] /\ f[i + 1] = k /\ f[n] = l
        /\ \A m \in (i + 1) + 1 .. n : Piece(p, t, m, f[m - 1], f[m])
    BY <1>2, <1>4
  <2>2. cut \in [i .. n -> 0 .. l] /\ cut[i] = j /\ cut[n] = l
    BY <1>1, <2>1
  <2>3. ASSUME NEW m \in i + 1 .. n PROVE Piece(p, t, m, cut[m - 1], cut[m])
    <3>1. CASE m = i + 1
      <4>1. m - 1 = i /\ cut[i] = j /\ cut[i + 1] = k
        BY <1>1, <2>1, <3>1
      <4> HIDE DEF cut
      <4> QED
        BY <1>4, <3>1, <4>1
    <3>2. CASE m # i + 1
      <4>1. m \in (i + 1) + 1 .. n /\ cut[m] = f[m] /\ cut[m - 1] = f[m - 1]
        BY <1>1, <3>2
      <4>2. Piece(p, t, m, f[m - 1], f[m])
        BY <2>1, <4>1
      <4> HIDE DEF cut
      <4> QED
        BY <4>1, <4>2
    <3> QED
      BY <3>1, <3>2
  <2>4. Cuts(p, t, i, j, cut)
    <3> HIDE DEF cut
    <3> QED
      BY <1>2, <2>2, <2>3
  <2> QED
    BY <2>4 DEF MatchesFrom
<1> QED
  BY <1>3, <1>4 DEF MatchesFrom, l

(* A character that is no star takes one.                                  *)
LEMMA MatchesLiteral ==
  ASSUME NEW p, NEW t, Len(p) \in Nat, Len(t) \in Nat,
         NEW i \in 0 .. Len(p) - 1, NEW j \in 0 .. Len(t),
         p[i + 1] # "*"
  PROVE  MatchesFrom(p, t, i, j) <=>
           j < Len(t) /\ p[i + 1] \in {"?", t[j + 1]} /\ MatchesFrom(p, t, i + 1, j + 1)
<1>1. \A k : Piece(p, t, i + 1, j, k) <=> k = j + 1 /\ p[i + 1] \in {"?", t[k]}
  BY DEF Piece
<1>2. MatchesFrom(p, t, i, j) <=>
        \E k \in 0 .. Len(t) : /\ k = j + 1 /\ p[i + 1] \in {"?", t[k]}
                                /\ MatchesFrom(p, t, i + 1, k)
  BY <1>1, MatchesNext
<1> QED
  BY <1>2

(* A star takes anything.                                                  *)
LEMMA MatchesStar ==
  ASSUME NEW p, NEW t, Len(p) \in Nat, Len(t) \in Nat,
         NEW i \in 0 .. Len(p) - 1, NEW j \in 0 .. Len(t),
         p[i + 1] = "*"
  PROVE  MatchesFrom(p, t, i, j) <=> \E k \in j .. Len(t) : MatchesFrom(p, t, i + 1, k)
<1>1. \A k : Piece(p, t, i + 1, j, k) <=> j <= k
  BY DEF Piece
<1>2. MatchesFrom(p, t, i, j) <=> \E k \in 0 .. Len(t) : j <= k /\ MatchesFrom(p, t, i + 1, k)
  BY <1>1, MatchesNext
<1> QED
  BY <1>2

(* Nothing left of the text is matched by stars alone.                     *)
LEMMA MatchesNothing ==
  ASSUME NEW p, NEW t, Len(p) \in Nat, Len(t) \in Nat, NEW i \in 0 .. Len(p)
  PROVE  MatchesFrom(p, t, i, Len(t)) <=> \A m \in i + 1 .. Len(p) : p[m] = "*"
<1> DEFINE n == Len(p)
           Stars(a) == \A m \in a + 1 .. n : p[m] = "*"
           P == {x \in 0 .. n : MatchesFrom(p, t, n - x, Len(t)) <=> Stars(n - x)}
<1>1. 0 \in P
  BY MatchesEnd
<1>2. ASSUME NEW x \in 0 .. n - 1, x \in P PROVE x + 1 \in P
  <2> DEFINE a == n - (x + 1)
  <2>1. a \in 0 .. n - 1 /\ a + 1 = n - x /\ Len(t) \in 0 .. Len(t)
    OBVIOUS
  <2>2. Stars(a) <=> p[a + 1] = "*" /\ Stars(a + 1)
    BY <2>1
  <2>3. MatchesFrom(p, t, a + 1, Len(t)) <=> Stars(a + 1)
    BY <1>2, <2>1
  <2>4. CASE p[a + 1] = "*"
    <3>1. MatchesFrom(p, t, a, Len(t)) <=> \E k \in Len(t) .. Len(t) : MatchesFrom(p, t, a + 1, k)
      BY <2>1, <2>4, MatchesStar
    <3> QED
      BY <2>1, <2>2, <2>3, <2>4, <3>1
  <2>5. CASE p[a + 1] # "*"
    <3>1. ~MatchesFrom(p, t, a, Len(t))
      BY <2>1, <2>5, MatchesLiteral
    <3> QED
      BY <2>1, <2>2, <2>5, <3>1
  <2> QED
    BY <2>4, <2>5
<1>3. \A x \in 0 .. n : x \in P
  <2> HIDE DEF P
  <2> QED
    BY <1>1, <1>2, InductionUpTo
<1>4. n - i \in 0 .. n /\ n - (n - i) = i
  OBVIOUS
<1> QED
  BY <1>3, <1>4

(* Characters that are no stars take one each.                             *)
LEMMA MatchesRun ==
  ASSUME NEW p, NEW t, Len(p) \in Nat, Len(t) \in Nat, NEW i \in 0 .. Len(p), NEW j \in 0 .. Len(t),
         NEW l \in 0 .. Len(p) - i, \A m \in i + 1 .. i + l : p[m] # "*", MatchesFrom(p, t, i, j)
  PROVE  j + l <= Len(t) /\ MatchesFrom(p, t, i + l, j + l)
<1> DEFINE P == {x \in 0 .. l : j + x <= Len(t) /\ MatchesFrom(p, t, i + x, j + x)}
<1>1. 0 \in P
  OBVIOUS
<1>2. ASSUME NEW x \in 0 .. l - 1, x \in P PROVE x + 1 \in P
  <2>1. /\ i + x \in 0 .. Len(p) - 1 /\ j + x \in 0 .. Len(t) /\ (i + x) + 1 \in i + 1 .. i + l
        /\ MatchesFrom(p, t, i + x, j + x)
    BY <1>2
  <2>2. p[(i + x) + 1] # "*"
    BY <2>1
  <2>3. j + x < Len(t) /\ MatchesFrom(p, t, (i + x) + 1, (j + x) + 1)
    BY <2>1, <2>2, MatchesLiteral
  <2>4. (i + x) + 1 = i + (x + 1) /\ (j + x) + 1 = j + (x + 1)
    OBVIOUS
  <2> QED
    BY <2>3, <2>4
<1>3. \A x \in 0 .. l : x \in P
  <2>1. l \in Nat
    OBVIOUS
  <2> HIDE DEF P
  <2> QED
    BY <1>1, <1>2, <2>1, InductionUpTo
<1> QED
  BY <1>3

-----------------------------------------------------------------------------
(* While glob_match is at work: what matches does so from where it is, or  *)
(* with more of the text for the last star; what it has taken since that   *)
(* star holds no other.                                                    *)
Searching(p, t, g) ==
  /\ g \in GlobStates /\ g.pi <= Len(p) /\ g.ti <= Len(t) /\ g.mark <= g.ti
  /\ g.star # -1 =>
       /\ g.star < g.pi /\ p[g.star + 1] = "*"
       /\ g.pi - (g.star + 1) = g.ti - g.mark
       /\ \A m \in g.star + 2 .. g.pi : p[m] # "*"
  /\ IF g.failed THEN ~MatchesFrom(p, t, 0, 0)
     ELSE MatchesFrom(p, t, 0, 0) <=>
            \/ MatchesFrom(p, t, g.pi, g.ti)
            \/ g.star # -1 /\ \E k \in g.mark + 1 .. Len(t) : MatchesFrom(p, t, g.star + 1, k)

(* The loop goes on.                                                       *)
Active(t, g) == ~g.failed /\ g.ti # Len(t)

(* What a turn does.                                                       *)
LEMMA GlobTurn ==
  ASSUME NEW p, NEW t, NEW g \in GlobStates
  PROVE  LET h == GlobStep(p, t, g)
         IN /\ h \in GlobStates
            /\ IF g.pi < Len(p) /\ p[g.pi + 1] \in {"?", t[g.ti + 1]}
               THEN h.pi = g.pi + 1 /\ h.ti = g.ti + 1 /\ h.star = g.star /\ h.mark = g.mark
                    /\ h.failed = g.failed
               ELSE IF g.pi < Len(p) /\ p[g.pi + 1] = "*"
               THEN h.pi = g.pi + 1 /\ h.ti = g.ti /\ h.star = g.pi /\ h.mark = g.ti
                    /\ h.failed = g.failed
               ELSE IF g.star # -1
               THEN h.pi = g.star + 1 /\ h.ti = g.mark + 1 /\ h.star = g.star
                    /\ h.mark = g.mark + 1 /\ h.failed = g.failed
               ELSE h = [g EXCEPT !.failed = TRUE]
<1> DEFINE h == GlobStep(p, t, g)
           A == g.pi < Len(p) /\ p[g.pi + 1] \in {"?", t[g.ti + 1]}
           B == g.pi < Len(p) /\ p[g.pi + 1] = "*"
           C == g.star # -1
<1>1. h = IF A THEN [g EXCEPT !.pi = @ + 1, !.ti = @ + 1]
          ELSE IF B THEN [g EXCEPT !.star = g.pi, !.mark = g.ti, !.pi = @ + 1]
          ELSE IF C THEN [g EXCEPT !.pi = g.star + 1, !.mark = @ + 1, !.ti = g.mark + 1]
          ELSE [g EXCEPT !.failed = TRUE]
  BY DEF GlobStep
<1>2. C => g.star \in Nat
  BY DEF GlobStates
<1>3. /\ g.pi + 1 \in Nat /\ g.ti + 1 \in Nat /\ g.mark + 1 \in Nat
      /\ g.pi \in Nat /\ g.ti \in Nat /\ (C => g.star + 1 \in Nat)
  BY <1>2 DEF GlobStates
<1> HIDE DEF A, B, C, h
<1>4. CASE A
  <2> DEFINE x == g.pi + 1
             y == g.ti + 1
  <2>1. h = [g EXCEPT !.pi = x, !.ti = y] /\ x \in Nat /\ y \in Nat
    BY <1>1, <1>3, <1>4
  <2> HIDE DEF x, y
  <2>2. /\ h \in GlobStates /\ h.pi = x /\ h.ti = y
        /\ h.star = g.star /\ h.mark = g.mark /\ h.failed = g.failed
    BY <2>1 DEF GlobStates
  <2> QED
    BY <1>4, <2>2 DEF A, h, x, y
<1>5. CASE ~A /\ B
  <2> DEFINE x == g.pi + 1
             y == g.ti
             z == g.pi
  <2>1. h = [g EXCEPT !.star = z, !.mark = y, !.pi = x] /\ x \in Nat /\ y \in Nat /\ z \in Nat
    BY <1>1, <1>3, <1>5
  <2> HIDE DEF x, y, z
  <2>2. /\ h \in GlobStates /\ h.pi = x /\ h.ti = g.ti
        /\ h.star = z /\ h.mark = y /\ h.failed = g.failed
    BY <2>1 DEF GlobStates
  <2> QED
    BY <1>5, <2>2 DEF A, B, h, x, y, z
<1>6. CASE ~A /\ ~B /\ C
  <2> DEFINE x == g.star + 1
             y == g.mark + 1
  <2>1. h = [g EXCEPT !.pi = x, !.mark = y, !.ti = y] /\ x \in Nat /\ y \in Nat
    BY <1>1, <1>3, <1>6
  <2> HIDE DEF x, y
  <2>2. /\ h \in GlobStates /\ h.pi = x /\ h.ti = y
        /\ h.star = g.star /\ h.mark = y /\ h.failed = g.failed
    BY <2>1 DEF GlobStates
  <2> QED
    BY <1>6, <2>2 DEF A, B, C, h, x, y
<1>7. CASE ~A /\ ~B /\ ~C
  BY <1>1, <1>7 DEF GlobStates, A, B, C, h
<1> QED
  BY <1>4, <1>5, <1>6, <1>7

(* A turn keeps the invariant.                                             *)
LEMMA GlobSearches ==
  ASSUME NEW S, NEW p \in Seq(S), NEW t \in Seq(S), "*" \notin ToSet(t),
         NEW g, Searching(p, t, g), Active(t, g)
  PROVE  Searching(p, t, GlobStep(p, t, g))
<1> DEFINE h == GlobStep(p, t, g)
           n == Len(p)
           l == Len(t)
           M(i, j) == MatchesFrom(p, t, i, j)
           a == g.pi
           b == g.ti
           s == g.star
           c == g.mark
<1>1. n \in Nat /\ l \in Nat /\ g \in GlobStates /\ h \in GlobStates
  BY GlobTurn DEF Searching
<1>2. /\ a \in 0 .. n /\ b \in 0 .. l - 1 /\ c \in 0 .. b /\ ~g.failed
      /\ s \in Nat \cup {-1} /\ s \in Int
  BY <1>1 DEF Searching, Active, GlobStates
<1>3. s # -1 => /\ s \in 0 .. a - 1 /\ p[s + 1] = "*"
                     /\ a - (s + 1) = b - c
                     /\ \A m \in s + 2 .. a : p[m] # "*"
  BY <1>1, <1>2 DEF Searching
<1>4. M(0, 0) <=> M(a, b) \/ (s # -1 /\ \E k \in c + 1 .. l : M(s + 1, k))
  BY <1>2 DEF Searching
<1>5. t[b + 1] # "*"
  BY <1>2 DEF ToSet
<1> HIDE DEF h, n, l, a, b, c, s
<1>6. CASE a < n /\ p[a + 1] \in {"?", t[b + 1]}
  <2>1. /\ h.pi = a + 1 /\ h.ti = b + 1 /\ h.star = s /\ h.mark = c /\ h.failed = g.failed
    BY <1>1, <1>6, GlobTurn DEF h, n, a, b, c, s
  <2>2. p[a + 1] # "*"
    BY <1>5, <1>6
  <2>3. M(a, b) <=> M(a + 1, b + 1)
    <3>1. a \in 0 .. n - 1 /\ b \in 0 .. l
      BY <1>1, <1>2, <1>6
    <3> QED
      BY <1>1, <1>2, <1>6, <2>2, <3>1, MatchesLiteral DEF n, l
  <2>4. h.star # -1 => /\ h.star < h.pi /\ p[h.star + 1] = "*"
                       /\ h.pi - (h.star + 1) = h.ti - h.mark
                       /\ \A m \in h.star + 2 .. h.pi : p[m] # "*"
    BY <1>1, <1>2, <1>3, <2>1, <2>2
  <2>5. h.pi <= n /\ h.ti <= l /\ h.mark <= h.ti /\ ~h.failed
    BY <1>1, <1>2, <1>6, <2>1
  <2>6. M(0, 0) <=> M(h.pi, h.ti) \/ (h.star # -1 /\ \E k \in h.mark + 1 .. l : M(h.star + 1, k))
    BY <1>4, <2>1, <2>3
  <2> QED
    BY <1>1, <2>4, <2>5, <2>6 DEF Searching, h, n, l
<1>7. CASE a < n /\ p[a + 1] \notin {"?", t[b + 1]} /\ p[a + 1] = "*"
  <2>1. /\ h.pi = a + 1 /\ h.ti = b /\ h.star = a /\ h.mark = b /\ h.failed = g.failed
    BY <1>1, <1>7, GlobTurn DEF h, n, a, b, c, s
  <2>2. a \in 0 .. n - 1 /\ b \in 0 .. l /\ a # -1
    BY <1>1, <1>2, <1>7
  <2>3. \A j \in 0 .. l : M(a, j) <=> \E k \in j .. l : M(a + 1, k)
    BY <1>1, <1>7, <2>2, MatchesStar DEF n, l
  <2>4. ASSUME s # -1, NEW k \in c + 1 .. l, M(s + 1, k) PROVE M(a, b)
    <3> DEFINE x == b - c
               i == s + 1
    <3>1. /\ i \in 0 .. n /\ k \in 0 .. l /\ x \in 0 .. n - i /\ i + x = a
          /\ \A m \in i + 1 .. i + x : p[m] # "*"
      BY <1>1, <1>2, <1>3, <2>4
    <3> HIDE DEF x, i
    <3>2. k + x <= l /\ M(i + x, k + x)
      <4>1. M(i, k)
        BY <2>4 DEF i
      <4> QED
        BY <1>1, <3>1, <4>1, MatchesRun DEF n, l
    <3>3. k + x \in 0 .. l /\ b <= k + x
      BY <1>1, <1>2, <2>4, <3>1, <3>2 DEF x
    <3>4. PICK q \in k + x .. l : M(a + 1, q)
      BY <2>3, <3>1, <3>2, <3>3
    <3>5. q \in b .. l
      BY <1>1, <2>2, <3>3, <3>4
    <3> QED
      BY <2>2, <2>3, <3>4, <3>5
  <2>5. M(a, b) <=> M(h.pi, h.ti) \/ (h.star # -1 /\ \E k \in h.mark + 1 .. l : M(h.star + 1, k))
    <3>1. \A k : k \in b .. l <=> (k = b \/ k \in b + 1 .. l)
      BY <1>1, <2>2
    <3> QED
      BY <2>1, <2>2, <2>3, <3>1
  <2>6. M(0, 0) <=> M(h.pi, h.ti) \/ (h.star # -1 /\ \E k \in h.mark + 1 .. l : M(h.star + 1, k))
    BY <1>4, <2>4, <2>5
  <2>7. /\ h.star < h.pi /\ p[h.star + 1] = "*" /\ h.pi - (h.star + 1) = h.ti - h.mark
        /\ \A m \in h.star + 2 .. h.pi : p[m] # "*"
    BY <1>1, <1>2, <1>7, <2>1, <2>2
  <2>8. h.pi <= n /\ h.ti <= l /\ h.mark <= h.ti /\ ~h.failed
    BY <1>1, <1>2, <1>7, <2>1
  <2> QED
    BY <1>1, <2>6, <2>7, <2>8 DEF Searching, h, n, l
<1>8. CASE ~(a < n /\ p[a + 1] \in {"?", t[b + 1]}) /\ ~(a < n /\ p[a + 1] = "*")
  <2>1. ~M(a, b)
    <3>1. CASE a = n
      <4>1. b \in 0 .. l /\ b # l
        BY <1>1, <1>2
      <4> QED
        BY <1>1, <3>1, <4>1, MatchesEnd DEF n, l
    <3>2. CASE a # n
      <4>1. a \in 0 .. n - 1 /\ a < n /\ b \in 0 .. l
        BY <1>1, <1>2, <3>2
      <4>2. p[a + 1] # "*" /\ p[a + 1] \notin {"?", t[b + 1]}
        BY <1>8, <4>1
      <4> QED
        BY <1>1, <4>1, <4>2, MatchesLiteral DEF n, l
    <3> QED
      BY <3>1, <3>2
  <2>2. CASE s # -1
    <3>1. /\ h.pi = s + 1 /\ h.ti = c + 1 /\ h.star = s /\ h.mark = c + 1
          /\ h.failed = g.failed
      BY <1>1, <1>8, <2>2, GlobTurn DEF h, n, a, b, c, s
    <3>2. \A k : k \in c + 1 .. l <=> (k = c + 1 \/ k \in (c + 1) + 1 .. l)
      BY <1>1, <1>2
    <3>3. M(0, 0) <=> M(h.pi, h.ti) \/ (h.star # -1 /\ \E k \in h.mark + 1 .. l : M(h.star + 1, k))
      BY <1>4, <2>1, <2>2, <3>1, <3>2
    <3>4. /\ h.star < h.pi /\ p[h.star + 1] = "*" /\ h.pi - (h.star + 1) = h.ti - h.mark
          /\ \A m \in h.star + 2 .. h.pi : p[m] # "*"
      BY <1>1, <1>2, <1>3, <2>2, <3>1
    <3>5. h.pi <= n /\ h.ti <= l /\ h.mark <= h.ti /\ ~h.failed
      BY <1>1, <1>2, <1>3, <2>2, <3>1
    <3> QED
      BY <1>1, <3>3, <3>4, <3>5 DEF Searching, h, n, l
  <2>3. CASE s = -1
    <3>1. ~M(0, 0)
      BY <1>4, <2>1, <2>3
    <3>2. h = [g EXCEPT !.failed = TRUE]
      BY <1>1, <1>8, <2>3, GlobTurn DEF h, n, a, b, c, s
    <3>3. /\ h.pi = a /\ h.ti = b /\ h.star = s /\ h.mark = c
          /\ h.failed
      BY <1>1, <3>2 DEF GlobStates, a, b, c, s
    <3> QED
      BY <1>1, <1>2, <2>3, <3>1, <3>3 DEF Searching, h, n, l
  <2> QED
    BY <2>2, <2>3
<1> QED
  BY <1>6, <1>7, <1>8

-----------------------------------------------------------------------------
(* One turn of the loop.                                                   *)
Turned(p, t, g) == IF g.failed \/ g.ti = Len(t) THEN g ELSE GlobStep(p, t, g)

(* Its turns, one after the other.                                         *)
Runs(p, t, f) ==
  /\ \A k \in 0 .. MaxTurns(p, t) : f[k] \in GlobStates
  /\ f[0] = GlobStart
  /\ \A k \in 1 .. MaxTurns(p, t) : f[k] = Turned(p, t, f[k - 1])

(* glob_match takes its turns one by one.                                  *)
LEMMA GlobRuns ==
  ASSUME NEW p, NEW t, Len(p) \in Nat, Len(t) \in Nat, MaxTurns(p, t) \in Nat
  PROVE  \E f : /\ Runs(p, t, f)
                /\ LET end == f[MaxTurns(p, t)]
                   IN GlobMatch(p, t) <=> ~end.failed /\ \A i \in end.pi + 1 .. Len(p) : p[i] = "*"
<1> DEFINE n == MaxTurns(p, t)
           V == GlobStates
           Turn == [g \in GlobStates |-> IF g.failed \/ g.ti = Len(t) THEN g ELSE GlobStep(p, t, g)]
           Rule(f) ==
             f = [k \in 0 .. MaxTurns(p, t) |-> IF k = 0 THEN GlobStart ELSE Turn[f[k - 1]]]
           step == [k \in 1 .. n |-> Turn]
           f == CHOOSE h : Rule(h)
<1>1. n \in Nat /\ GlobStart \in V
  BY DEF GlobStart, GlobStates
<1>2. \A g \in V : Turned(p, t, g) \in V /\ Turn[g] = Turned(p, t, g)
  BY GlobTurn DEF Turned
<1>3. Turn \in [V -> V]
  <2>1. \A g \in V : (IF g.failed \/ g.ti = Len(t) THEN g ELSE GlobStep(p, t, g)) \in V
    BY GlobTurn
  <2> HIDE DEF V
  <2> QED
    BY <2>1 DEF V
<1>4. GlobMatch(p, t) <=> ~f[n].failed /\ \A i \in f[n].pi + 1 .. Len(p) : p[i] = "*"
  BY DEF GlobMatch
<1> HIDE DEF Turn, f
<1>5. \E h : Rule(h)
  <2> HIDE DEF V, n
  <2>1. step \in [1 .. n -> [V -> V]]
    BY <1>3
  <2>2. \E h : Recurses(h, n, V, GlobStart, step)
    <3> HIDE DEF step
    <3> QED
      BY <1>1, <2>1, RecursionExists
  <2>3. PICK h : /\ h \in [0 .. n -> V] /\ h[0] = GlobStart
                 /\ \A k \in 1 .. n : h[k] = step[k][h[k - 1]]
    <3> HIDE DEF step
    <3> QED
      BY <2>2 DEF Recurses
  <2>4. ASSUME NEW k \in 0 .. n PROVE h[k] = IF k = 0 THEN GlobStart ELSE Turn[h[k - 1]]
    BY <1>1, <2>3
  <2>5. h = [k \in 0 .. n |-> IF k = 0 THEN GlobStart ELSE Turn[h[k - 1]]]
    <3> HIDE DEF step
    <3> QED
      BY <2>3, <2>4
  <2> QED
    BY <2>5 DEF n
<1>6. Rule(f)
  <2> HIDE DEF Rule
  <2> QED
    BY <1>5 DEF f
<1>7. \A k \in 0 .. n : f[k] = IF k = 0 THEN GlobStart ELSE Turn[f[k - 1]]
  BY <1>6
<1> HIDE DEF Rule, n, V
<1>8. f[0] = GlobStart /\ \A k \in 1 .. n : k - 1 \in 0 .. n /\ f[k] = Turn[f[k - 1]]
  BY <1>1, <1>7
<1>9. \A k \in 0 .. n : f[k] \in V
  <2> DEFINE P == {k \in 0 .. n : f[k] \in V}
  <2>1. 0 \in P
    BY <1>1, <1>8
  <2>2. ASSUME NEW k \in 0 .. n - 1, k \in P PROVE k + 1 \in P
    <3>1. k + 1 \in 1 .. n /\ (k + 1) - 1 = k /\ k + 1 \in 0 .. n
      BY <1>1
    <3>2. f[k + 1] = Turn[f[k]] /\ f[k] \in V
      BY <1>8, <2>2, <3>1
    <3> QED
      BY <1>2, <3>1, <3>2
  <2> HIDE DEF P
  <2>3. \A k \in 0 .. n : k \in P
    BY <1>1, <2>1, <2>2, InductionUpTo
  <2> QED
    BY <2>3 DEF P
<1>10. \A k \in 1 .. n : f[k] = Turned(p, t, f[k - 1])
  BY <1>2, <1>8, <1>9
<1>11. Runs(p, t, f)
  BY <1>8, <1>9, <1>10 DEF Runs, n, V
<1> QED
  BY <1>4, <1>11 DEF n

(* How far it is: each turn moves the mark, or goes on in the pattern.     *)
Progress(p, g) == g.mark * (Len(p) + 1) + g.pi

(* Each turn is progress.                                                  *)
LEMMA GlobAdvances ==
  ASSUME NEW S, NEW p \in Seq(S), NEW t \in Seq(S), NEW g, Searching(p, t, g), Active(t, g),
         LET h == GlobStep(p, t, g) IN ~h.failed
  PROVE  Progress(p, GlobStep(p, t, g)) >= Progress(p, g) + 1
<1> DEFINE h == GlobStep(p, t, g)
           K == Len(p) + 1
<1>1. g \in GlobStates /\ K \in Nat /\ h \in GlobStates /\ ~h.failed /\ ~g.failed /\ Len(p) \in Nat
  BY GlobTurn DEF Searching, Active
<1>2. \/ h.pi = g.pi + 1 /\ h.mark = g.mark
      \/ h.pi = g.pi + 1 /\ h.mark = g.ti
      \/ h.pi = g.star + 1 /\ h.mark = g.mark + 1 /\ g.star # -1
      \/ h = [g EXCEPT !.failed = TRUE]
  BY <1>1, GlobTurn
<1>3. h # [g EXCEPT !.failed = TRUE]
  BY <1>1 DEF GlobStates
<1>4. /\ g.pi \in Nat /\ h.pi \in Nat /\ g.mark \in Nat /\ h.mark \in Nat
      /\ g.pi <= Len(p) /\ g.mark <= g.ti
      /\ g.ti \in Nat
  BY <1>1 DEF Searching, GlobStates
<1> DEFINE a == g.mark
           b == h.mark
<1>5. \/ h.pi = g.pi + 1 /\ b >= a
      \/ b = a + 1 /\ h.pi >= 0
  BY <1>2, <1>3, <1>4
<1> HIDE DEF h, K, a, b
<1>6. a \in Nat /\ b \in Nat /\ K \in Nat
  BY <1>1, <1>4 DEF a, b
<1>7. (a + 1) * K = a * K + K
  BY <1>6
<1>8. b >= a => b * K >= a * K
  BY <1>6
<1>9. a * K \in Nat /\ b * K \in Nat
  BY <1>6
<1> DEFINE x == a * K
           y == b * K
<1>10. x \in Nat /\ y \in Nat /\ (b >= a => y >= x) /\ (b = a + 1 => y = x + K)
  BY <1>7, <1>8, <1>9
<1> HIDE DEF x, y
<1>11. y + h.pi >= (x + g.pi) + 1
  BY <1>1, <1>4, <1>5, <1>6, <1>10 DEF K
<1> QED
  BY <1>11 DEF Progress, x, y, a, b, h, K

(* glob_match finds a match if and only if there is one: that its loop     *)
(* goes back to no star but the last one met loses none. The text must     *)
(* have no star of its own, which the loop would take for a plain          *)
(* character of the pattern (glob_match).                                  *)
THEOREM GlobMatches ==
  ASSUME NEW S, NEW p \in Seq(S), NEW t \in Seq(S), "*" \notin ToSet(t)
  PROVE  GlobMatch(p, t) <=> Call!Matches(p, t)
<1> DEFINE n == MaxTurns(p, t)
<1>1. n \in Nat /\ Len(p) \in Nat /\ Len(t) \in Nat
  BY DEF MaxTurns
<1>2. PICK f : /\ Runs(p, t, f)
               /\ GlobMatch(p, t) <=> ~f[n].failed /\ \A i \in f[n].pi + 1 .. Len(p) : p[i] = "*"
  BY <1>1, GlobRuns
<1> DEFINE Rank(k) == Progress(p, f[k])
           Good(k) == /\ Searching(p, t, f[k])
                      /\ Active(t, f[k]) => Rank(k) >= k
           P == {k \in 0 .. n : Good(k)}
<1>3. 0 \in P
  <2>1. f[0] = GlobStart
    BY <1>2 DEF Runs
  <2>2. Searching(p, t, f[0])
    BY <1>1, <2>1 DEF Searching, GlobStart, GlobStates
  <2>3. Progress(p, f[0]) = 0 * (Len(p) + 1) + 0
    BY <2>1 DEF Progress, GlobStart
  <2>4. Progress(p, f[0]) >= 0
    BY <1>1, <2>3
  <2> HIDE DEF n
  <2> QED
    BY <1>1, <2>2, <2>4
<1>4. ASSUME NEW k \in 0 .. n - 1, k \in P PROVE k + 1 \in P
  <2> HIDE DEF n
  <2>1. k + 1 \in 0 .. n /\ k + 1 \in 1 .. n /\ (k + 1) - 1 = k /\ k \in Nat
    BY <1>1
  <2>2. f[k + 1] = Turned(p, t, f[k])
    BY <1>2, <2>1 DEF Runs, n
  <2>3. CASE Active(t, f[k])
    <3>1. f[k + 1] = GlobStep(p, t, f[k])
      BY <2>2, <2>3 DEF Turned, Active
    <3>2. Searching(p, t, f[k + 1])
      BY <1>4, <2>3, <3>1, GlobSearches
    <3>3. Active(t, f[k + 1]) => Progress(p, f[k + 1]) >= k + 1
      <4> SUFFICES ASSUME Active(t, f[k + 1]) PROVE Progress(p, f[k + 1]) >= k + 1
        OBVIOUS
      <4>1. Progress(p, f[k + 1]) >= Progress(p, f[k]) + 1
        BY <1>4, <2>3, <3>1, GlobAdvances DEF Active
      <4>2. Progress(p, f[k]) >= k
        BY <1>4, <2>3
      <4>3. Progress(p, f[k]) \in Int /\ Progress(p, f[k + 1]) \in Int
        <5>1. \A g \in GlobStates : Progress(p, g) \in Int
          BY <1>1 DEF Progress, GlobStates
        <5> QED
          BY <1>4, <3>2, <5>1 DEF Searching
      <4> QED
        BY <2>1, <4>1, <4>2, <4>3
    <3> QED
      BY <2>1, <3>2, <3>3
  <2>4. CASE ~Active(t, f[k])
    <3>1. f[k + 1] = f[k]
      BY <2>2, <2>4 DEF Turned, Active
    <3> QED
      BY <1>4, <2>1, <2>4, <3>1
  <2> QED
    BY <2>3, <2>4
<1>5. Good(n)
  <2>1. \A k \in 0 .. n : k \in P
    <3> HIDE DEF P, n
    <3> QED
      BY <1>1, <1>3, <1>4, InductionUpTo
  <2>2. n \in 0 .. n
    BY <1>1
  <2> QED
    BY <2>1, <2>2
<1> DEFINE g == f[n]
<1>6. Searching(p, t, g) /\ (Active(t, g) => Progress(p, g) >= n)
  BY <1>5
<1> HIDE DEF g
<1>7. ~Active(t, g)
  <2> DEFINE K == Len(p) + 1
             a == g.mark
             L == Len(t)
  <2>1. a \in Nat /\ g.pi \in Nat /\ g.pi < K /\ a <= L /\ K \in Nat /\ L \in Nat
    BY <1>1, <1>6 DEF Searching, GlobStates
  <2>2. Progress(p, g) = a * K + g.pi /\ n = (L + 1) * K
    BY DEF Progress, MaxTurns
  <2> HIDE DEF K, a, L, n
  <2>3. a * K <= L * K /\ (L + 1) * K = L * K + K /\ a * K \in Nat /\ L * K \in Nat
    BY <2>1
  <2> DEFINE x == a * K
             y == L * K
  <2>4. x <= y /\ n = y + K /\ Progress(p, g) = x + g.pi /\ x \in Nat /\ y \in Nat
    BY <2>2, <2>3
  <2> HIDE DEF x, y
  <2>5. Progress(p, g) < n
    BY <2>1, <2>4
  <2> QED
    BY <1>6, <2>1, <2>4, <2>5
<1>8. g \in GlobStates /\ g.pi \in 0 .. Len(p) /\ g.ti \in Nat /\ g.mark \in Nat /\ g.star \in Int
  BY <1>1, <1>6 DEF Searching, GlobStates
<1>9. GlobMatch(p, t) <=> ~g.failed /\ \A i \in g.pi + 1 .. Len(p) : p[i] = "*"
  BY <1>2 DEF g
<1>10. Call!Matches(p, t) <=> MatchesFrom(p, t, 0, 0)
  BY MatchesAll
<1>11. CASE g.failed
  BY <1>6, <1>9, <1>10, <1>11 DEF Searching
<1>12. CASE ~g.failed
  <2>1. g.ti = Len(t)
    BY <1>7, <1>12 DEF Active
  <2>2. MatchesFrom(p, t, g.pi, Len(t)) <=> \A m \in g.pi + 1 .. Len(p) : p[m] = "*"
    BY <1>1, <1>8, MatchesNothing
  <2>3. ASSUME g.star # -1, NEW k \in g.mark + 1 .. Len(t) PROVE ~MatchesFrom(p, t, g.star + 1, k)
    <3> DEFINE x == Len(t) - g.mark
               i == g.star + 1
    <3>1. /\ i \in 0 .. Len(p) /\ k \in 0 .. Len(t) /\ x \in 0 .. Len(p) - i
          /\ \A m \in i + 1 .. i + x : p[m] # "*"
      <4>1. /\ g.star < g.pi /\ g.pi - (g.star + 1) = g.ti - g.mark /\ g.mark <= g.ti
            /\ \A m \in g.star + 2 .. g.pi : p[m] # "*"
        BY <1>6, <2>3 DEF Searching
      <4>2. g.star \in Nat
        BY <1>8, <2>3 DEF GlobStates
      <4>3. i + x = g.pi /\ i + 1 = g.star + 2 /\ i \in Nat /\ x \in Nat
        <5> DEFINE a == g.star
                   b == g.pi
                   c == g.mark
                   d == g.ti
        <5>1. /\ a \in Nat /\ b \in Nat /\ c \in Nat /\ d \in Nat
              /\ a < b /\ b - (a + 1) = d - c /\ c <= d /\ Len(t) = d
          BY <1>8, <2>1, <4>1, <4>2
        <5>2. i = a + 1 /\ x = Len(t) - c
          OBVIOUS
        <5> HIDE DEF a, b, c, d, i, x
        <5>3. i + x = b /\ i + 1 = a + 2 /\ i \in Nat /\ x \in Nat
          BY <5>1, <5>2
        <5> QED
          BY <5>3 DEF a, b
      <4>4. \A m \in i + 1 .. i + x : p[m] # "*"
        BY <4>1, <4>3
      <4> HIDE DEF i, x
      <4> QED
        BY <1>1, <1>8, <4>3, <4>4
    <3>2. ~(k + x <= Len(t))
      BY <1>1, <1>8, <2>3
    <3> HIDE DEF i, x
    <3>3. ~MatchesFrom(p, t, i, k)
      BY <1>1, <3>1, <3>2, MatchesRun
    <3> QED
      BY <3>3 DEF i
  <2>4. MatchesFrom(p, t, 0, 0) <=> MatchesFrom(p, t, g.pi, Len(t))
    BY <1>6, <1>12, <2>1, <2>3 DEF Searching
  <2> QED
    BY <1>9, <1>10, <1>12, <2>2, <2>4
<1> QED
  BY <1>11, <1>12

-----------------------------------------------------------------------------
(* The abstract call speaks of the same sequences,                         *)
LEMMA CallSeqs ==
  ASSUME NEW s
  PROVE  /\ Call!Last(s) = Last(s) /\ Call!Front(s) = Front(s) /\ Call!ToSet(s) = ToSet(s)
         /\ Call!FlattenSeq(s) = FlattenSeq(s)
<1>1. Call!Last(s) = Last(s) /\ Call!Front(s) = Front(s) /\ Call!ToSet(s) = ToSet(s)
  BY DEF Call!Last, Last, Call!Front, Front, Call!ToSet, ToSet
<1>2. Call!FlattenSeq(s) = FlattenSeq(s)
  BY DEF Call!FlattenSeq, FlattenSeq
<1> QED
  BY <1>1, <1>2

(* of the same trees,                                                      *)
LEMMA CallPaths ==
  ASSUME NEW t, NEW path
  PROVE  /\ Call!Canonical(t, path) = Canonical(t, path)
         /\ Call!NodeAt(t, path) = NodeAt(t, path)
         /\ Call!IsFile(t, path) = IsFile(t, path) /\ Call!IsDir(t, path) = IsDir(t, path)
         /\ Call!Names(t, path) = Names(t, path)
         /\ Call!Unfollowed(t, path) = Unfollowed(t, path)
<1>1. \A p : Call!Canonical(t, p) = Canonical(t, p)
  BY DEF Call!Canonical, Canonical, Call!Spots, Spots, Call!Enter, Enter, Call!NoPath, NoPath
<1>2. Call!NodeAt(t, path) = NodeAt(t, path)
  BY <1>1 DEF Call!NodeAt, NodeAt, Call!NoPath, NoPath
<1>3. Call!IsFile(t, path) = IsFile(t, path) /\ Call!IsDir(t, path) = IsDir(t, path)
  BY <1>2 DEF Call!IsFile, IsFile, Call!IsDir, IsDir, Call!FileKinds, FileKinds
<1>4. Call!Names(t, path) = Names(t, path)
  BY <1>1, CallSeqs DEF Call!Names, Names, Call!NoPath, NoPath
<1>5. Call!Unfollowed(t, path) = Unfollowed(t, path)
  BY <1>1, CallSeqs DEF Call!Unfollowed, Unfollowed, Call!NoPath, NoPath
<1> QED
  BY <1>1, <1>2, <1>3, <1>4, <1>5

(* and of the same libraries.                                              *)
LEMMA CallLibraries ==
  ASSUME NEW w
  PROVE  Call!Libraries(w) = Libraries(w)
<1>1. \A path : Call!Objects(w, path) = Objects(w, path)
  BY CallPaths DEF Call!Objects, Objects, Call!Usable, Usable
<1>2. \A r : Call!Onward(w, r) = Onward(w, r)
  <2>1. \A d : Call!Followable(d) = Followable(d)
    BY CallSeqs DEF Call!Followable, Followable, Call!NoPath, NoPath
  <2>2. \A p : Call!RunPathDirs(w, p) = RunPathDirs(w, p)
    BY <2>1, CallPaths, CallSeqs DEF Call!RunPathDirs, RunPathDirs
  <2>3. \A path : Call!Subdirs(w, path) = Subdirs(w, path)
    BY CallPaths DEF Call!Subdirs, Subdirs
  <2> QED
    BY <1>1, <2>2, <2>3 DEF Call!Onward, Onward
<1>3. Call!GivenRoots(w) = GivenRoots(w)
  <2>1. Call!ToSet(w.libs) = ToSet(w.libs) /\ Call!ToSet(w.paths) = ToSet(w.paths)
    BY CallSeqs
  <2> QED
    BY <2>1, Zenon DEF Call!GivenRoots, GivenRoots
<1>4. Call!Reachable(w) = Reachable(w)
  <2> DEFINE F(W) == [n \in 0 .. Depth |->
                        IF n = 0 THEN GivenRoots(w)
                        ELSE W[n - 1] \cup UNION {Onward(w, r) : r \in W[n - 1]}]
             G(W) == [n \in 0 .. Depth |->
                        IF n = 0 THEN Call!GivenRoots(w)
                        ELSE W[n - 1] \cup UNION {Call!Onward(w, r) : r \in W[n - 1]}]
  <2>1. Reachable(w) = (CHOOSE W : W = F(W))[Depth]
    BY DEF Reachable
  <2>2. Call!Reachable(w) = (CHOOSE W : W = G(W))[Depth]
    BY DEF Call!Reachable
  <2>3. \A W : F(W) = G(W)
    BY <1>2, <1>3
  <2> HIDE DEF F, G
  <2>4. (CHOOSE W : W = F(W)) = (CHOOSE W : W = G(W))
    BY <2>3, Zenon
  <2> QED
    BY <2>1, <2>2, <2>4
<1>5. \A p : Call!Described(w, p) = Described(w, p)
  BY CallPaths, CallSeqs DEF Call!Described, Described
<1> QED
  BY <1>1, <1>4, <1>5 DEF Call!Libraries, Libraries

(* Two texts on end.                                                       *)
LEMMA TextsJoined ==
  ASSUME NEW S, NEW a \in Seq(S), NEW b \in Seq(S)
  PROVE  a \o b \in Seq(S) /\ ToSet(a \o b) = ToSet(a) \cup ToSet(b)
<1>1. IsSeq(a) /\ IsSeq(b)
  BY SeqIsSeq
<1>2. ToSet(a \o b) = ToSet(a) \cup ToSet(b)
  BY <1>1, JoinSet
<1> QED
  BY <1>2

-----------------------------------------------------------------------------
(* What the text of a dependency is made of.                               *)
Letters == STRING \cup {"a", "n", "y", "(", ",", " ", ")", "/"}

(* Names are.                                                              *)
LEMMA LettersText ==
  /\ \A s : s \in Seq(STRING) => s \in Seq(Letters)
  /\ \A s : s \in Seq(Seq(STRING)) => s \in Seq(Seq(Letters))
<1>1. ASSUME NEW S, NEW L, S \subseteq L, NEW s \in Seq(S) PROVE s \in Seq(L)
  <2>1. Len(s) \in Nat /\ \A i \in 1 .. Len(s) : s[i] \in L
    BY <1>1
  <2> QED
    BY <2>1
<1>2. \A s : s \in Seq(STRING) => s \in Seq(Letters)
  <2> DEFINE S == STRING
  <2>1. S \subseteq Letters
    BY DEF Letters
  <2> HIDE DEF S
  <2>2. \A s : s \in Seq(S) => s \in Seq(Letters)
    BY <1>1, <2>1
  <2> QED
    BY <2>2 DEF S
<1>3. \A s : s \in Seq(Seq(STRING)) => s \in Seq(Seq(Letters))
  <2> DEFINE S == Seq(STRING)
             L == Seq(Letters)
  <2>1. S \subseteq L
    BY <1>2
  <2> HIDE DEF S, L
  <2>2. \A s : s \in Seq(S) => s \in Seq(L)
    BY <1>1, <2>1
  <2> QED
    BY <2>2 DEF S, L
<1> QED
  BY <1>2, <1>3

(* A name, or a path written out, has no star in it.                       *)
LEMMA SpelledIs ==
  ASSUME NEW c \in Sonames
  PROVE  /\ Call!Spelled(Chars, c) = Spelled(Chars, c)
         /\ Spelled(Chars, c) \in Seq(Letters) /\ "*" \notin ToSet(Spelled(Chars, c))
<1> DEFINE names == Tail(c)
           slash == <<"/">>
           part(i) == slash \o Chars[names[i]]
           parts == [i \in DOMAIN names |-> part(i)]
           V == Seq(Letters)
<1>1. c \in Seq(STRING) /\ c # <<>> /\ ToSet(names) \cup {Last(c)} \subseteq DOMAIN Chars
  BY DEF Sonames, NoPath
<1>2. ASSUME NEW n \in DOMAIN Chars PROVE Chars[n] \in V /\ "*" \notin ToSet(Chars[n])
  <2>1. Chars[n] \in Seq(STRING) /\ "*" \notin ToSet(Chars[n])
    BY AutoAssumption
  <2> QED
    BY <2>1, LettersText
<1>3. slash \in V /\ ToSet(slash) = {"/"}
  <2>1. "/" \in Letters
    BY DEF Letters
  <2>2. DOMAIN slash = {1} /\ slash[1] = "/"
    OBVIOUS
  <2> QED
    BY <2>1, <2>2 DEF ToSet
<1>4. names \in Seq(STRING) /\ DOMAIN names = 1 .. Len(names) /\ Len(names) \in Nat
  BY <1>1
<1>5. \A i \in DOMAIN names : names[i] \in DOMAIN Chars
  <2> HIDE DEF names
  <2> QED
    BY <1>1 DEF ToSet
<1>6. \A i \in DOMAIN names : part(i) \in V /\ "*" \notin ToSet(part(i))
  <2> SUFFICES ASSUME NEW i \in DOMAIN names PROVE part(i) \in V /\ "*" \notin ToSet(part(i))
    OBVIOUS
  <2> DEFINE x == Chars[names[i]]
  <2>1. x \in V /\ "*" \notin ToSet(x)
    BY <1>2, <1>5
  <2> HIDE DEF x, slash
  <2>2. slash \o x \in V /\ ToSet(slash \o x) = ToSet(slash) \cup ToSet(x)
    BY <1>3, <2>1, TextsJoined
  <2>3. "*" \notin ToSet(slash \o x)
    BY <1>3, <2>1, <2>2
  <2> QED
    BY <2>2, <2>3 DEF x
<1>7. parts \in Seq(V) /\ DOMAIN parts = DOMAIN names
  <2> DEFINE n == Len(names)
  <2>1. parts \in [1 .. n -> V] /\ n \in Nat /\ DOMAIN names = 1 .. n
    <3> HIDE DEF names, part, V
    <3> QED
      BY <1>4, <1>6
  <2> HIDE DEF parts, n, V, names
  <2> QED
    BY <2>1, ListOver
<1>8. FlattenSeq(parts) \in V /\ "*" \notin ToSet(FlattenSeq(parts))
  <2>1. \A i \in DOMAIN parts : "*" \notin ToSet(parts[i])
    <3> HIDE DEF part, names
    <3> QED
      BY <1>6
  <2> HIDE DEF parts
  <2>2. FlattenSeq(parts) \in V
        /\ ToSet(FlattenSeq(parts)) = UNION {ToSet(parts[i]) : i \in DOMAIN parts}
    BY <1>7, FlattenedSet
  <2> QED
    BY <2>1, <2>2
<1>9. Spelled(Chars, c) = IF IsAbsolute(c) THEN FlattenSeq(parts) ELSE Chars[Last(c)]
  BY DEF Spelled
<1>10. Call!Spelled(Chars, c) = IF IsAbsolute(c) THEN FlattenSeq(parts) ELSE Chars[Last(c)]
  <2>1. Call!Spelled(Chars, c) = IF c[1] = "/" THEN Call!FlattenSeq(parts) ELSE Chars[Call!Last(c)]
    BY DEF Call!Spelled, Call!IsAbsolute
  <2>2. Call!FlattenSeq(parts) = FlattenSeq(parts) /\ Call!Last(c) = Last(c)
    <3> HIDE DEF parts
    <3> QED
      BY CallSeqs
  <2> HIDE DEF parts
  <2> QED
    BY <2>1, <2>2 DEF IsAbsolute
<1>11. Chars[Last(c)] \in V /\ "*" \notin ToSet(Chars[Last(c)])
  BY <1>1, <1>2
<1> HIDE DEF parts
<1> QED
  BY <1>8, <1>9, <1>10, <1>11

(* The report prints what the promise says, and no star.                   *)
LEMMA TextIs ==
  ASSUME NEW dep \in Seq(Sonames)
  PROVE  /\ Text(dep) = Call!Named(dep)
         /\ Text(dep) \in Seq(Letters) /\ "*" \notin ToSet(Text(dep))
<1> DEFINE name(i) == Spelled(Chars, dep[i])
           V == Seq(Letters)
           sep == <<",", " ">>
           after(i) == IF i = 1 THEN name(1) ELSE sep \o name(i)
           listed(i) == (IF i = 1 THEN <<>> ELSE sep) \o name(i)
           parts == [i \in DOMAIN dep |-> after(i)]
           n == Len(dep)
           open == <<"a", "n", "y", "(">>
           close == <<")">>
           F == FlattenSeq(parts)
<1>1. n \in Nat /\ DOMAIN dep = 1 .. n
  OBVIOUS
<1>2. \A i \in 1 .. n : name(i) \in V /\ "*" \notin ToSet(name(i))
  <2> SUFFICES ASSUME NEW i \in DOMAIN dep PROVE name(i) \in V /\ "*" \notin ToSet(name(i))
    BY <1>1
  <2>1. dep[i] \in Sonames
    OBVIOUS
  <2> QED
    BY <2>1, SpelledIs
<1>3. Text(dep) = IF n = 1 THEN name(1) ELSE open \o F \o close
  BY DEF Text
<1>4. Call!Named(dep) = IF n = 1 THEN name(1)
                        ELSE open \o FlattenSeq([i \in DOMAIN dep |-> listed(i)]) \o close
  <2> DEFINE G == [i \in DOMAIN dep |->
                     (IF i = 1 THEN <<>> ELSE <<",", " ">>) \o Call!Spelled(Chars, dep[i])]
  <2>1. Call!Named(dep) = IF Len(dep) = 1 THEN Call!Spelled(Chars, dep[1])
                          ELSE <<"a", "n", "y", "(">> \o Call!FlattenSeq(G) \o <<")">>
    BY DEF Call!Named
  <2>2. \A i \in DOMAIN dep : Call!Spelled(Chars, dep[i]) = Spelled(Chars, dep[i])
    <3> SUFFICES ASSUME NEW i \in DOMAIN dep
                 PROVE  Call!Spelled(Chars, dep[i]) = Spelled(Chars, dep[i])
      OBVIOUS
    <3>1. dep[i] \in Sonames
      OBVIOUS
    <3> QED
      BY <3>1, SpelledIs
  <2>3. G = [i \in DOMAIN dep |-> listed(i)]
    BY <2>2
  <2> HIDE DEF G
  <2>4. Call!FlattenSeq(G) = FlattenSeq([i \in DOMAIN dep |-> listed(i)])
    BY <2>3, CallSeqs
  <2> HIDE DEF listed
  <2> QED
    BY <2>1, <2>2, <2>4
<1>5. /\ sep \in Seq(Letters) /\ ToSet(sep) = {",", " "}
      /\ open \in Seq(Letters) /\ ToSet(open) = {"a", "n", "y", "("}
      /\ close \in Seq(Letters) /\ ToSet(close) = {")"}
  <2>1. \A a : ToSet(<<a>>) = {a}
    <3> QED
      BY DEF ToSet
  <2>2. \A a, b : ToSet(<<a, b>>) = {a, b}
    <3> SUFFICES ASSUME NEW a, NEW b PROVE ToSet(<<a, b>>) = {a, b}
      OBVIOUS
    <3>1. DOMAIN <<a, b>> = {1, 2}
      OBVIOUS
    <3> QED
      BY <3>1 DEF ToSet
  <2>3. ASSUME NEW a, NEW b, NEW c, NEW d
        PROVE  ToSet(<<a, b, c, d>>) = {a, b, c, d}
    <3>1. DOMAIN <<a, b, c, d>> = {1, 2, 3, 4}
      OBVIOUS
    <3> QED
      BY <3>1 DEF ToSet
  <2>4. ToSet(open) = {"a", "n", "y", "("}
    BY <2>3
  <2>5. ToSet(sep) = {",", " "} /\ ToSet(close) = {")"}
    BY <2>1, <2>2
  <2>6. sep \in Seq(Letters) /\ open \in Seq(Letters) /\ close \in Seq(Letters)
    BY DEF Letters
  <2> QED
    BY <2>4, <2>5, <2>6
<1>13. \A a, b \in Seq(Letters) : a \o b \in Seq(Letters) /\ ToSet(a \o b) = ToSet(a) \cup ToSet(b)
  BY TextsJoined
<1> HIDE DEF name, sep, open, close
<1>6. ASSUME NEW i \in 1 .. n
      PROVE  after(i) = listed(i) /\ after(i) \in V /\ "*" \notin ToSet(after(i))
  <2> DEFINE x == name(i)
  <2>1. x \in Seq(Letters) /\ "*" \notin ToSet(x)
    BY <1>2
  <2> HIDE DEF x
  <2>2. <<>> \o x = x
    BY <2>1
  <2>3. sep \o x \in Seq(Letters) /\ ToSet(sep \o x) = ToSet(sep) \cup ToSet(x)
    BY <1>5, <2>1, <1>13
  <2>4. CASE i = 1
    BY <2>1, <2>2, <2>4 DEF x
  <2>5. CASE i # 1
    BY <1>5, <2>1, <2>3, <2>5 DEF x
  <2> QED
    BY <2>4, <2>5
<1> HIDE DEF after, listed
<1>7. parts = [i \in DOMAIN dep |-> listed(i)]
  BY <1>1, <1>6
<1>8. Text(dep) = Call!Named(dep)
  BY <1>3, <1>4, <1>7
<1>9. parts \in Seq(V) /\ DOMAIN parts = 1 .. n
  <2>1. parts \in [1 .. n -> V]
    BY <1>1, <1>6
  <2> HIDE DEF parts, n, V
  <2> QED
    BY <1>1, <2>1, ListOver
<1>10. F \in Seq(Letters) /\ "*" \notin ToSet(F)
  <2>1. \A i \in DOMAIN parts : "*" \notin ToSet(parts[i])
    BY <1>1, <1>6, <1>9
  <2> HIDE DEF parts
  <2>2. F \in Seq(Letters) /\ ToSet(F) = UNION {ToSet(parts[i]) : i \in DOMAIN parts}
    BY <1>9, FlattenedSet DEF V
  <2> QED
    BY <2>1, <2>2
<1> HIDE DEF F
<1>11. open \o F \o close \in Seq(Letters) /\ "*" \notin ToSet(open \o F \o close)
  <2> DEFINE x == open \o F
  <2>1. x \in Seq(Letters) /\ ToSet(x) = ToSet(open) \cup ToSet(F)
    BY <1>5, <1>10, <1>13
  <2>2. "*" \notin ToSet(x)
    BY <1>5, <1>10, <2>1
  <2> HIDE DEF x
  <2>3. x \o close \in Seq(Letters) /\ ToSet(x \o close) = ToSet(x) \cup ToSet(close)
    BY <1>5, <2>1, <1>13
  <2>4. "*" \notin ToSet(x \o close)
    BY <1>5, <2>2, <2>3
  <2> QED
    BY <2>3, <2>4 DEF x
<1>12. Text(dep) \in V /\ "*" \notin ToSet(Text(dep))
  <2>1. CASE n = 1
    <3>1. 1 \in 1 .. n /\ Text(dep) = name(1)
      BY <1>3, <2>1
    <3> QED
      BY <1>2, <3>1
  <2>2. CASE n # 1
    BY <1>3, <1>11, <2>2
  <2> QED
    BY <2>1, <2>2
<1> QED
  BY <1>8, <1>12

(* What is to be ignored is what the abstract call excuses.                *)
LEMMA IgnoredIs ==
  ASSUME world \in Worlds, NEW dep \in Seq(Sonames)
  PROVE  Ignored(dep) <=> Call!Excused(dep)
<1> DEFINE V == Seq(Letters)
<1>1. world.ignore \in Seq(V)
  <2>1. world.ignore \in Seq(Seq(STRING))
    BY AutoAssumption
  <2> QED
    BY <2>1, LettersText
<1>2. \A i \in DOMAIN world.ignore : world.ignore[i] \in V
  <2> HIDE DEF V
  <2> QED
    BY <1>1
<1>3. \A i \in DOMAIN world.ignore :
        GlobMatch(world.ignore[i], Text(dep)) <=> Call!Matches(world.ignore[i], Text(dep))
  BY <1>2, TextIs, GlobMatches
<1> QED
  BY <1>3, TextIs DEF Ignored, Call!Excused

-----------------------------------------------------------------------------
(* The abstract call counts them.                                          *)
LEMMA CountOnce ==
  ASSUME NEW S, NEW s \in Seq(S), \A k, l \in DOMAIN s : s[k] = s[l] => k = l
  PROVE  Call!Cardinality(ToSet(s)) = Len(s)
<1>1. Call!Cardinality(ToSet(s)) = Cardinality(ToSet(s))
  BY DEF Call!Cardinality, Cardinality
<1>2. DOMAIN s = 1 .. Len(s) /\ Len(s) \in Nat
  OBVIOUS
<1>3. ExistsBijection(1 .. Len(s), ToSet(s))
  <2>1. s \in [1 .. Len(s) -> ToSet(s)]
    BY <1>2 DEF ToSet
  <2>2. \A x \in ToSet(s) : \E k \in 1 .. Len(s) : s[k] = x
    BY <1>2 DEF ToSet
  <2>3. s \in Bijection(1 .. Len(s), ToSet(s))
    BY <1>2, <2>1, <2>2, Fun_IsBij
  <2> QED
    BY <2>3 DEF ExistsBijection
<1>4. IsFiniteSet(1 .. Len(s)) /\ Cardinality(1 .. Len(s)) = Len(s)
  BY <1>2, FS_Interval
<1>5. Cardinality(ToSet(s)) = Len(s)
  BY <1>3, <1>4, FS_Bijection
<1> QED
  BY <1>1, <1>5

-----------------------------------------------------------------------------
(* patch_one's sonames that need no directory are the call's.              *)
LEMMA ElsewhereIs ==
  ASSUME LInv, NEW c \in Sonames
  PROVE  Call!Elsewhere(c) <=> (IsAbsolute(c) /\ IsFile(fs, c)) \/ InLibc(c)
<1>1. IsTree(world.fs) /\ Alike(world.fs, fs) /\ world.libc \in Seq(STRING)
  BY CallTree DEF LInv
<1>2. c \in Seq(STRING) /\ Join(world.libc, c) \in Seq(STRING)
  <2>1. c \in Seq(STRING)
    BY DEF Sonames
  <2> QED
    BY <1>1, <2>1, TextsJoined DEF Join
<1>3. /\ Call!IsFile(world.fs, c) = IsFile(fs, c)
      /\ Call!IsFile(world.fs, Join(world.libc, c)) = IsFile(fs, Join(world.libc, c))
  BY <1>1, <1>2, CallPaths, AlikeNode
<1>4. Call!Join(world.libc, c) = Join(world.libc, c)
  BY DEF Call!Join, Join, Call!IsAbsolute, IsAbsolute
<1> QED
  BY <1>3, <1>4
     DEF Call!Elsewhere, Call!IsAbsolute, IsAbsolute, Call!NoPath, NoPath, InLibc

(* The index holds the libraries, each where it is.                        *)
AllThere == IndexProvides /\ ToSet(index) = Libraries(world)

(* Those of them that answer to a candidate.                               *)
Providing(elf, c) == Call!Providers(Libraries(world), elf, c)

(* The cache's answer is the directory of a library that the call admits,  *)
(* and the cache has none when the call has none.                          *)
LEMMA CacheDirIs ==
  ASSUME AllThere, NEW elf, NEW c \in Sonames
  PROVE  \/ CacheDir(elf, c) = NoPath /\ Providing(elf, c) = {}
         \/ /\ CacheDir(elf, c) # NoPath
            /\ \E l \in Providing(elf, c) : l.dir = CacheDir(elf, c)
<1>1. \A l : l \in Providing(elf, c) <=>
               /\ l \in Libraries(world) /\ c = <<l.name>> /\ l.arch = elf.arch
               /\ OsabiCompatible(elf.osabi, l.osabi)
  BY DEF Providing, Call!Providers, Call!Matching, OsabiCompatible
<1>2. c \in Seq(STRING) /\ (IsAbsolute(c) <=> Len(c) > 1)
  BY DEF Sonames
<1>3. CASE IsAbsolute(c)
  <2>1. CacheDir(elf, c) = NoPath
    BY <1>3 DEF CacheDir
  <2>2. ASSUME NEW x, c = <<x>> PROVE FALSE
    <3>1. Len(<<x>>) = 1
      OBVIOUS
    <3> QED
      BY <1>2, <1>3, <2>2, <3>1
  <2> QED
    BY <1>1, <2>1, <2>2
<1>4. CASE ~IsAbsolute(c)
  <2>1. CacheDir(elf, c) = FindDir(c[1], elf.arch, elf.osabi)
    BY <1>4 DEF CacheDir
  <2>2. c = <<c[1]>>
    BY <1>2, <1>4, SonameParts
  <2>3. IsSeq(index)
    BY DEF AllThere, IndexProvides
  <2>4. \A i \in DOMAIN index : index[i] \in Libraries(world) /\ index[i].dir # NoPath
    BY DEF AllThere, IndexProvides, Provides, ToSet
  <2>5. \A l : l \in Providing(elf, c) =>
                 \E i \in DOMAIN index : l = index[i] /\ Answers(i, c[1], elf.arch, elf.osabi)
    BY <1>1, <2>2 DEF AllThere, ToSet, Answers
  <2>6. \A i \in DOMAIN index :
          Answers(i, c[1], elf.arch, elf.osabi) => index[i] \in Providing(elf, c)
    BY <1>1, <2>2, <2>4 DEF Answers
  <2>7. \/ /\ FindDir(c[1], elf.arch, elf.osabi) = NoPath
           /\ \A i \in DOMAIN index : ~Answers(i, c[1], elf.arch, elf.osabi)
        \/ \E i \in DOMAIN index : /\ Answers(i, c[1], elf.arch, elf.osabi)
                                   /\ FindDir(c[1], elf.arch, elf.osabi) = index[i].dir
    BY <2>3, FindDirIs
  <2> QED
    BY <2>1, <2>4, <2>5, <2>6, <2>7
<1> QED
  BY <1>3, <1>4

(* What is found is what is available.                                     *)
LEMMA FoundIs ==
  ASSUME LInv, AllThere, NEW elf, NEW d \in Seq(Sonames)
  PROVE  /\ \A i \in DOMAIN d : Found(elf, d[i]) <=>
                                  Call!Elsewhere(d[i]) \/ Providing(elf, d[i]) # {}
         /\ FoundAny(elf, d) <=> Call!Available(Libraries(world), elf, d)
<1>1. ASSUME NEW i \in DOMAIN d
      PROVE  Found(elf, d[i]) <=> Call!Elsewhere(d[i]) \/ Providing(elf, d[i]) # {}
  <2> DEFINE c == d[i]
  <2>1. c \in Sonames
    OBVIOUS
  <2> HIDE DEF c
  <2>2. Call!Elsewhere(c) <=> (IsAbsolute(c) /\ IsFile(fs, c)) \/ InLibc(c)
    BY <2>1, ElsewhereIs
  <2>3. CacheDir(elf, c) # NoPath <=> Providing(elf, c) # {}
    BY <2>1, CacheDirIs
  <2>4. Found(elf, c) <=> Call!Elsewhere(c) \/ Providing(elf, c) # {}
    BY <2>2, <2>3 DEF Found, AtHand
  <2> QED
    BY <2>4 DEF c
<1> QED
  BY <1>1 DEF FoundAny, Call!Available, Providing

-----------------------------------------------------------------------------
(* What the call wants of a file are its dependencies.                     *)
LEMMA WantedIs ==
  ASSUME NEW elf \in Elves
  PROVE  /\ Call!Wanted(elf) = ToSet(Deps(elf))
         /\ \A d \in Call!Wanted(elf) : d \in Seq(Sonames)
<1>1. Call!Wanted(elf) = {<<n>> : n \in ToSet(elf.needed)} \cup ToSet(elf.dlopen)
  BY CallSeqs DEF Call!Wanted
<1> QED
  BY <1>1, DepsSet

(* The directory for a dependency, if there is one, is that of a library   *)
(* that provides it; and if nothing else does there is one.                *)
LEMMA DirsForProvide ==
  ASSUME LInv, AllThere, NEW elf, NEW d \in Seq(Sonames)
  PROVE  /\ \A x \in ToSet(DirsFor(elf, d)) :
              \E i \in DOMAIN d : \E l \in Providing(elf, d[i]) : l.dir = x
         /\ Call!Available(Libraries(world), elf, d) =>
              \/ \E i \in DOMAIN d : Call!Elsewhere(d[i])
              \/ \E i \in DOMAIN d : \E l \in Providing(elf, d[i]) :
                   l.dir \in ToSet(DirsFor(elf, d))
<1>1. FoundAny(elf, d) <=> Call!Available(Libraries(world), elf, d)
  BY FoundIs
<1>2. CASE DirsFor(elf, d) = <<>> /\ ~FoundAny(elf, d)
  <2>1. ToSet(DirsFor(elf, d)) = {}
    BY <1>2 DEF ToSet
  <2> QED
    BY <1>1, <1>2, <2>1
<1>3. ASSUME NEW k \in DOMAIN d, Found(elf, d[k]),
             DirsFor(elf, d) = IF AtHand(elf, d[k]) \/ CacheDir(elf, d[k]) = NoPath THEN <<>>
                               ELSE <<CacheDir(elf, d[k])>>
      PROVE  /\ \A x \in ToSet(DirsFor(elf, d)) :
                  \E i \in DOMAIN d : \E l \in Providing(elf, d[i]) : l.dir = x
             /\ \/ \E i \in DOMAIN d : Call!Elsewhere(d[i])
                \/ \E i \in DOMAIN d : \E l \in Providing(elf, d[i]) :
                     l.dir \in ToSet(DirsFor(elf, d))
  <2>1. d[k] \in Sonames
    OBVIOUS
  <2>2. Call!Elsewhere(d[k]) <=> (IsAbsolute(d[k]) /\ IsFile(fs, d[k])) \/ InLibc(d[k])
    BY <2>1, ElsewhereIs
  <2>3. CASE AtHand(elf, d[k]) \/ CacheDir(elf, d[k]) = NoPath
    <3>1. ToSet(DirsFor(elf, d)) = {}
      BY <1>3, <2>3 DEF ToSet
    <3>2. Call!Elsewhere(d[k])
      BY <1>3, <2>2, <2>3 DEF Found, AtHand
    <3> QED
      BY <3>1, <3>2
  <2>4. CASE ~(AtHand(elf, d[k]) \/ CacheDir(elf, d[k]) = NoPath)
    <3>1. \A x : ToSet(<<x>>) = {x}
      BY DEF ToSet
    <3>2. ToSet(DirsFor(elf, d)) = {CacheDir(elf, d[k])}
      BY <1>3, <2>4, <3>1
    <3>3. \E l \in Providing(elf, d[k]) : l.dir = CacheDir(elf, d[k])
      BY <2>1, <2>4, CacheDirIs
    <3> QED
      BY <3>2, <3>3
  <2> QED
    BY <2>3, <2>4
<1>4. CASE \E k \in DOMAIN d :
              /\ Found(elf, d[k])
              /\ DirsFor(elf, d)
                   = IF AtHand(elf, d[k]) \/ CacheDir(elf, d[k]) = NoPath THEN <<>>
                     ELSE <<CacheDir(elf, d[k])>>
  BY <1>3, <1>4
<1> QED
  BY <1>2, <1>4, FirstFound

(* The run path that patch_one gives a file is one that it may be given.   *)
LEMMA RunPathSuits ==
  ASSUME LInv, AllThere, NEW elf \in Elves
  PROVE  /\ RunPath(elf) \in Seq(Seq(STRING))
         /\ Call!Suits(Libraries(world), elf, RunPath(elf))
<1> DEFINE libs == Libraries(world)
           r == RunPath(elf)
           dirs == ToSet(r)
           asked ==
             (IF elf.interp = NoPath THEN {} ELSE ToSet(world.runtime)) \cup ToSet(world.append)
           provide(d) == UNION {Call!Providers(libs, elf, d[i]) : i \in DOMAIN d}
           provided == {l.dir : l \in UNION {provide(d) : d \in Call!Wanted(elf)}}
           found == UNION {ToSet(DirsFor(elf, d)) : d \in ToSet(Deps(elf))}
<1>1. r \in Seq(Seq(STRING)) /\ dirs = asked \cup found
  BY RunPathSet DEF LInv, AllThere
<1>2. Call!Wanted(elf) = ToSet(Deps(elf)) /\ \A d \in Call!Wanted(elf) : d \in Seq(Sonames)
  BY WantedIs
<1>3. ASSUME NEW d \in Call!Wanted(elf)
      PROVE  /\ \A x \in ToSet(DirsFor(elf, d)) : \E l \in provide(d) : l.dir = x
             /\ Call!Available(libs, elf, d) =>
                  \/ \E i \in DOMAIN d : Call!Elsewhere(d[i])
                  \/ \E l \in provide(d) : l.dir \in ToSet(DirsFor(elf, d))
  <2>1. d \in Seq(Sonames)
    BY <1>2
  <2>2. /\ \A x \in ToSet(DirsFor(elf, d)) :
              \E i \in DOMAIN d : \E l \in Providing(elf, d[i]) : l.dir = x
        /\ Call!Available(Libraries(world), elf, d) =>
              \/ \E i \in DOMAIN d : Call!Elsewhere(d[i])
              \/ \E i \in DOMAIN d : \E l \in Providing(elf, d[i]) :
                   l.dir \in ToSet(DirsFor(elf, d))
    BY <2>1, DirsForProvide
  <2>3. \A l : l \in provide(d) <=> \E i \in DOMAIN d : l \in Providing(elf, d[i])
    BY DEF Providing
  <2> HIDE DEF provide
  <2> QED
    BY <2>2, <2>3
<1>4. Call!Cardinality(dirs) = Len(r)
  <2> DEFINE P == Seq(STRING)
  <2>1. \A k, l \in DOMAIN r : r[k] = r[l] => k = l
    BY RunPathSet DEF LInv, AllThere
  <2>2. r \in Seq(P)
    BY <1>1
  <2> HIDE DEF P, r
  <2> QED
    BY <2>1, <2>2, CountOnce
<1>5. found \subseteq provided
  <2> SUFFICES ASSUME NEW d \in Call!Wanted(elf), NEW x \in ToSet(DirsFor(elf, d))
               PROVE  x \in provided
    BY <1>2
  <2>1. PICK l \in provide(d) : l.dir = x
    BY <1>3
  <2> QED
    BY <2>1
<1>6. ASSUME NEW d \in Call!Wanted(elf), Call!Available(libs, elf, d)
      PROVE  \/ \E i \in DOMAIN d : Call!Elsewhere(d[i])
             \/ \E l \in provide(d) : l.dir \in dirs
  <2>1. ToSet(DirsFor(elf, d)) \subseteq dirs
    BY <1>1, <1>2
  <2> HIDE DEF dirs, provide
  <2> QED
    BY <1>3, <1>6, <2>1
<1>7. Call!Suits(libs, elf, r) <=>
        /\ asked \subseteq dirs /\ dirs \subseteq asked \cup provided
        /\ Call!Cardinality(dirs) = Len(r)
        /\ \A d \in Call!Wanted(elf) : Call!Available(libs, elf, d) =>
             \/ \E i \in DOMAIN d : Call!Elsewhere(d[i])
             \/ \E l \in provide(d) : l.dir \in dirs
  <2>1. Call!ToSet(r) = ToSet(r) /\ Call!ToSet(world.runtime) = ToSet(world.runtime)
        /\ Call!ToSet(world.append) = ToSet(world.append)
    BY CallSeqs
  <2> HIDE DEF r, libs
  <2> QED
    BY <2>1 DEF Call!Suits, Call!NoPath, NoPath
<1> HIDE DEF dirs, asked, provided, found, provide
<1> QED
  BY <1>1, <1>4, <1>5, <1>6, <1>7

-----------------------------------------------------------------------------
(* A path begins another when it is shorter and its names are the other's. *)
LEMMA PrefixIs ==
  ASSUME NEW S, NEW p \in Seq(S), NEW q \in Seq(S)
  PROVE  /\ IsStrictPrefix(q, p) <=> (Len(q) < Len(p) /\ \A k \in 1 .. Len(q) : q[k] = p[k])
         /\ Call!IsStrictPrefix(q, p) <=> IsStrictPrefix(q, p)
<1>1. Call!IsStrictPrefix(q, p) <=> IsStrictPrefix(q, p)
  BY DEF Call!IsStrictPrefix, IsStrictPrefix, Call!IsPrefix, IsPrefix
<1>2. Len(q) \in Nat /\ Len(p) \in Nat
  OBVIOUS
<1>3. CASE Len(q) > Len(p)
  BY <1>1, <1>2, <1>3 DEF IsStrictPrefix, IsPrefix
<1>4. CASE Len(q) <= Len(p)
  <2> DEFINE a == SubSeq(q, 1, Len(q))
             b == SubSeq(p, 1, Len(q))
  <2>1. a \in Seq(S) /\ Len(a) = Len(q) /\ \A k \in 1 .. Len(q) : a[k] = q[k]
    BY <1>2
  <2>2. b \in Seq(S) /\ Len(b) = Len(q) /\ \A k \in 1 .. Len(q) : b[k] = p[k]
    BY <1>2, <1>4
  <2>3. IsStrictPrefix(q, p) <=> a = b /\ q # p
    BY <1>4 DEF IsStrictPrefix, IsPrefix
  <2> HIDE DEF a, b
  <2>4. a = b <=> \A k \in 1 .. Len(q) : q[k] = p[k]
    BY <2>1, <2>2
  <2>5. (Len(q) = Len(p) /\ \A k \in 1 .. Len(q) : q[k] = p[k]) => q = p
    OBVIOUS
  <2> QED
    BY <1>1, <1>2, <1>4, <2>3, <2>4, <2>5
<1> QED
  BY <1>2, <1>3, <1>4

(* What begins a path begins what it is continued by.                      *)
LEMMA PrefixAppend ==
  ASSUME NEW S, NEW c \in Seq(S), NEW n \in S
  PROVE  /\ IsStrictPrefix(c, Append(c, n))
         /\ \A g \in Seq(S) : IsStrictPrefix(g, c) => IsStrictPrefix(g, Append(c, n))
         /\ \A g \in Seq(S) : IsStrictPrefix(g, Append(c, n)) => g = c \/ IsStrictPrefix(g, c)
<1> DEFINE p == Append(c, n)
<1>1. p \in Seq(S) /\ Len(p) = Len(c) + 1 /\ Len(c) \in Nat /\ \A k \in 1 .. Len(c) : p[k] = c[k]
  BY AppendOne
<1> HIDE DEF p
<1>2. \A g \in Seq(S) :
        /\ IsStrictPrefix(g, p) <=> (Len(g) < Len(p) /\ \A k \in 1 .. Len(g) : g[k] = p[k])
        /\ IsStrictPrefix(g, c) <=> (Len(g) < Len(c) /\ \A k \in 1 .. Len(g) : g[k] = c[k])
  BY <1>1, PrefixIs
<1>3. IsStrictPrefix(c, p)
  BY <1>1, <1>2
<1>4. ASSUME NEW g \in Seq(S), IsStrictPrefix(g, c) PROVE IsStrictPrefix(g, p)
  BY <1>1, <1>2, <1>4
<1>5. ASSUME NEW g \in Seq(S), IsStrictPrefix(g, p) PROVE g = c \/ IsStrictPrefix(g, c)
  <2>1. Len(g) \in Nat /\ Len(g) <= Len(c) /\ \A k \in 1 .. Len(g) : g[k] = c[k]
    BY <1>1, <1>2, <1>5
  <2>2. CASE Len(g) = Len(c)
    BY <2>1, <2>2
  <2>3. CASE Len(g) # Len(c)
    BY <1>1, <1>2, <2>1, <2>3
  <2> QED
    BY <2>2, <2>3
<1> QED
  BY <1>3, <1>4, <1>5 DEF p

(* A node below a directory is an entry of it, or below one.               *)
LEMMA WayDown ==
  ASSUME NEW t, IsTree(t), NEW c \in DOMAIN t, NEW p \in DOMAIN t, IsStrictPrefix(c, p)
  PROVE  \E n \in STRING :
           /\ Append(c, n) \in DOMAIN t
           /\ \/ p = Append(c, n)
              \/ t[Append(c, n)].kind = "dir" /\ IsStrictPrefix(Append(c, n), p)
<1> DEFINE Leads(q) == \E n \in STRING :
             /\ Append(c, n) \in DOMAIN t
             /\ \/ q = Append(c, n)
                \/ t[Append(c, n)].kind = "dir" /\ IsStrictPrefix(Append(c, n), q)
           Good(m) == \A q \in DOMAIN t : Len(q) = m /\ IsStrictPrefix(c, q) => Leads(q)
           P == {m \in Nat : Good(m)}
<1>1. \A q \in DOMAIN t : q \in Seq(STRING) /\ q # NoPath /\ Len(q) \in Nat
  BY TreePaths
<1>2. 0 \in P
  BY <1>1 DEF NoPath
<1>3. ASSUME NEW m \in Nat, m \in P PROVE m + 1 \in P
  <2> SUFFICES ASSUME NEW q \in DOMAIN t, Len(q) = m + 1, IsStrictPrefix(c, q) PROVE Leads(q)
    OBVIOUS
  <2>1. /\ Front(q) \in Seq(STRING) /\ Last(q) \in STRING /\ q = Append(Front(q), Last(q))
        /\ Len(q) = Len(Front(q)) + 1 /\ Len(Front(q)) \in Nat
    BY <1>1, PathParts DEF NoPath
  <2> DEFINE f == Front(q)
             n == Last(q)
  <2>2. f = c \/ IsStrictPrefix(c, f)
    <3> HIDE DEF f, n
    <3>1. f \in Seq(STRING) /\ n \in STRING /\ q = Append(f, n) /\ c \in Seq(STRING)
      BY <1>1, <2>1 DEF f, n
    <3> QED
      BY <3>1, PrefixAppend
  <2>3. f # NoPath
    <3>1. Len(c) \in Nat /\ Len(c) # 0
      BY <1>1 DEF NoPath
    <3>2. IsStrictPrefix(c, f) => Len(c) < Len(f)
      BY <1>1, <2>1, PrefixIs
    <3>3. Len(NoPath) = 0
      BY DEF NoPath
    <3> QED
      BY <2>1, <2>2, <3>1, <3>2, <3>3
  <2>4. f \in DOMAIN t /\ t[f].kind = "dir" /\ Len(f) = m
    BY <2>1, <2>3 DEF IsTree
  <2>5. CASE f = c
    BY <2>1, <2>5
  <2>6. CASE IsStrictPrefix(c, f)
    <3>1. Leads(f)
      BY <1>3, <2>4, <2>6
    <3>2. PICK e \in STRING : /\ Append(c, e) \in DOMAIN t
                              /\ \/ f = Append(c, e)
                                 \/ t[Append(c, e)].kind = "dir" /\ IsStrictPrefix(Append(c, e), f)
      BY <3>1
    <3> DEFINE d == Append(c, e)
    <3>3. d \in DOMAIN t /\ t[d].kind = "dir" /\ (f = d \/ IsStrictPrefix(d, f))
      BY <2>4, <3>2
    <3>4. IsStrictPrefix(d, q)
      <4>1. f \in Seq(STRING) /\ n \in STRING /\ q = Append(f, n) /\ d \in Seq(STRING)
        BY <1>1, <2>1, <3>3
      <4> HIDE DEF f, n, d
      <4> QED
        BY <3>3, <4>1, PrefixAppend
    <3> QED
      BY <3>3, <3>4
  <2> QED
    BY <2>2, <2>5, <2>6
<1> HIDE DEF P
<1>4. \A m \in Nat : m \in P
  BY <1>2, <1>3, InductionOnSet
<1> QED
  BY <1>1, <1>4 DEF P

(* The entries of a directory, whatever path leads to it.                  *)
LEMMA EntryNode ==
  ASSUME NEW t, IsTree(t), NEW dir \in Seq(STRING), dir # NoPath, IsAbsolute(dir),
         NEW c, c = Canonical(t, dir), c \in DOMAIN t, NEW n \in STRING, Append(c, n) \in DOMAIN t
  PROVE  /\ n \in Names(t, dir)
         /\ LinkKind(t, Append(dir, n)) = t[Append(c, n)].kind
         /\ t[Append(c, n)].kind \in FileKinds \cup {"dir"} =>
              Canonical(t, Append(dir, n)) = Append(c, n)
<1> DEFINE p == Append(dir, n)
           q == Append(c, n)
<1>1. c \in Seq(STRING) /\ c # NoPath /\ q \in Seq(STRING) /\ q # NoPath
  BY TreePaths
<1>2. Len(q) = Len(c) + 1 /\ Front(q) = c /\ Last(q) = n
  <2>1. Len(q) = Len(c) + 1
    BY <1>1, AppendOne
  <2>2. Front(q) = c /\ Last(q) = n
    BY <1>1, PathEntry
  <2> QED
    BY <2>1, <2>2
<1>3. p \in Seq(STRING) /\ Front(p) = dir /\ Last(p) = n
  BY PathEntry
<1>4. Len(p) = Len(dir) + 1 /\ Len(dir) \in Nat /\ Len(dir) # 0 /\ p[1] = dir[1]
  <2>1. Len(p) = Len(dir) + 1 /\ Len(dir) \in Nat /\ \A k \in 1 .. Len(dir) : p[k] = dir[k]
    BY AppendOne
  <2>2. Len(dir) # 0
    BY DEF NoPath
  <2> HIDE DEF p
  <2> QED
    BY <2>1, <2>2
<1> HIDE DEF p
<1>5. p # <<"/">> /\ p # NoPath /\ IsAbsolute(p)
  <2>1. Len(<<"/">>) = 1 /\ Len(NoPath) = 0
    BY DEF NoPath
  <2> QED
    BY <1>4, <2>1 DEF IsAbsolute
<1>6. Unfollowed(t, p) = q
  BY <1>1, <1>3, <1>5 DEF Unfollowed
<1>7. LinkKind(t, p) = t[q].kind
  BY <1>6 DEF LinkKind
<1>8. n \in Names(t, dir)
  BY <1>1, <1>2 DEF Names
<1>9. t[q].kind # "link" /\ t[q].kind # "none" => Canonical(t, p) = q
  BY <1>3, <1>5, <1>6, <1>7, UnfollowedNode
<1> QED
  BY <1>7, <1>8, <1>9 DEF p, FileKinds

-----------------------------------------------------------------------------
(* The paths given, and the files under them, those that are patched.      *)
Given == {Unfollowed(world.fs, path) : path \in ToSet(world.paths)}

(* A file is at one of them, or in a directory that is.                    *)
Beneath(p) == Call!Under(Given, p)

(* A directory holds a file, at any depth when the call is recursive.      *)
HoldsBelow(c, p) == IF world.recursive THEN IsStrictPrefix(c, p) ELSE c = Front(p)

(* A file is beneath one of them when it is it, or is below it.            *)
LEMMA BeneathIs ==
  ASSUME NEW p \in Seq(STRING), Given \subseteq Seq(STRING)
  PROVE  Beneath(p) <=>
           \E g \in Given : \/ p = g
                            \/ /\ g \in DOMAIN world.fs /\ world.fs[g].kind = "dir"
                               /\ HoldsBelow(g, p)
<1>1. \A g \in Given : Call!IsStrictPrefix(g, p) <=> IsStrictPrefix(g, p)
  <2> SUFFICES ASSUME NEW g \in Given PROVE Call!IsStrictPrefix(g, p) <=> IsStrictPrefix(g, p)
    OBVIOUS
  <2> DEFINE S == STRING
  <2>1. g \in Seq(S) /\ p \in Seq(S)
    OBVIOUS
  <2> HIDE DEF S
  <2> QED
    BY <2>1, PrefixIs
<1>2. Call!Front(p) = Front(p)
  BY CallSeqs
<1> HIDE DEF Given
<1> QED
  BY <1>1, <1>2 DEF Beneath, Call!Under, HoldsBelow

(* The files that patch_one does not skip, of those, are the call's        *)
(* targets.                                                                *)
LEMMA TargetIs ==
  ASSUME LInv, stage = "patch", NEW p \in DOMAIN fs
  PROVE  p \in Call!Targets <=> Beneath(p) /\ Eligible(fs[p])
<1> DEFINE a == world.fs[p]
           ld == NodeAt(world.fs, world.interp)
<1>1. IsTree(world.fs) /\ Alike(world.fs, fs) /\ world.interp \in Seq(STRING)
  BY CallTree DEF LInv
<1>2. ld.kind = "elf" /\ SameBut(ld, Interpreter)
  BY <1>1, AlikeNode DEF LInv, Interpreter
<1>3. Call!NodeAt(world.fs, world.interp) = ld
  BY CallPaths
<1>4. Given = {Call!Unfollowed(world.fs, path) : path \in Call!ToSet(world.paths)}
  BY CallPaths, CallSeqs DEF Given
<1>5. p \in Call!Targets <=>
        /\ p \in DOMAIN world.fs
        /\ Beneath(p) /\ a.kind = "elf" /\ ~a.debug
        /\ a.etype = "DYN" \/ (a.etype = "EXEC" /\ a.interp # NoPath)
        /\ a.arch = ld.arch /\ Call!Matching(a.osabi, ld.osabi)
  BY <1>3, <1>4 DEF Call!Targets, Beneath, Call!NoPath, NoPath
<1>6. p \in DOMAIN world.fs
  BY <1>1 DEF Alike
<1>7. CASE a.kind = "elf"
  <2>1. SameBut(a, fs[p])
    BY <1>1, <1>6, <1>7 DEF Alike
  <2>2. fs[p].kind = "elf" /\ fs[p].etype \in {"REL", "EXEC", "DYN"} /\ fs[p].debug \in BOOLEAN
    BY <2>1, SameButElf DEF SameBut
  <2>3. Eligible(fs[p]) <=>
          /\ ~a.debug /\ a.etype # "REL" /\ (a.etype = "EXEC" => a.interp # NoPath)
          /\ a.arch = ld.arch /\ OsabiCompatible(ld.osabi, a.osabi)
    BY <1>2, <2>1, <2>2 DEF Eligible, SameBut
  <2>4. a.etype \in {"REL", "EXEC", "DYN"}
    BY <2>1, <2>2 DEF SameBut
  <2> HIDE DEF a, ld
  <2>5. Call!Matching(a.osabi, ld.osabi) <=> OsabiCompatible(ld.osabi, a.osabi)
    BY DEF Call!Matching, OsabiCompatible
  <2> QED
    BY <1>5, <1>6, <1>7, <2>3, <2>4, <2>5
<1>8. CASE a.kind # "elf"
  <2>1. fs[p].kind = a.kind
    BY <1>1, <1>6, AlikeKind
  <2> QED
    BY <1>5, <1>8, <2>1 DEF Eligible
<1> QED
  BY <1>7, <1>8

(* What may be given a file does not change when it is patched.            *)
LEMMA SuitsAlike ==
  ASSUME NEW libs, NEW a, NEW b, SameBut(a, b)
  PROVE  /\ Call!Wanted(b) = Call!Wanted(a)
         /\ \A d : Call!Available(libs, b, d) <=> Call!Available(libs, a, d)
         /\ \A r : Call!Suits(libs, b, r) <=> Call!Suits(libs, a, r)
<1>1. /\ b.arch = a.arch /\ b.osabi = a.osabi /\ b.needed = a.needed /\ b.dlopen = a.dlopen
      /\ b.interp = NoPath <=> a.interp = NoPath
  BY DEF SameBut
<1>2. Call!Wanted(b) = Call!Wanted(a)
  BY <1>1 DEF Call!Wanted
<1>3. \A c : Call!Providers(libs, b, c) = Call!Providers(libs, a, c)
  BY <1>1 DEF Call!Providers
<1>4. \A d : Call!Available(libs, b, d) <=> Call!Available(libs, a, d)
  BY <1>3 DEF Call!Available
<1>5. \A r : Call!Suits(libs, b, r) <=> Call!Suits(libs, a, r)
  BY <1>1, <1>2, <1>3, <1>4 DEF Call!Suits, Call!NoPath, NoPath
<1> QED
  BY <1>2, <1>4, <1>5

-----------------------------------------------------------------------------
(* The paths given, in the tree of the call.                               *)
LEMMA GivenPath ==
  ASSUME world \in Worlds, NEW path \in ToSet(world.paths)
  PROVE  /\ path \in Seq(STRING) /\ path # NoPath /\ IsAbsolute(path)
         /\ Unfollowed(world.fs, path) \in Seq(STRING) \cap Given
         /\ Unfollowed(world.fs, path) \in DOMAIN world.fs =>
              LinkKind(world.fs, path) = world.fs[Unfollowed(world.fs, path)].kind
         /\ LinkKind(world.fs, path) \in FileKinds \cup {"dir"} =>
              /\ Unfollowed(world.fs, path) \in DOMAIN world.fs
              /\ Canonical(world.fs, path) = Unfollowed(world.fs, path)
              /\ world.fs[Unfollowed(world.fs, path)].kind = LinkKind(world.fs, path)
<1> DEFINE t == world.fs
<1>1. IsTree(t)
  BY CallTree
<1>2. path \in Seq(STRING) /\ path # NoPath /\ IsAbsolute(path)
  <2> DEFINE P == Seq(STRING)
  <2>1. world.paths \in Seq(P) /\ \A p \in ToSet(world.paths) : p # NoPath /\ IsAbsolute(p)
    BY LibCacheAssumption
  <2> HIDE DEF P
  <2>2. path \in P
    BY <2>1 DEF ToSet
  <2> QED
    BY <2>1, <2>2 DEF P
<1>3. Unfollowed(t, path) \in Seq(STRING)
  <2>1. Front(path) \in Seq(STRING) /\ Last(path) \in STRING
    BY <1>2, PathParts DEF NoPath
  <2>2. Canonical(t, Front(path)) \in DOMAIN t \cup {NoPath}
    BY <1>1, <2>1, CanonicalKnown DEF KnownIn
  <2>3. Canonical(t, Front(path)) \in Seq(STRING)
    <3>1. NoPath \in Seq(STRING)
      BY DEF NoPath
    <3> HIDE DEF t
    <3>2. \A q \in DOMAIN t : q \in Seq(STRING)
      BY <1>1, TreePaths
    <3> QED
      BY <2>2, <3>1, <3>2
  <2> HIDE DEF t
  <2>4. Append(Canonical(t, Front(path)), Last(path)) \in Seq(STRING)
    BY <2>1, <2>3, AppendOne
  <2> QED
    BY <2>3, <2>4 DEF Unfollowed
<1>4. Unfollowed(t, path) \in DOMAIN t => LinkKind(t, path) = t[Unfollowed(t, path)].kind
  BY DEF LinkKind
<1>5. LinkKind(t, path) \in FileKinds \cup {"dir"} =>
        /\ Unfollowed(t, path) \in DOMAIN t
        /\ Canonical(t, path) = Unfollowed(t, path)
        /\ t[Unfollowed(t, path)].kind = LinkKind(t, path)
  BY <1>1, <1>2, UnfollowedNode DEF FileKinds
<1> QED
  BY <1>2, <1>3, <1>4, <1>5 DEF Given

(* They are paths.                                                         *)
LEMMA GivenPaths == ASSUME world \in Worlds PROVE Given \subseteq Seq(STRING)
  BY GivenPath DEF Given

(* A directory to list is one of those given, or beneath one when the call *)
(* is recursive.                                                           *)
ToList(c) ==
  /\ c \in DOMAIN world.fs /\ world.fs[c].kind = "dir"
  /\ c \in Given \/ (world.recursive /\ Beneath(c))
(* Every file beneath the paths given is collected, or in a directory that *)
(* is still to be listed.                                                  *)
Covered ==
  \A p \in DOMAIN world.fs : world.fs[p].kind \in FileKinds /\ Beneath(p) =>
    \/ \E f \in ToSet(files) : Canonical(world.fs, f) = p
    \/ \E d \in ToSet(stack) : HoldsBelow(Canonical(world.fs, d), p)

(* The inductive invariant of collecting the files.                        *)
KInv ==
  /\ stage \notin {"patch", "done"} => fs = world.fs
  /\ \A f \in ToSet(files) : Beneath(Canonical(world.fs, f))
  /\ \A d \in ToSet(stack) : ToList(Canonical(world.fs, d))
  /\ stage \in {"walk", "patch"} => Covered
  /\ stage = "patch" => stack = <<>>

(* They are the call's, which does not change.                              *)
LEMMA SameCall ==
  ASSUME world' = world
  PROVE  /\ \A c : Beneath(c)' <=> Beneath(c)
         /\ \A c : ToList(c)' <=> ToList(c)
         /\ \A c, p : HoldsBelow(c, p)' <=> HoldsBelow(c, p)
<1>1. Given' = Given
  BY DEF Given
<1>2. \A c : Beneath(c)' <=> Beneath(c)
  BY <1>1 DEF Beneath, Call!Under
<1>3. \A c : ToList(c)' <=> ToList(c)
  BY <1>1, <1>2 DEF ToList
<1> QED
  BY <1>2, <1>3 DEF HoldsBelow

(* What such a directory holds is beneath the paths given.                 *)
LEMMA ListedBelow ==
  ASSUME world \in Worlds, NEW c, ToList(c), NEW p \in Seq(STRING), HoldsBelow(c, p)
  PROVE  Beneath(p)
<1>1. Given \subseteq Seq(STRING)
  BY GivenPaths
<1>2. c \in Seq(STRING)
  BY CallTree, TreePaths DEF ToList
<1>3. CASE c \in Given
  BY <1>1, <1>3, BeneathIs DEF ToList
<1>4. CASE world.recursive /\ Beneath(c) /\ c \notin Given
  <2>1. PICK g \in Given : /\ g \in DOMAIN world.fs /\ world.fs[g].kind = "dir"
                           /\ HoldsBelow(g, c)
    BY <1>1, <1>2, <1>4, BeneathIs
  <2>2. IsStrictPrefix(g, c) /\ IsStrictPrefix(c, p)
    BY <1>4, <2>1 DEF HoldsBelow
  <2>3. IsStrictPrefix(g, p)
    <3> DEFINE S == STRING
    <3>1. g \in Seq(S) /\ c \in Seq(S) /\ p \in Seq(S)
      BY <1>1, <1>2
    <3> HIDE DEF S
    <3>2. Len(g) < Len(c) /\ Len(c) < Len(p) /\ Len(g) \in Nat /\ Len(c) \in Nat /\ Len(p) \in Nat
          /\ (\A k \in 1 .. Len(g) : g[k] = c[k]) /\ \A k \in 1 .. Len(c) : c[k] = p[k]
      BY <2>2, <3>1, PrefixIs
    <3>3. Len(g) < Len(p) /\ \A k \in 1 .. Len(g) : g[k] = p[k]
      BY <3>2
    <3> QED
      BY <3>1, <3>3, PrefixIs
  <2>4. HoldsBelow(g, p)
    BY <1>4, <2>3 DEF HoldsBelow
  <2> QED
    BY <1>1, <2>1, <2>4, BeneathIs
<1> QED
  BY <1>3, <1>4 DEF ToList

(* The paths of some kinds among those given.                              *)
LEMMA CollectPathsCovers == ASSUME LInv, KInv, CollectPaths PROVE KInv'
<1> DEFINE t == world.fs
           P == Seq(STRING)
<1>1. /\ stage = "collect" /\ stage' = "walk"
      /\ files' = OfKind(world.paths, FileKinds) /\ stack' = OfKind(world.paths, {"dir"})
      /\ world' = world /\ fs' = fs /\ fs = t
  BY DEF CollectPaths, KInv
<1>2. world \in Worlds /\ world.paths \in Seq(P)
  BY LibCacheAssumption DEF LInv
<1>3. \A kinds : ToSet(OfKind(world.paths, kinds))
                   = {p \in ToSet(world.paths) : LinkKind(t, p) \in kinds}
  <2> HIDE DEF P
  <2> QED
    BY <1>1, <1>2, OfKindSet
<1>4. \A f \in ToSet(files') : Beneath(Canonical(t, f))
  <2> SUFFICES ASSUME NEW f \in ToSet(world.paths), LinkKind(t, f) \in FileKinds
               PROVE  Beneath(Canonical(t, f))
    BY <1>1, <1>3
  <2> DEFINE g == Unfollowed(t, f)
  <2>1. g \in Given /\ Canonical(t, f) = g /\ g \in Seq(STRING)
    BY <1>2, GivenPath
  <2> QED
    BY <1>2, <2>1, GivenPaths, BeneathIs
<1>5. \A d \in ToSet(stack') : ToList(Canonical(t, d))
  <2> SUFFICES ASSUME NEW d \in ToSet(world.paths), LinkKind(t, d) \in {"dir"}
               PROVE  ToList(Canonical(t, d))
    BY <1>1, <1>3
  <2> QED
    BY <1>2, GivenPath DEF ToList
<1>6. ASSUME NEW p \in DOMAIN t, t[p].kind \in FileKinds, Beneath(p)
      PROVE  \/ \E f \in ToSet(files') : Canonical(t, f) = p
             \/ \E d \in ToSet(stack') : HoldsBelow(Canonical(t, d), p)
  <2>1. p \in Seq(STRING) /\ Given \subseteq Seq(STRING)
    BY <1>2, CallTree, TreePaths, GivenPaths
  <2>2. PICK g \in Given : \/ p = g
                           \/ /\ g \in DOMAIN t /\ t[g].kind = "dir"
                              /\ HoldsBelow(g, p)
    BY <1>6, <2>1, BeneathIs
  <2>3. PICK path \in ToSet(world.paths) : g = Unfollowed(t, path)
    BY DEF Given
  <2>4. g \in DOMAIN t => LinkKind(t, path) = t[g].kind
    BY <1>2, <2>3, GivenPath
  <2>5. LinkKind(t, path) \in FileKinds \cup {"dir"} => Canonical(t, path) = g
    BY <1>2, <2>3, GivenPath
  <2>6. CASE p = g
    <3>1. LinkKind(t, path) \in FileKinds
      BY <1>6, <2>4, <2>6
    <3>2. path \in ToSet(files') /\ Canonical(t, path) = p
      BY <1>1, <1>3, <2>5, <2>6, <3>1
    <3> QED
      BY <3>2
  <2>7. CASE g \in DOMAIN t /\ t[g].kind = "dir" /\ HoldsBelow(g, p)
    <3>1. LinkKind(t, path) = "dir"
      BY <2>4, <2>7
    <3>2. path \in ToSet(stack') /\ Canonical(t, path) = g
      BY <1>1, <1>3, <2>5, <3>1
    <3> QED
      BY <2>7, <3>2
  <2> QED
    BY <2>2, <2>6, <2>7
<1>7. /\ \A c : Beneath(c)' <=> Beneath(c)
      /\ \A c : ToList(c)' <=> ToList(c)
      /\ \A c, p : HoldsBelow(c, p)' <=> HoldsBelow(c, p)
  BY <1>1, SameCall
<1> QED
  BY <1>1, <1>4, <1>5, <1>6, <1>7 DEF KInv, Covered

(* A directory is listed: its files are collected, and its directories     *)
(* wait when the call is recursive.                                        *)
LEMMA CollectDirCovers == ASSUME LInv, KInv, CollectDir PROVE KInv'
<1> DEFINE t == world.fs
           P == Seq(STRING)
           dir == Last(stack)
           c == Canonical(t, dir)
           entries == SortedEntries(dir, Names(fs, dir))
           more == OfKind(entries, FileKinds)
           deeper == IF world.recursive THEN OfKind(entries, {"dir"}) ELSE <<>>
<1>1. /\ stage = "walk" /\ stage' = "walk" /\ stack # <<>>
      /\ files' = files \o more /\ stack' = Front(stack) \o deeper
      /\ world' = world /\ fs' = fs /\ fs = t
  BY DEF CollectDir, KInv
<1>2. world \in Worlds /\ IsTree(t)
  BY CallTree DEF LInv
<1>3. stack \in Seq(P) /\ files \in Seq(P)
  BY DEF LInv, ListsPaths
<1>4. /\ dir \in P /\ Front(stack) \in Seq(P)
      /\ ToSet(stack) = ToSet(Front(stack)) \cup {dir}
  <2> HIDE DEF P
  <2>1. /\ Front(stack) \in Seq(P) /\ dir \in P /\ Len(stack) = Len(Front(stack)) + 1
        /\ \A k \in 1 .. Len(Front(stack)) : Front(stack)[k] = stack[k]
        /\ Len(Front(stack)) \in Nat
    BY <1>1, <1>3, PathParts
  <2> DEFINE m == Len(stack)
             f == Front(stack)
  <2>2. DOMAIN stack = 1 .. m /\ DOMAIN f = 1 .. m - 1 /\ dir = stack[m] /\ m \in Nat /\ m >= 1
        /\ \A k \in 1 .. m - 1 : f[k] = stack[k]
    BY <1>3, <2>1 DEF Last
  <2> HIDE DEF m, f, dir
  <2>3. ToSet(stack) = ToSet(f) \cup {dir}
    BY <2>2 DEF ToSet
  <2> QED
    BY <2>1, <2>3 DEF f
<1>5. dir # NoPath /\ IsAbsolute(dir) /\ ToList(c)
  BY <1>4 DEF LInv, ListsPaths, KInv
<1> HIDE DEF dir
<1>6. entries \in Seq(P) /\ ToSet(entries) = {Append(dir, n) : n \in Names(fs, dir)}
  BY <1>1, <1>2, <1>4, <1>5, EntryPaths
<1> HIDE DEF entries
<1>7. \A kinds : /\ OfKind(entries, kinds) \in Seq(P)
                 /\ ToSet(OfKind(entries, kinds))
                      = {p \in ToSet(entries) : LinkKind(t, p) \in kinds}
  <2> HIDE DEF P
  <2> QED
    BY <1>1, <1>6, OfKindSet
<1>8. /\ more \in Seq(P) /\ deeper \in Seq(P)
      /\ ToSet(more) = {p \in ToSet(entries) : LinkKind(t, p) \in FileKinds}
      /\ ToSet(deeper) = {p \in ToSet(entries) : LinkKind(t, p) = "dir" /\ world.recursive}
  <2>1. ToSet(<<>>) = {}
    BY DEF ToSet
  <2> HIDE DEF P
  <2> QED
    BY <1>7, <2>1
<1> HIDE DEF deeper, more
<1>9. /\ ToSet(files') = ToSet(files) \cup ToSet(more)
      /\ ToSet(stack') = ToSet(Front(stack)) \cup ToSet(deeper)
  <2> HIDE DEF P
  <2>1. IsSeq(files) /\ IsSeq(more) /\ IsSeq(Front(stack)) /\ IsSeq(deeper)
    BY <1>3, <1>4, <1>8, SeqIsSeq
  <2> QED
    BY <1>1, <2>1, JoinSet
<1>10. c \in P /\ c \in DOMAIN t /\ t[c].kind = "dir" /\ c # NoPath
  BY <1>2, <1>5, TreePaths DEF ToList
(* The entries are the nodes of the directory.                             *)
<1>11. ASSUME NEW n \in STRING, Append(c, n) \in DOMAIN t
       PROVE  /\ Append(dir, n) \in ToSet(entries)
              /\ LinkKind(t, Append(dir, n)) = t[Append(c, n)].kind
              /\ t[Append(c, n)].kind \in FileKinds \cup {"dir"} =>
                   Canonical(t, Append(dir, n)) = Append(c, n)
  <2>1. /\ n \in Names(t, dir)
        /\ LinkKind(t, Append(dir, n)) = t[Append(c, n)].kind
        /\ t[Append(c, n)].kind \in FileKinds \cup {"dir"} =>
             Canonical(t, Append(dir, n)) = Append(c, n)
    BY <1>2, <1>4, <1>5, <1>10, <1>11, EntryNode
  <2> QED
    BY <1>1, <1>6, <2>1
<1>12. ASSUME NEW e \in ToSet(entries)
       PROVE  \E n \in STRING : e = Append(dir, n) /\ Append(c, n) \in DOMAIN t
  <2>1. PICK n \in Names(t, dir) : e = Append(dir, n)
    BY <1>1, <1>6
  <2>2. PICK q \in DOMAIN t : n = Last(q) /\ Front(q) = c
    BY DEF Names
  <2>3. Last(q) \in STRING /\ q = Append(Front(q), Last(q))
    BY <1>2, TreePaths, PathParts DEF NoPath
  <2> QED
    BY <2>1, <2>2, <2>3
<1> HIDE DEF c
(* A file or directory among them is beneath the paths given.              *)
<1>13. ASSUME NEW e \in ToSet(entries), LinkKind(t, e) \in FileKinds \cup {"dir"}
       PROVE  /\ Canonical(t, e) \in DOMAIN t /\ t[Canonical(t, e)].kind = LinkKind(t, e)
              /\ Beneath(Canonical(t, e))
  <2>1. PICK n \in STRING : e = Append(dir, n) /\ Append(c, n) \in DOMAIN t
    BY <1>12
  <2>2. Canonical(t, e) = Append(c, n) /\ LinkKind(t, e) = t[Append(c, n)].kind
    BY <1>11, <1>13, <2>1
  <2>3. Append(c, n) \in Seq(STRING) /\ IsStrictPrefix(c, Append(c, n)) /\ Front(Append(c, n)) = c
    <3> DEFINE S == STRING
    <3>1. c \in Seq(S) /\ n \in S
      BY <1>10
    <3> HIDE DEF S
    <3>2. Append(c, n) \in Seq(S) /\ IsStrictPrefix(c, Append(c, n)) /\ Front(Append(c, n)) = c
      BY <3>1, PrefixAppend, PathEntry
    <3> QED
      BY <3>2 DEF S
  <2>4. HoldsBelow(c, Append(c, n))
    BY <2>3 DEF HoldsBelow
  <2>5. Beneath(Append(c, n))
    BY <1>2, <1>5, <2>3, <2>4, ListedBelow
  <2> QED
    BY <2>1, <2>2, <2>5
<1>14. \A f \in ToSet(files') : Beneath(Canonical(t, f))
  <2>1. \A f \in ToSet(more) : Beneath(Canonical(t, f))
    BY <1>8, <1>13
  <2> QED
    BY <1>9, <2>1 DEF KInv
<1>15. \A d \in ToSet(stack') : ToList(Canonical(t, d))
  <2>1. \A d \in ToSet(deeper) : ToList(Canonical(t, d))
    BY <1>8, <1>13 DEF ToList
  <2> QED
    BY <1>4, <1>9, <2>1 DEF KInv
<1>16. ASSUME NEW p \in DOMAIN t, t[p].kind \in FileKinds, Beneath(p)
       PROVE  \/ \E f \in ToSet(files') : Canonical(t, f) = p
              \/ \E d \in ToSet(stack') : HoldsBelow(Canonical(t, d), p)
  <2>1. CASE \E f \in ToSet(files) : Canonical(t, f) = p
    BY <1>9, <2>1
  <2>2. CASE \E d \in ToSet(Front(stack)) : HoldsBelow(Canonical(t, d), p)
    BY <1>9, <2>2
  <2>3. CASE HoldsBelow(c, p)
    <3>1. p \in Seq(STRING) /\ p # NoPath
      BY <1>2, TreePaths
    <3>2. \E n \in STRING : /\ Append(c, n) \in DOMAIN t
                            /\ \/ p = Append(c, n)
                               \/ /\ t[Append(c, n)].kind = "dir" /\ world.recursive
                                  /\ HoldsBelow(Append(c, n), p)
      <4>1. CASE world.recursive
        BY <1>2, <1>10, <2>3, <4>1, WayDown DEF HoldsBelow
      <4>2. CASE ~world.recursive
        <5>1. Last(p) \in STRING /\ p = Append(Front(p), Last(p))
          BY <3>1, PathParts DEF NoPath
        <5> QED
          BY <2>3, <4>2, <5>1 DEF HoldsBelow
      <4> QED
        BY <4>1, <4>2
    <3>3. PICK n \in STRING : /\ Append(c, n) \in DOMAIN t
                              /\ \/ p = Append(c, n)
                                 \/ /\ t[Append(c, n)].kind = "dir" /\ world.recursive
                                    /\ HoldsBelow(Append(c, n), p)
      BY <3>2
    <3> DEFINE e == Append(dir, n)
    <3>4. /\ e \in ToSet(entries) /\ LinkKind(t, e) = t[Append(c, n)].kind
          /\ t[Append(c, n)].kind \in FileKinds \cup {"dir"} => Canonical(t, e) = Append(c, n)
      BY <1>11, <3>3
    <3> HIDE DEF e
    <3>5. CASE p = Append(c, n)
      <4>1. e \in ToSet(more) /\ Canonical(t, e) = p
        BY <1>8, <1>16, <3>4, <3>5
      <4> QED
        BY <1>9, <4>1
    <3>6. CASE t[Append(c, n)].kind = "dir" /\ world.recursive /\ HoldsBelow(Append(c, n), p)
      <4>1. e \in ToSet(deeper) /\ Canonical(t, e) = Append(c, n)
        BY <1>8, <3>4, <3>6
      <4> QED
        BY <1>9, <3>6, <4>1
    <3> QED
      BY <3>3, <3>5, <3>6
  <2>4. Covered /\ \A d \in ToSet(stack) : d \in ToSet(Front(stack)) \/ d = dir
    BY <1>1, <1>4 DEF KInv
  <2> QED
    BY <1>16, <2>1, <2>2, <2>3, <2>4 DEF Covered, c
<1>17. /\ \A q : Beneath(q)' <=> Beneath(q)
       /\ \A q : ToList(q)' <=> ToList(q)
       /\ \A q, p : HoldsBelow(q, p)' <=> HoldsBelow(q, p)
  BY <1>1, SameCall
<1> QED
  BY <1>1, <1>14, <1>15, <1>16, <1>17 DEF KInv, Covered

-----------------------------------------------------------------------------
(* What the call has of a file of the tree, and of a file patched.         *)
Obtains(p, d) == Call!Available(Libraries(world), world.fs[p], d)

(* It keeps its own run path only when there is nothing to write.          *)
LinkedFile(elf, p) ==
  /\ elf.interp \in {NoPath, world.interp}
  /\ \/ Call!Suits(Libraries(world), world.fs[p], elf.runpath)
     \/ elf.runpath = world.fs[p].runpath /\ Call!Suits(Libraries(world), world.fs[p], <<>>)

(* The inductive invariant of resolving: a file is as it was, or linked;   *)
(* what has been dealt with is linked, and what it cannot obtain is noted; *)
(* and nothing else is.                                                    *)
Noted(i) ==
  LET p == Canonical(world.fs, files[i])
  IN p \in Call!Targets =>
       /\ LinkedFile(fs[p], p)
       /\ \A d \in Call!Wanted(world.fs[p]) : Obtains(p, d) \/ \E m \in missing : m.dep = d

(* What is noted is wanted by a target, and cannot be obtained.            *)
Unobtained(m) ==
  /\ m.file \in Call!Targets /\ m.dep \in Call!Wanted(world.fs[m.file])
  /\ ~Obtains(m.file, m.dep)

(* Every file is as it was or linked, and the notes are right.             *)
WInv ==
  /\ \A p \in DOMAIN world.fs : fs[p] = world.fs[p] \/ LinkedFile(fs[p], p)
  /\ \A i \in settled : Noted(i)
  /\ \A m \in missing : Unobtained(m)

(* They are the call's, which does not change.                             *)
LEMMA SamePromise ==
  ASSUME world' = world
  PROVE  /\ \A p, d : Obtains(p, d)' <=> Obtains(p, d)
         /\ \A e, p : LinkedFile(e, p)' <=> LinkedFile(e, p)
         /\ \A p : p \in Call!Targets' <=> p \in Call!Targets
         /\ \A e : Call!Wanted(e)' = Call!Wanted(e)
         /\ \A m : Unobtained(m)' <=> Unobtained(m)
<1>1. Libraries(world)' = Libraries(world)
  OBVIOUS
<1>2. \A c : Call!Elsewhere(c)' <=> Call!Elsewhere(c)
  BY DEF Call!Elsewhere
<1>3. \A l, e, d : Call!Available(l, e, d)' <=> Call!Available(l, e, d)
  BY <1>2 DEF Call!Available
<1>4. \A e : Call!Wanted(e)' = Call!Wanted(e)
  OBVIOUS
<1>5. \A l, e, r : Call!Suits(l, e, r)' <=> Call!Suits(l, e, r)
  BY <1>2, <1>3, <1>4 DEF Call!Suits
<1>6. \A p : p \in Call!Targets' <=> p \in Call!Targets
  BY DEF Call!Targets, Call!Under
<1>7. \A p, d : Obtains(p, d)' <=> Obtains(p, d)
  BY <1>1, <1>3 DEF Obtains
<1>8. \A e, p : LinkedFile(e, p)' <=> LinkedFile(e, p)
  BY <1>1, <1>5 DEF LinkedFile
<1>9. \A m : Unobtained(m)' <=> Unobtained(m)
  BY <1>4, <1>6, <1>7 DEF Unobtained
<1> QED
  BY <1>4, <1>6, <1>7, <1>8, <1>9

(* The index holds all libraries when files are patched.                   *)
LEMMA AllThereNow ==
  ASSUME SInv, LInv, OneWay(world), stage = "patch"
  PROVE  AllThere
<1>1. IndexProvides
  BY IndexStands
<1>2. AllIndexed
  BY IndexComplete
<1> QED
  BY <1>1, <1>2 DEF AllThere, AllIndexed, Populated

(* A file that patch_one patches is a target of the call, and its step one *)
(* of the call's.                                                          *)
LEMMA PatchLinks ==
  ASSUME SInv, LInv, KInv, WInv, OneWay(world), stage = "patch", NEW i, NEW at, Patches(i, at),
         NEW b, b = fs'[at]
  PROVE  /\ at \in Call!Targets /\ at \in DOMAIN fs /\ LinkedFile(b, at)
         /\ \A p \in DOMAIN fs : p # at => fs'[p] = fs[p]
         /\ Call!Link(at)
<1> DEFINE elf == fs[at]
           a == world.fs[at]
           libs == Libraries(world)
           rp == RunPath(elf)
<1>1. /\ at \in DOMAIN fs /\ at \in DOMAIN world.fs /\ elf \in Elves
      /\ SameBut(a, elf)
      /\ b.runpath = (IF rp = <<>> THEN elf.runpath ELSE rp)
      /\ b.interp = (IF elf.interp = NoPath THEN NoPath ELSE world.interp)
      /\ \A p \in DOMAIN fs : p # at => fs'[p] = fs[p]
  BY PatchTree
<1>2. AllThere
  BY AllThereNow
<1>3. Call!Suits(libs, elf, rp) /\ \A r : Call!Suits(libs, elf, r) <=> Call!Suits(libs, a, r)
  BY <1>1, <1>2, RunPathSuits, SuitsAlike
<1>4. /\ world' = world /\ answer' = answer /\ i \in DOMAIN files /\ at = Canonical(fs, files[i])
      /\ Eligible(elf) /\ fs' = [fs EXCEPT ![at] = Patched(elf, rp)]
  BY DEF Patches
<1>5. at \in Call!Targets
  <2>1. files[i] \in Seq(STRING) /\ files[i] \in ToSet(files)
    BY <1>4, ListedNode DEF ToSet
  <2>2. Canonical(world.fs, files[i]) = at
    BY <1>4, <2>1, CallTree, AlikeCanonical DEF LInv
  <2>3. Beneath(at)
    BY <2>1, <2>2 DEF KInv
  <2> QED
    BY <1>1, <1>4, <2>3, TargetIs
<1>6. LinkedFile(b, at)
  <2>1. b.interp \in {NoPath, world.interp}
    BY <1>1
  <2>2. CASE rp # <<>>
    BY <1>1, <1>3, <2>1, <2>2 DEF LinkedFile
  <2>3. CASE rp = <<>>
    <3>1. b.runpath = elf.runpath /\ Call!Suits(libs, a, <<>>)
      BY <1>1, <1>3, <2>3
    <3>2. fs[at] = world.fs[at] \/ LinkedFile(fs[at], at)
      BY <1>1 DEF WInv
    <3> QED
      BY <2>1, <3>1, <3>2 DEF LinkedFile
  <2> QED
    BY <2>2, <2>3
<1>7. Call!Link(at)
  <2>1. answer.kind = "none"
    BY DEF LInv
  <2>2. Call!Suits(Call!Libraries(world), elf, b.runpath)
        \/ (b.runpath = elf.runpath /\ Call!Suits(Call!Libraries(world), elf, <<>>))
    BY <1>1, <1>3, CallLibraries
  <2>3. fs' = [fs EXCEPT ![at] =
                 [elf EXCEPT !.interp = IF elf.interp = NoPath THEN elf.interp ELSE world.interp,
                             !.runpath = b.runpath]]
    <3>1. Patched(elf, rp) =
            [elf EXCEPT !.interp = IF elf.interp = NoPath THEN elf.interp ELSE world.interp,
                        !.runpath = IF rp = <<>> THEN elf.runpath ELSE rp]
      BY DEF Patched
    <3> HIDE DEF elf, rp
    <3> QED
      BY <1>1, <1>4, <3>1
  <2> QED
    BY <1>4, <1>5, <2>1, <2>2, <2>3 DEF Call!Link, Call!NoPath, NoPath
<1> QED
  BY <1>1, <1>5, <1>6, <1>7

-----------------------------------------------------------------------------
(* Files collected stay so while nothing is collected.                     *)
LEMMA StaysCollected ==
  ASSUME KInv, UNCHANGED <<world, stack, files>>,
         \/ UNCHANGED <<fs, stage>>
         \/ stage = "patch" /\ stage' \in {"patch", "done"}
         \/ stage \notin {"walk", "patch", "done"} /\ stage' \notin {"walk", "patch"} /\ fs' = fs
         \/ stage = "walk" /\ stage' = "patch" /\ stack = <<>> /\ fs' = fs
  PROVE  KInv'
<1>1. /\ \A c : Beneath(c)' <=> Beneath(c)
      /\ \A c : ToList(c)' <=> ToList(c)
      /\ \A c, p : HoldsBelow(c, p)' <=> HoldsBelow(c, p)
  BY SameCall
<1>2. Covered' <=> Covered
  BY <1>1 DEF Covered
<1> QED
  BY <1>1, <1>2 DEF KInv

(* A file is patched: it is linked, and what it lacks is noted.            *)
LEMMA PatchNotes ==
  ASSUME SInv, LInv, KInv, WInv, OneWay(world), stage = "patch", NEW i, NEW at, Patches(i, at),
         missing' = missing \cup {[file |-> at, dep |-> d] :
                                    d \in {x \in ToSet(Deps(fs[at])) : ~FoundAny(fs[at], x)}},
         settled' = settled \cup {i}
  PROVE  WInv'
<1> DEFINE elf == fs[at]
           a == world.fs[at]
           libs == Libraries(world)
<1>1. /\ at \in Call!Targets /\ at \in DOMAIN fs /\ at \in DOMAIN world.fs
      /\ DOMAIN fs = DOMAIN world.fs
      /\ elf \in Elves /\ SameBut(a, elf)
      /\ \A p \in DOMAIN fs : p # at => fs'[p] = fs[p]
  BY PatchTree, PatchLinks DEF Alike
<1>2. AllThere
  BY AllThereNow
<1>3. /\ world' = world /\ files' = files /\ i \in DOMAIN files /\ at = Canonical(fs, files[i])
      /\ settled \subseteq DOMAIN files
  BY DEF Patches, LInv
<1>4. /\ Call!Wanted(a) = ToSet(Deps(elf))
      /\ \A d \in ToSet(Deps(elf)) : FoundAny(elf, d) <=> Obtains(at, d)
  <2>1. Call!Wanted(elf) = ToSet(Deps(elf)) /\ \A d \in ToSet(Deps(elf)) : d \in Seq(Sonames)
    BY <1>1, WantedIs
  <2>2. Call!Wanted(elf) = Call!Wanted(a)
        /\ \A d : Call!Available(libs, elf, d) <=> Call!Available(libs, a, d)
    BY <1>1, SuitsAlike
  <2>3. \A d \in ToSet(Deps(elf)) : FoundAny(elf, d) <=> Call!Available(libs, elf, d)
    BY <1>2, <2>1, FoundIs
  <2> QED
    BY <2>1, <2>2, <2>3 DEF Obtains
<1>5. \A j \in DOMAIN files : Canonical(world.fs, files[j]) = Canonical(fs, files[j])
  BY ListedNode, CallTree, AlikeCanonical DEF LInv
<1>6. /\ \A p, d : Obtains(p, d)' <=> Obtains(p, d)
      /\ \A e, p : LinkedFile(e, p)' <=> LinkedFile(e, p)
      /\ \A p : p \in Call!Targets' <=> p \in Call!Targets
      /\ \A e : Call!Wanted(e)' = Call!Wanted(e)
      /\ \A m : Unobtained(m)' <=> Unobtained(m)
  BY <1>3, SamePromise
<1>7. ASSUME NEW p \in DOMAIN world.fs, NEW e, e = fs'[p]
      PROVE  e = world.fs[p] \/ LinkedFile(e, p)
  <2>1. CASE p = at
    BY <1>7, <2>1, PatchLinks
  <2>2. CASE p # at
    BY <1>1, <1>7, <2>2 DEF WInv
  <2> QED
    BY <2>1, <2>2
<1>8. ASSUME NEW j \in settled \cup {i},
             NEW p, p = Canonical(world.fs, files[j]), p \in Call!Targets,
             NEW e, e = fs'[p]
      PROVE  /\ LinkedFile(e, p)
             /\ \A d \in Call!Wanted(world.fs[p]) : Obtains(p, d) \/ \E m \in missing' : m.dep = d
  <2>1. CASE p = at
    <3>1. LinkedFile(e, p)
      BY <1>8, <2>1, PatchLinks
    <3>2. ASSUME NEW d \in Call!Wanted(world.fs[p]), ~Obtains(p, d)
          PROVE  \E m \in missing' : m.dep = d
      <4>1. d \in ToSet(Deps(elf)) /\ ~FoundAny(elf, d)
        BY <1>4, <2>1, <3>2
      <4> DEFINE m == [file |-> at, dep |-> d]
      <4>2. m \in missing' /\ m.dep = d
        BY <4>1
      <4> QED
        BY <4>2
    <3> QED
      BY <3>1, <3>2
  <2>2. CASE p # at
    <3>1. j \in settled /\ p \in DOMAIN fs
      BY <1>3, <1>5, <1>8, <2>2, ListedNode
    <3>2. e = fs[p] /\ Noted(j)
      BY <1>1, <1>8, <2>2, <3>1 DEF WInv
    <3> QED
      BY <1>8, <3>2 DEF Noted
  <2> QED
    BY <2>1, <2>2
<1>9. ASSUME NEW m \in missing' PROVE Unobtained(m)
  <2>1. CASE m \in missing
    BY <2>1 DEF WInv
  <2>2. CASE m \notin missing
    <3>1. PICK d \in ToSet(Deps(elf)) : ~FoundAny(elf, d) /\ m = [file |-> at, dep |-> d]
      BY <1>9, <2>2
    <3>2. m.file = at /\ m.dep = d
      BY <3>1
    <3> QED
      BY <1>1, <1>4, <3>1, <3>2 DEF Unobtained
  <2> QED
    BY <2>1, <2>2
<1>10. (\A p \in DOMAIN world.fs : fs[p] = world.fs[p] \/ LinkedFile(fs[p], p))'
  <2> SUFFICES ASSUME NEW p \in DOMAIN world.fs, NEW e, e = fs'[p]
               PROVE  e = world.fs[p] \/ LinkedFile(e, p)'
    BY <1>3 DEF LinkedFile
  <2> QED
    BY <1>6, <1>7
<1>11. (\A j \in settled : Noted(j))'
  <2> SUFFICES ASSUME NEW j \in settled \cup {i}, NEW p, p = Canonical(world.fs, files[j]),
                      p \in Call!Targets, NEW e, e = fs'[p]
               PROVE  /\ LinkedFile(e, p)'
                      /\ \A d \in Call!Wanted(world.fs[p]) :
                           Obtains(p, d) \/ \E m \in missing' : m.dep = d
    BY <1>3, <1>6 DEF Noted, LinkedFile
  <2> QED
    BY <1>6, <1>8
<1>12. (\A m \in missing : Unobtained(m))'
  BY <1>6, <1>9
<1> QED
  BY <1>10, <1>11, <1>12 DEF WInv

-----------------------------------------------------------------------------
(* What has been dealt with stays so while nothing is patched.             *)
LEMMA StaysNoted ==
  ASSUME WInv, UNCHANGED <<world, fs, settled, missing>>, files' = files \/ settled = {}
  PROVE  WInv'
<1>1. /\ \A p, d : Obtains(p, d)' <=> Obtains(p, d)
      /\ \A e, p : LinkedFile(e, p)' <=> LinkedFile(e, p)
      /\ \A p : p \in Call!Targets' <=> p \in Call!Targets
      /\ \A e : Call!Wanted(e)' = Call!Wanted(e)
      /\ \A m : Unobtained(m)' <=> Unobtained(m)
  BY SamePromise
<1>2. \A p : LinkedFile(fs[p], p)' <=> LinkedFile(fs[p], p)
  BY DEF LinkedFile, Call!Suits, Call!Wanted, Call!Elsewhere, Call!Available
<1>3. \A i \in settled : Noted(i)' <=> Noted(i)
  BY <1>1, <1>2 DEF Noted
<1> QED
  BY <1>1, <1>2, <1>3 DEF WInv

(* The steps that a call takes before and after it patches.                *)
Abstract == <<world, fs, answer>>

(* patch_one: a target is linked, or nothing happens.                      *)
LEMMA PatchOneResolves ==
  ASSUME SInv, LInv, KInv, WInv, OneWay(world), NEW i \in DOMAIN files, PatchOne(i)
  PROVE  KInv' /\ WInv' /\ ((\E p \in Call!Targets : Call!Link(p)) \/ UNCHANGED Abstract)
<1> DEFINE at == Canonical(fs, files[i])
<1>1. /\ stage = "patch" /\ settled' = settled \cup {i}
      /\ UNCHANGED <<world, stage, cacheVars, stack, files, answer>>
      /\ IF Eligible(fs[at])
         THEN /\ fs' = [fs EXCEPT ![at] = Patched(fs[at], RunPath(fs[at]))]
              /\ missing' = missing \cup
                   {[file |-> at, dep |-> d] :
                      d \in {x \in ToSet(Deps(fs[at])) : ~FoundAny(fs[at], x)}}
         ELSE fs' = fs /\ missing' = missing
  BY DEF PatchOne
<1>2. KInv'
  BY <1>1, StaysCollected
<1>3. at \in DOMAIN fs /\ at = Canonical(world.fs, files[i])
  BY ListedNode, CallTree, AlikeCanonical DEF LInv
<1> HIDE DEF at
<1>4. CASE Eligible(fs[at])
  <2>1. Patches(i, at)
    BY <1>1, <1>4 DEF Patches, at
  <2>2. at \in Call!Targets /\ Call!Link(at)
    BY <1>1, <2>1, PatchLinks
  <2>3. WInv'
    BY <1>1, <1>4, <2>1, PatchNotes
  <2> QED
    BY <1>2, <2>2, <2>3
<1>5. CASE ~Eligible(fs[at])
  <2>1. fs' = fs /\ missing' = missing /\ UNCHANGED Abstract
    BY <1>1, <1>5 DEF Abstract
  <2>2. at \notin Call!Targets
    BY <1>1, <1>3, <1>5, TargetIs
  <2>3. Noted(i)
    BY <1>3, <2>2 DEF Noted
  <2>4. /\ \A p, d : Obtains(p, d)' <=> Obtains(p, d)
        /\ \A e, p : LinkedFile(e, p)' <=> LinkedFile(e, p)
        /\ \A p : p \in Call!Targets' <=> p \in Call!Targets
        /\ \A e : Call!Wanted(e)' = Call!Wanted(e)
        /\ \A m : Unobtained(m)' <=> Unobtained(m)
    BY <1>1, SamePromise
  <2>5. \A p : LinkedFile(fs[p], p)' <=> LinkedFile(fs[p], p)
    BY <1>1, <2>1 DEF LinkedFile, Call!Suits, Call!Wanted, Call!Elsewhere, Call!Available
  <2>6. \A j : Noted(j)' <=> Noted(j)
    BY <1>1, <2>1, <2>4, <2>5 DEF Noted
  <2>7. WInv'
    BY <1>1, <2>1, <2>3, <2>4, <2>5, <2>6 DEF WInv
  <2> QED
    BY <1>2, <2>1, <2>7
<1> QED
  BY <1>4, <1>5

(* When every file has been dealt with, every target is linked, and what   *)
(* it cannot obtain noted.                                                 *)
LEMMA AllNoted ==
  ASSUME LInv, KInv, WInv, stage = "patch", settled = DOMAIN files, NEW p \in Call!Targets
  PROVE  /\ p \in DOMAIN fs /\ SameBut(world.fs[p], fs[p])
         /\ Call!Linked(Call!Libraries(world), p)
         /\ \A d \in Call!Wanted(fs[p]) : d \in Seq(Sonames)
         /\ \A d \in Call!Wanted(fs[p]) : \/ Call!Available(Call!Libraries(world), fs[p], d)
                                          \/ \E m \in missing : m.dep = d
<1> DEFINE libs == Libraries(world)
           a == world.fs[p]
<1>1. /\ world \in Worlds /\ IsTree(world.fs) /\ Alike(world.fs, fs)
      /\ p \in DOMAIN world.fs /\ p \in DOMAIN fs
  BY CallTree DEF LInv, Call!Targets, Alike
<1>2. Beneath(p) /\ Eligible(fs[p])
  BY <1>1, TargetIs
<1>3. a.kind = "elf" /\ SameBut(a, fs[p])
  BY <1>1, <1>2, AlikeKind DEF Eligible, Alike
<1>4. PICK f \in ToSet(files) : Canonical(world.fs, f) = p
  <2>1. ToSet(stack) = {}
    BY DEF KInv, ToSet
  <2> QED
    BY <1>1, <1>2, <1>3, <2>1 DEF KInv, Covered, FileKinds
<1>5. PICK j \in settled : f = files[j]
  BY DEF ToSet
<1>6. /\ LinkedFile(fs[p], p)
      /\ \A d \in Call!Wanted(a) : Obtains(p, d) \/ \E m \in missing : m.dep = d
  BY <1>4, <1>5 DEF WInv, Noted
<1>7. /\ Call!Wanted(fs[p]) = Call!Wanted(a)
      /\ \A d : Call!Available(libs, fs[p], d) <=> Call!Available(libs, a, d)
      /\ \A r : Call!Suits(libs, fs[p], r) <=> Call!Suits(libs, a, r)
  BY <1>3, SuitsAlike
<1>8. Call!Linked(Call!Libraries(world), p)
  BY <1>6, <1>7, CallLibraries DEF LinkedFile, Call!Linked, Call!NoPath, NoPath
<1>9. \A d \in Call!Wanted(fs[p]) : d \in Seq(Sonames)
  BY <1>3, WantedIs DEF SameBut
<1>10. \A d \in Call!Wanted(fs[p]) : \/ Call!Available(Call!Libraries(world), fs[p], d)
                                     \/ \E m \in missing : m.dep = d
  BY <1>6, <1>7, CallLibraries DEF Obtains
<1> QED
  BY <1>1, <1>3, <1>8, <1>9, <1>10

(* report_missing answers as the call must.                                *)
LEMMA ReportResolves ==
  ASSUME LInv, KInv, WInv, Report
  PROVE  KInv' /\ WInv' /\ (Call!Succeed \/ Call!ReportMissing)
<1>1. /\ stage = "patch" /\ settled = DOMAIN files /\ stage' = "done"
      /\ UNCHANGED <<world, fs, stack, files, settled, missing>>
      /\ answer' = IF \A m \in missing : Ignored(m.dep) THEN [kind |-> "ok"]
                   ELSE [kind |-> "err", why |-> "missing"]
  BY DEF Report
<1>2. KInv' /\ WInv'
  BY <1>1, StaysCollected, StaysNoted
<1>3. answer.kind = "none" /\ world \in Worlds
  BY <1>1 DEF LInv
<1>4. \A p \in Call!Targets : Call!Linked(Call!Libraries(world), p)
  BY <1>1, AllNoted
<1>5. CASE \A m \in missing : Ignored(m.dep)
  <2>1. ASSUME NEW p \in Call!Targets, NEW d \in Call!Wanted(fs[p])
        PROVE  Call!Available(Call!Libraries(world), fs[p], d) \/ Call!Excused(d)
    <3>1. d \in Seq(Sonames)
      BY <1>1, AllNoted
    <3>2. Call!Available(Call!Libraries(world), fs[p], d) \/ \E m \in missing : m.dep = d
      BY <1>1, AllNoted
    <3>3. Ignored(d) <=> Call!Excused(d)
      BY <1>3, <3>1, IgnoredIs
    <3> QED
      BY <1>5, <3>2, <3>3
  <2>2. Call!Succeed
    BY <1>1, <1>3, <1>4, <1>5, <2>1 DEF Call!Succeed
  <2> QED
    BY <1>2, <2>2
<1>6. CASE ~\A m \in missing : Ignored(m.dep)
  <2>1. PICK m \in missing : ~Ignored(m.dep)
    BY <1>6
  <2> DEFINE p == m.file
             d == m.dep
  <2>2. p \in Call!Targets /\ d \in Call!Wanted(world.fs[p]) /\ ~Obtains(p, d)
    BY DEF WInv, Unobtained
  <2> HIDE DEF p, d
  <2>3. SameBut(world.fs[p], fs[p]) /\ \A x \in Call!Wanted(fs[p]) : x \in Seq(Sonames)
    BY <1>1, <2>2, AllNoted
  <2>4. d \in Call!Wanted(fs[p]) /\ ~Call!Available(Call!Libraries(world), fs[p], d)
    BY <2>2, <2>3, SuitsAlike, CallLibraries DEF Obtains
  <2>5. ~Call!Excused(d)
    BY <1>3, <2>1, <2>3, <2>4, IgnoredIs DEF d
  <2>6. Call!ReportMissing
    BY <1>1, <1>3, <1>4, <1>6, <2>2, <2>4, <2>5 DEF Call!ReportMissing
  <2> QED
    BY <1>2, <2>6
<1> QED
  BY <1>5, <1>6

-----------------------------------------------------------------------------
(* Before any file is collected.                                           *)
LEMMA InitResolution == Init => KInv /\ WInv /\ Call!Init
<1> SUFFICES ASSUME Init PROVE KInv /\ WInv /\ Call!Init
  OBVIOUS
<1>1. /\ fs = world.fs /\ stage = "start" /\ stack = <<>> /\ files = <<>> /\ settled = {}
      /\ missing = {} /\ answer = [kind |-> "none"]
  BY DEF Init, None
<1>2. ToSet(files) = {} /\ ToSet(stack) = {}
  BY <1>1 DEF ToSet
<1> QED
  BY <1>1, <1>2 DEF KInv, WInv, Call!Init

(* A call that is no good is refused.                                      *)
LEMMA StartResolves ==
  ASSUME LInv, KInv, WInv, Start
  PROVE  KInv' /\ WInv' /\ (Call!Refuse \/ UNCHANGED Abstract)
<1>1. /\ stage = "start" /\ UNCHANGED <<world, fs, stack, files, settled, missing>>
      /\ \/ /\ stage' = "done"
            /\ \E why \in {"cli", "io", "parse"} : answer' = [kind |-> "err", why |-> why]
            /\ world.paths = <<>> \/ ~IsFile(fs, world.interp) \/ Interpreter.kind = "junk"
         \/ stage' = "scan" /\ answer' = answer
  BY DEF Start, Quit
<1>2. KInv' /\ WInv'
  BY <1>1, StaysCollected, StaysNoted
<1>3. answer.kind = "none"
  BY <1>1 DEF LInv
<1>4. CASE stage' = "scan" /\ answer' = answer
  BY <1>1, <1>2, <1>4 DEF Abstract
<1>5. CASE \E why \in {"cli", "io", "parse"} : answer' = [kind |-> "err", why |-> why]
  <2>1. world.paths = <<>> \/ Call!NodeAt(fs, world.interp).kind # "elf"
    BY <1>1, <1>3, <1>5, CallPaths DEF IsFile, FileKinds, Interpreter
  <2>2. Call!Refuse
    BY <1>1, <1>3, <1>5, <2>1 DEF Call!Refuse
  <2> QED
    BY <1>2, <2>2
<1> QED
  BY <1>1, <1>4, <1>5

(* Every step of the call keeps the invariants, and is a step of the       *)
(* abstract one, or none.                                                  *)
LEMMA NextResolves ==
  ASSUME SInv, LInv, KInv, WInv, OneWay(world), [Next]_vars
  PROVE  KInv' /\ WInv' /\ [Call!Next]_<<world, fs, answer>>
<1>1. ASSUME Visit \/ Spawn \/ Merge \/ \E w \in Workers : Grab(w) \/ Parse(w),
             UNCHANGED <<stack, files, settled, missing, answer>>
      PROVE  KInv' /\ WInv' /\ UNCHANGED Abstract
  <2>1. UNCHANGED <<world, fs>>
        /\ \/ stage' = stage
           \/ stage \notin {"walk", "patch", "done"} /\ stage' \notin {"walk", "patch"}
    <3>1. ASSUME Visit \/ \E w \in Workers : Grab(w) \/ Parse(w)
          PROVE  stage' = stage /\ UNCHANGED <<world, fs>>
      BY <3>1 DEF Visit, Grab, Parse
    <3>2. ASSUME Spawn
          PROVE  stage = "scan" /\ stage' = "parse" /\ UNCHANGED <<world, fs>>
      BY <3>2 DEF Spawn
    <3>3. ASSUME Merge
          PROVE  stage = "parse" /\ stage' \in {"collect", "scan"} /\ UNCHANGED <<world, fs>>
      BY <3>3 DEF Merge
    <3> QED
      BY <1>1, <3>1, <3>2, <3>3
  <2> QED
    BY <1>1, <2>1, StaysCollected, StaysNoted DEF Abstract
<1>2. ASSUME Collected PROVE KInv' /\ WInv' /\ UNCHANGED Abstract
  <2>1. /\ stage = "walk" /\ stage' = "patch" /\ stack = <<>>
        /\ UNCHANGED <<world, fs, stack, files, settled, missing, answer>>
    BY <1>2 DEF Collected
  <2> QED
    BY <2>1, StaysCollected, StaysNoted DEF Abstract
<1>3. ASSUME UNCHANGED vars PROVE KInv' /\ WInv' /\ UNCHANGED Abstract
  <2>1. UNCHANGED <<world, fs, stage, stack, files, settled, missing, answer>>
    BY <1>3 DEF vars
  <2> QED
    BY <2>1, StaysCollected, StaysNoted DEF Abstract
<1>4. ASSUME CollectPaths \/ CollectDir PROVE KInv' /\ WInv' /\ UNCHANGED Abstract
  <2>1. stage \in {"collect", "walk"} /\ UNCHANGED <<world, fs, settled, missing, answer>>
    BY <1>4 DEF CollectPaths, CollectDir
  <2>2. settled = {}
    BY <2>1 DEF LInv
  <2> QED
    BY <1>4, <2>1, <2>2, CollectPathsCovers, CollectDirCovers, StaysNoted DEF Abstract
<1>5. \/ KInv' /\ WInv' /\ UNCHANGED Abstract
      \/ KInv' /\ WInv' /\ Call!Next
  BY <1>1, <1>2, <1>3, <1>4, StartResolves, PatchOneResolves, ReportResolves
     DEF Next, Populate, Call!Next
<1> QED
  BY <1>5 DEF Abstract

(* The call keeps its promise: whatever the tree, the number of workers    *)
(* and the order in which they finish and files are patched, every target  *)
(* under --paths is linked to what the libraries that its roots lead to    *)
(* provide, nothing else is written, and the answer is true (run,          *)
(* collect_files, patch_one, report_missing).  No directory may be         *)
(* reachable both with and without its subdirectories.                     *)
THEOREM ResolutionImplemented == Spec /\ OneWay(world) => ImplementsResolution
<1>1. Init => KInv /\ WInv /\ Call!Init
  BY InitResolution
<1>2. OneWay(world) /\ [Next]_vars => OneWay(world)'
  <2>1. [Next]_vars => world' = world
    <3>1. Start => world' = world
      BY DEF Start, Quit
    <3>2. Populate => world' = world
      BY DEF Populate, Visit, Spawn, Merge, Grab, Parse
    <3>3. CollectPaths \/ CollectDir \/ Collected \/ Report => world' = world
      BY DEF CollectPaths, CollectDir, Collected, Report
    <3>4. ASSUME NEW i \in DOMAIN files, PatchOne(i) PROVE world' = world
      BY <3>4 DEF PatchOne
    <3> QED
      BY <3>1, <3>2, <3>3, <3>4 DEF Next, vars
  <2> QED
    BY <2>1
<1>3. SInv /\ LInv /\ KInv /\ WInv /\ OneWay(world) /\ [Next]_vars
        => KInv' /\ WInv' /\ [Call!Next]_<<world, fs, answer>>
  BY NextResolves
<1>4. ImplementsResolution <=> Call!Init /\ [][Call!Next]_<<world, fs, answer>>
  BY DEF ImplementsResolution, Call!CallSpec
<1> QED
  BY <1>1, <1>2, <1>3, <1>4, InductiveSearch, InductiveLoads, PTL DEF Spec
=============================================================================
