----------------------------- MODULE RepatchProofs -----------------------------
(***************************************************************************)
(* The layouts keep the parts of a file apart, whatever is placed: appended,*)
(* prepended or in place.  With that, for every linker and every sequence of*)
(* runs: the output parses, passes the tool's checks, and can be run on again.*)
(***************************************************************************)
EXTENDS SerializeProofs

-----------------------------------------------------------------------------
(* The sections of a region follow one another.                            *)
LEMMA PlaceAtBound ==
  ASSUME NEW img, IsImage(img), NEW i \in DOMAIN img.shdrs, NEW end \in Nat
  PROVE  PlaceAt(img, i, end) \in Nat /\ PlaceAt(img, i, end) >= end
<1>1. img.shdrs[i] \in ShdrCell
  BY ImageDomains
<1>2. img.shdrs[i].addralign \in Nat /\ SecAlign \in Nat
  BY <1>1, LayoutAssumption DEF ShdrCell
<1>3. Max({SecAlign, img.shdrs[i].addralign}) \in Nat
  BY <1>2, LongerOf
<1> QED
  BY <1>3, RoundUpBound DEF PlaceAt

(* The fold of region_layout, by its steps: where each section ends.       *)
ArePlaceEnds(end, img, secs, start) ==
  /\ end \in [0 .. Len(img.shdrs) -> Nat] /\ end[0] = start
  /\ \A k \in 1 .. Len(img.shdrs) : end[k] =
       IF k \in secs THEN PlaceAt(img, k, end[k - 1]) + SectionLen(img, k) ELSE end[k - 1]

(* The recursive function of the model takes those steps.                  *)
LEMMA EndsOfPlaces ==
  ASSUME NEW img, IsImage(img), NEW secs, secs \subseteq DOMAIN img.shdrs,
         \A i \in secs : SectionLen(img, i) \in Nat, NEW start \in Nat
  PROVE  ArePlaceEnds(PlaceEnds(img, secs, start), img, secs, start)
<1> DEFINE n == Len(img.shdrs)
           IsEnd(f) == f = [k \in 0 .. n |->
                              IF k = 0 THEN start
                              ELSE IF k \in secs THEN PlaceAt(img, k, f[k - 1]) + SectionLen(img, k)
                              ELSE f[k - 1]]
           step == [k \in 1 .. n |-> [e \in Nat |->
                      IF k \in secs THEN PlaceAt(img, k, e) + SectionLen(img, k) ELSE e]]
           end == CHOOSE f : IsEnd(f)
<1>1. n \in Nat /\ DOMAIN img.shdrs = 1 .. n
  BY ImageDomains
<1>2. \A k \in secs : \A e \in Nat : PlaceAt(img, k, e) \in Nat
  BY PlaceAtBound
<1>3. step \in [1 .. n -> [Nat -> Nat]]
  <2>1. ASSUME NEW k \in 1 .. n, NEW e \in Nat
        PROVE  (IF k \in secs THEN PlaceAt(img, k, e) + SectionLen(img, k) ELSE e) \in Nat
    <3>1. \A x, y \in Nat : x + y \in Nat
      OBVIOUS
    <3> QED
      BY <1>2, <3>1
  <2> QED
    BY <2>1
<1>4. PICK f : Recurses(f, n, Nat, start, step)
  <2> HIDE DEF n, step
  <2> QED
    BY <1>1, <1>3, RecursionExists
<1>5. /\ f \in [0 .. n -> Nat] /\ f[0] = start /\ \A k \in 1 .. n : f[k] = step[k][f[k - 1]]
      /\ \A k \in 1 .. n : f[k - 1] \in Nat
  <2>1. f \in [0 .. n -> Nat] /\ f[0] = start /\ \A k \in 1 .. n : f[k] = step[k][f[k - 1]]
    BY <1>4 DEF Recurses
  <2>2. \A k \in 1 .. n : k - 1 \in 0 .. n
    BY <1>1
  <2> HIDE DEF n, step
  <2> QED
    BY <2>1, <2>2
<1>6. \A k \in 1 .. n : f[k] =
        IF k \in secs THEN PlaceAt(img, k, f[k - 1]) + SectionLen(img, k) ELSE f[k - 1]
  <2>1. \A k \in 1 .. n : \A e \in Nat : step[k][e] =
          IF k \in secs THEN PlaceAt(img, k, e) + SectionLen(img, k) ELSE e
    OBVIOUS
  <2> HIDE DEF n, step
  <2> QED
    BY <1>5, <2>1
<1>7. IsEnd(f)
  <2> HIDE DEF step
  <2>1. \A k \in 0 .. n : k = 0 \/ k \in 1 .. n
    BY <1>1
  <2>2. f = [k \in 0 .. n |-> f[k]]
    BY <1>5
  <2>3. \A k \in 0 .. n : f[k] =
          IF k = 0 THEN start
          ELSE IF k \in secs THEN PlaceAt(img, k, f[k - 1]) + SectionLen(img, k)
          ELSE f[k - 1]
    BY <1>5, <1>6, <2>1
  <2> QED
    BY <2>2, <2>3
<1>8. IsEnd(end)
  <2> HIDE DEF IsEnd
  <2> QED
    BY <1>7
<1>9. PlaceEnds(img, secs, start) = end
  BY DEF PlaceEnds
<1> HIDE DEF step
<1>10. end[0] = start /\ DOMAIN end = 0 .. n /\ \A k \in 1 .. n : end[k] =
        IF k \in secs THEN PlaceAt(img, k, end[k - 1]) + SectionLen(img, k) ELSE end[k - 1]
  <2> HIDE DEF end
  <2>1. \A k \in 0 .. n : end[k] =
          IF k = 0 THEN start
          ELSE IF k \in secs THEN PlaceAt(img, k, end[k - 1]) + SectionLen(img, k)
          ELSE end[k - 1]
    BY <1>8
  <2>2. 0 \in 0 .. n /\ \A k \in 1 .. n : k \in 0 .. n /\ k # 0
    BY <1>1
  <2>3. DOMAIN end = 0 .. n
    BY <1>8
  <2> HIDE DEF IsEnd, n
  <2> QED
    BY <2>1, <2>2, <2>3
<1>11. \A k \in 0 .. n : end[k] \in Nat
  <2> DEFINE P == {k \in 0 .. n : end[k] \in Nat}
  <2> HIDE DEF end, IsEnd
  <2>1. 0 \in P
    BY <1>1, <1>10
  <2>2. ASSUME NEW k \in 0 .. n - 1, k \in P PROVE k + 1 \in P
    <3>1. k + 1 \in 1 .. n /\ k + 1 \in 0 .. n /\ (k + 1) - 1 = k /\ end[k] \in Nat
      BY <1>1, <2>2
    <3>2. end[k + 1] = IF k + 1 \in secs THEN PlaceAt(img, k + 1, end[k]) + SectionLen(img, k + 1)
                       ELSE end[k]
      BY <1>10, <3>1
    <3>3. end[k + 1] \in Nat
      <4>1. CASE k + 1 \in secs
        <5>1. PlaceAt(img, k + 1, end[k]) \in Nat /\ SectionLen(img, k + 1) \in Nat
          BY <1>2, <3>1, <4>1
        <5> QED
          BY <3>2, <4>1, <5>1
      <4> QED
        BY <3>1, <3>2, <4>1
    <3> QED
      BY <3>1, <3>3
  <2>3. \A k \in 0 .. n : k \in P
    <3> HIDE DEF P, n
    <3> QED
      BY <1>1, <2>1, <2>2, InductionUpTo
  <2> QED
    BY <2>3
<1>12. end \in [0 .. n -> Nat]
  <2>1. end = [k \in 0 .. n |-> end[k]]
    BY <1>8
  <2> HIDE DEF end, IsEnd, n
  <2> QED
    BY <1>11, <2>1
<1> HIDE DEF end
<1> QED
  BY <1>9, <1>10, <1>12 DEF ArePlaceEnds

(* Sections placed one after the other come in order and do not meet.      *)
LEMMA Placing ==
  ASSUME NEW img, IsImage(img), NEW secs, secs \subseteq DOMAIN img.shdrs,
         \A i \in secs : SectionLen(img, i) \in Nat, NEW start \in Nat
  PROVE  LET p == Place(img, secs, start)
         IN /\ DOMAIN p.at = secs /\ p.end \in Nat /\ start <= p.end
            /\ \A i \in secs : /\ p.at[i] \in Nat /\ start <= p.at[i]
                               /\ p.at[i] + SectionLen(img, i) <= p.end
            /\ \A i, j \in secs : i < j => p.at[i] + SectionLen(img, i) <= p.at[j]
<1> DEFINE p == Place(img, secs, start)
           end == PlaceEnds(img, secs, start)
           n == Len(img.shdrs)
<1>1. n \in Nat /\ DOMAIN img.shdrs = 1 .. n
  BY ImageDomains
<1>2. /\ end \in [0 .. n -> Nat] /\ end[0] = start
      /\ \A k \in 1 .. n : end[k] =
           IF k \in secs THEN PlaceAt(img, k, end[k - 1]) + SectionLen(img, k) ELSE end[k - 1]
  <2>1. ArePlaceEnds(PlaceEnds(img, secs, start), img, secs, start)
    BY EndsOfPlaces
  <2> QED
    BY <2>1 DEF ArePlaceEnds
<1>3. /\ p.at = [i \in secs |-> PlaceAt(img, i, end[i - 1])] /\ p.end = end[n]
  BY DEF Place, Placed
<1> HIDE DEF p, end, n
<1>4. \A k \in 1 .. n : k \in secs =>
        /\ p.at[k] \in Nat /\ end[k - 1] \in Nat /\ end[k - 1] <= p.at[k]
        /\ p.at[k] + SectionLen(img, k) = end[k]
  <2> SUFFICES ASSUME NEW k \in 1 .. n, k \in secs
               PROVE  /\ p.at[k] \in Nat /\ end[k - 1] \in Nat /\ end[k - 1] <= p.at[k]
                      /\ p.at[k] + SectionLen(img, k) = end[k]
    OBVIOUS
  <2>1. k - 1 \in 0 .. n /\ end[k - 1] \in Nat
    <3>1. k - 1 \in 0 .. n
      BY <1>1
    <3> QED
      BY <1>2, <3>1
  <2>2. p.at[k] = PlaceAt(img, k, end[k - 1])
    BY <1>3
  <2>3. PlaceAt(img, k, end[k - 1]) \in Nat /\ PlaceAt(img, k, end[k - 1]) >= end[k - 1]
    BY <1>1, <2>1, PlaceAtBound
  <2> QED
    BY <1>2, <2>1, <2>2, <2>3
<1>5. \A k \in 1 .. n : end[k - 1] \in Nat /\ end[k] \in Nat /\ end[k - 1] <= end[k]
  <2> SUFFICES ASSUME NEW k \in 1 .. n
               PROVE  end[k - 1] \in Nat /\ end[k] \in Nat /\ end[k - 1] <= end[k]
    OBVIOUS
  <2>1. k - 1 \in 0 .. n /\ k \in 0 .. n
    BY <1>1
  <2>2. end[k - 1] \in Nat /\ end[k] \in Nat
    BY <1>2, <2>1
  <2>3. CASE k \in secs
    <3>1. SectionLen(img, k) \in Nat
      BY <2>3
    <3> QED
      BY <1>4, <2>2, <2>3, <3>1
  <2> QED
    BY <1>2, <2>2, <2>3
<1>6. \A m \in 0 .. n : \A k \in 0 .. m : end[k] <= end[m]
  <2> DEFINE P == {m \in 0 .. n : \A k \in 0 .. m : end[k] <= end[m]}
  <2>1. 0 \in P
    <3>1. end[0] \in Nat /\ \A k \in 0 .. 0 : k = 0
      BY <1>2
    <3> QED
      BY <1>1, <3>1
  <2>2. ASSUME NEW m \in 0 .. n - 1, m \in P PROVE m + 1 \in P
    <3>1. m + 1 \in 1 .. n /\ m + 1 \in 0 .. n /\ (m + 1) - 1 = m
      BY <1>1
    <3>2. end[m] \in Nat /\ end[m + 1] \in Nat /\ end[m] <= end[m + 1]
      BY <1>5, <3>1
    <3>3. ASSUME NEW k \in 0 .. m + 1 PROVE end[k] <= end[m + 1]
      <4>1. CASE k = m + 1
        BY <3>2, <4>1
      <4>2. CASE k # m + 1
        <5>1. k \in 0 .. m /\ k \in 0 .. n
          BY <1>1, <4>2
        <5>2. end[k] <= end[m] /\ end[k] \in Nat
          BY <1>2, <2>2, <5>1
        <5> QED
          BY <3>2, <5>2
      <4> QED
        BY <4>1, <4>2
    <3> QED
      BY <3>1, <3>3
  <2>3. \A m \in 0 .. n : m \in P
    <3> HIDE DEF P
    <3> QED
      BY <1>1, <2>1, <2>2, InductionUpTo
  <2> QED
    BY <2>3
<1>7. DOMAIN p.at = secs /\ p.end \in Nat /\ start <= p.end
  <2>1. n \in 0 .. n /\ 0 \in 0 .. n
    BY <1>1
  <2>2. DOMAIN p.at = secs
    BY <1>3
  <2>3. p.end \in Nat
    BY <1>2, <1>3, <2>1
  <2>4. start <= p.end
    BY <1>2, <1>3, <1>6, <2>1
  <2> QED
    BY <2>2, <2>3, <2>4
<1>8. ASSUME NEW i \in secs
      PROVE  /\ i \in 1 .. n /\ p.at[i] \in Nat /\ start <= p.at[i]
             /\ p.at[i] + SectionLen(img, i) <= p.end
             /\ p.at[i] + SectionLen(img, i) = end[i]
  <2>1. i \in 1 .. n /\ i - 1 \in 0 .. n /\ i \in 0 .. n /\ 0 \in 0 .. i - 1 /\ n \in 0 .. n
    BY <1>1
  <2>2. /\ p.at[i] \in Nat /\ end[i - 1] \in Nat /\ end[i - 1] <= p.at[i]
        /\ p.at[i] + SectionLen(img, i) = end[i]
    BY <1>4, <2>1
  <2>3. start <= end[i - 1] /\ end[i] <= end[n]
    BY <1>2, <1>6, <2>1
  <2> QED
    BY <1>3, <2>1, <2>2, <2>3
<1>9. ASSUME NEW i \in secs, NEW j \in secs, i < j
      PROVE  p.at[i] + SectionLen(img, i) <= p.at[j]
  <2>1. i \in 1 .. n /\ j \in 1 .. n /\ j - 1 \in 0 .. n /\ i \in 0 .. j - 1 /\ i \in 0 .. n
    BY <1>1, <1>9
  <2>2. end[i] <= end[j - 1] /\ end[i] \in Nat /\ end[j - 1] \in Nat
    BY <1>2, <1>6, <2>1
  <2>3. end[j - 1] <= p.at[j] /\ p.at[j] \in Nat
    BY <1>4, <2>1
  <2> QED
    BY <1>8, <2>2, <2>3
<1> QED
  BY <1>7, <1>8, <1>9 DEF p

-----------------------------------------------------------------------------
(* A region holds its headers and then its sections.                       *)
Region(r, img, relocate, headSize) ==
  /\ r.loads \in {1, 2} /\ r.dataLen \in Nat /\ r.len \in Nat
  /\ headSize[r.loads] <= r.dataLen /\ r.dataLen <= r.len
  /\ DOMAIN r.at = relocate
  /\ \A i \in relocate : /\ r.at[i] \in Nat /\ headSize[r.loads] <= r.at[i]
                         /\ r.at[i] + SectionLen(img, i) <= r.len
  /\ \A i, j \in relocate :
       i # j => \/ r.at[i] + SectionLen(img, i) <= r.at[j]
                \/ r.at[j] + SectionLen(img, j) <= r.at[i]

(* The plan of a region: head, data and code, in this order.               *)
LEMMA Planned ==
  ASSUME NEW img, IsImage(img), NEW relocate, relocate \subseteq DOMAIN img.shdrs,
         \A i \in relocate : SectionLen(img, i) \in Nat, NEW headSize \in [1 .. 2 -> Nat]
  PROVE  Region(Plan(img, relocate, headSize), img, relocate, headSize)
<1> DEFINE exec == {i \in relocate : "X" \in img.shdrs[i].flags}
           rest == relocate \ exec
           h == IF exec = {} THEN 1 ELSE 2
           data == Place(img, rest, headSize[h])
           r == Plan(img, relocate, headSize)
<1>1. h \in {1, 2} /\ headSize[h] \in Nat
  OBVIOUS
<1>2. /\ rest \subseteq DOMAIN img.shdrs /\ exec \subseteq DOMAIN img.shdrs
      /\ \A i \in rest : SectionLen(img, i) \in Nat
      /\ \A i \in exec : SectionLen(img, i) \in Nat
      /\ \A i \in relocate : (i \in rest \/ i \in exec) /\ i \in Int
      /\ exec \cap rest = {} /\ relocate = rest \cup exec
  <2>1. DOMAIN img.shdrs \subseteq Int
    BY ImageDomains
  <2> QED
    BY <2>1
<1>3. r = PlanExec(data, exec, img)
  BY DEF Plan
<1>4. h = IF exec = {} THEN 1 ELSE 2
  OBVIOUS
<1> HIDE DEF h, exec, rest
<1>5. /\ DOMAIN data.at = rest /\ data.end \in Nat /\ headSize[h] <= data.end
      /\ \A i \in rest : /\ data.at[i] \in Nat /\ headSize[h] <= data.at[i]
                         /\ data.at[i] + SectionLen(img, i) <= data.end
      /\ \A i, j \in rest : i < j => data.at[i] + SectionLen(img, i) <= data.at[j]
  BY <1>1, <1>2, Placing
<1> HIDE DEF data, r
<1>6. CASE exec = {}
  <2>1. /\ r.at = data.at /\ r.dataLen = data.end /\ r.len = data.end /\ r.loads = 1
        /\ rest = relocate /\ h = 1
    BY <1>2, <1>3, <1>4, <1>6 DEF PlanExec
  <2>2. \A i, j \in relocate :
          i # j => \/ r.at[i] + SectionLen(img, i) <= r.at[j]
                   \/ r.at[j] + SectionLen(img, j) <= r.at[i]
    <3>1. \A i, j \in relocate : i # j => i < j \/ j < i
      BY <1>2
    <3> QED
      BY <1>5, <2>1, <3>1
  <2>3. /\ r.loads \in {1, 2} /\ r.dataLen \in Nat /\ r.len \in Nat /\ headSize[r.loads] = headSize[h]
        /\ headSize[h] <= r.dataLen /\ r.dataLen <= r.len
    BY <1>5, <2>1
  <2>4. /\ DOMAIN r.at = relocate
        /\ \A i \in relocate : /\ r.at[i] \in Nat /\ headSize[h] <= r.at[i]
                               /\ r.at[i] + SectionLen(img, i) <= r.len
    BY <1>5, <2>1
  <2> QED
    BY <2>2, <2>3, <2>4 DEF Region, r
<1>7. CASE exec # {}
  <2> DEFINE dataLen == RoundUp(data.end, Page)
             x == Place(img, exec, dataLen)
  <2>1. dataLen \in Nat /\ dataLen >= data.end
    BY <1>5, LayoutAssumption, RoundUpBound
  <2>2. /\ r.at = [i \in DOMAIN x.at \cup DOMAIN data.at |->
                    IF i \in DOMAIN x.at THEN x.at[i] ELSE data.at[i]]
        /\ r.dataLen = dataLen /\ r.len = x.end /\ r.loads = 2 /\ h = 2
    BY <1>3, <1>4, <1>7 DEF PlanExec
  <2> HIDE DEF dataLen
  <2>3. /\ DOMAIN x.at = exec /\ x.end \in Nat /\ dataLen <= x.end
        /\ \A i \in exec : /\ x.at[i] \in Nat /\ dataLen <= x.at[i]
                           /\ x.at[i] + SectionLen(img, i) <= x.end
        /\ \A i, j \in exec : i < j => x.at[i] + SectionLen(img, i) <= x.at[j]
    BY <1>2, <2>1, Placing
  <2> HIDE DEF x
  <2>4. /\ DOMAIN r.at = relocate
        /\ \A i \in exec : r.at[i] = x.at[i]
        /\ \A i \in rest : r.at[i] = data.at[i]
    BY <1>2, <1>5, <2>2, <2>3
  <2>5. ASSUME NEW i \in relocate
        PROVE  /\ r.at[i] \in Nat /\ headSize[h] <= r.at[i]
               /\ r.at[i] + SectionLen(img, i) <= r.len
    <3>1. CASE i \in exec
      BY <1>1, <1>5, <2>1, <2>2, <2>3, <2>4, <3>1
    <3>2. CASE i \in rest
      BY <1>1, <1>2, <1>5, <2>1, <2>2, <2>3, <2>4, <3>2
    <3> QED
      BY <1>2, <3>1, <3>2
  <2>6. \A i \in rest : \A j \in exec : r.at[i] + SectionLen(img, i) <= r.at[j]
    BY <1>2, <1>5, <2>1, <2>3, <2>4
  <2>7. ASSUME NEW i \in relocate, NEW j \in relocate, i # j
        PROVE  \/ r.at[i] + SectionLen(img, i) <= r.at[j]
               \/ r.at[j] + SectionLen(img, j) <= r.at[i]
    <3>1. i < j \/ j < i
      BY <1>2, <2>7
    <3>2. CASE i \in exec /\ j \in exec
      BY <2>3, <2>4, <3>1, <3>2
    <3>3. CASE i \in rest /\ j \in rest
      BY <1>5, <2>4, <3>1, <3>3
    <3> QED
      BY <1>2, <2>6, <3>2, <3>3
  <2>8. headSize[h] <= dataLen
    BY <1>1, <1>5, <2>1
  <2>9. /\ r.loads \in {1, 2} /\ r.dataLen \in Nat /\ r.len \in Nat /\ headSize[r.loads] = headSize[h]
        /\ headSize[h] <= r.dataLen /\ r.dataLen <= r.len
    BY <2>1, <2>2, <2>3, <2>8
  <2> QED
    BY <2>4, <2>5, <2>7, <2>9 DEF Region, r
<1> QED
  BY <1>6, <1>7

-----------------------------------------------------------------------------
(* Dropping the segments of a prior region.                                *)
Fewer(img, r) ==
  /\ IsImage(r) /\ r.ehdr = img.ehdr /\ r.shdrs = img.shdrs /\ r.data = img.data
  /\ r.dynamic = img.dynamic /\ r.err = img.err
  /\ Range(r.phdrs) \subseteq Range(img.phdrs) /\ Len(r.phdrs) <= Len(img.phdrs)

(* Removing an element leaves others of the list.                          *)
LEMMA Removed ==
  ASSUME NEW S, NEW s \in Seq(S), NEW i \in DOMAIN s
  PROVE  /\ RemoveAt(s, i) \in Seq(S) /\ Len(RemoveAt(s, i)) <= Len(s)
         /\ Range(RemoveAt(s, i)) \subseteq Range(s)
<1> DEFINE a == SubSeq(s, 1, i - 1)
           b == SubSeq(s, i + 1, Len(s))
<1>1. /\ Len(s) \in Nat /\ DOMAIN s = 1 .. Len(s) /\ i \in 1 .. Len(s)
      /\ IsList(s) /\ \A k \in 1 .. Len(s) : s[k] \in S
  BY SeqList
<1>2. RemoveAt(s, i) = a \o b
  BY DEF RemoveAt
<1>3. /\ IsList(a) /\ Len(a) = i - 1 /\ \A k \in 1 .. i - 1 : a[k] = s[k]
  <2>1. \A m, n \in Int : LET l == IF m <= n THEN n - m + 1 ELSE 0
                          IN /\ IsList(SubSeq(s, m, n)) /\ Len(SubSeq(s, m, n)) = l
                             /\ \A k \in 1 .. l : SubSeq(s, m, n)[k] = s[m + k - 1]
    BY ListSub
  <2>2. /\ 1 \in Int /\ i - 1 \in Int /\ (IF 1 <= i - 1 THEN (i - 1) - 1 + 1 ELSE 0) = i - 1
        /\ \A k \in 1 .. i - 1 : 1 + k - 1 = k
    BY <1>1
  <2> QED
    BY <2>1, <2>2
<1>4. /\ IsList(b) /\ Len(b) = Len(s) - i /\ \A k \in 1 .. Len(s) - i : b[k] = s[i + k]
  <2>1. \A m, n \in Int : LET l == IF m <= n THEN n - m + 1 ELSE 0
                          IN /\ IsList(SubSeq(s, m, n)) /\ Len(SubSeq(s, m, n)) = l
                             /\ \A k \in 1 .. l : SubSeq(s, m, n)[k] = s[m + k - 1]
    BY ListSub
  <2>2. /\ i + 1 \in Int /\ Len(s) \in Int
        /\ (IF i + 1 <= Len(s) THEN Len(s) - (i + 1) + 1 ELSE 0) = Len(s) - i
        /\ \A k \in 1 .. Len(s) - i : (i + 1) + k - 1 = i + k
    BY <1>1
  <2> QED
    BY <2>1, <2>2
<1> HIDE DEF a, b
<1>5. IsList(a \o b) /\ IsJoin(a \o b, a, b)
  BY <1>3, <1>4, ListConcat
<1>6. /\ Len(a \o b) = Len(s) - 1 /\ DOMAIN (a \o b) = 1 .. Len(s) - 1
      /\ \A k \in 1 .. Len(s) - 1 :
           (a \o b)[k] = IF k <= i - 1 THEN a[k] ELSE b[k - (i - 1)]
  <2>1. /\ Len(a \o b) = Len(a) + Len(b) /\ DOMAIN (a \o b) = 1 .. Len(a) + Len(b)
        /\ \A k \in 1 .. Len(a) + Len(b) :
             (a \o b)[k] = IF k <= Len(a) THEN a[k] ELSE b[k - Len(a)]
    BY <1>5 DEF IsJoin
  <2>2. Len(a) = i - 1 /\ Len(a) + Len(b) = Len(s) - 1
    BY <1>1, <1>3, <1>4
  <2> QED
    BY <2>1, <2>2
<1>7. ASSUME NEW k \in 1 .. Len(s) - 1 PROVE \E j \in 1 .. Len(s) : (a \o b)[k] = s[j]
  <2>1. CASE k <= i - 1
    <3>1. k \in 1 .. i - 1 /\ k \in 1 .. Len(s)
      BY <1>1, <2>1
    <3> QED
      BY <1>3, <1>6, <2>1, <3>1
  <2>2. CASE ~(k <= i - 1)
    <3>1. k - (i - 1) \in 1 .. Len(s) - i /\ i + (k - (i - 1)) \in 1 .. Len(s)
      BY <1>1, <2>2
    <3> QED
      BY <1>4, <1>6, <2>2, <3>1
  <2> QED
    BY <2>1, <2>2
<1>8. a \o b \in Seq(S)
  BY <1>1, <1>5, <1>6, <1>7, ListTyped
<1>9. Range(a \o b) \subseteq Range(s)
  <2> DEFINE c == a \o b
  <2>1. DOMAIN c = 1 .. Len(s) - 1 /\ \A k \in DOMAIN c : \E j \in DOMAIN s : c[k] = s[j]
    BY <1>1, <1>6, <1>7
  <2> HIDE DEF c
  <2>2. Range(c) \subseteq Range(s)
    BY <2>1 DEF Range
  <2> QED
    BY <2>2 DEF c
<1>10. Len(a \o b) <= Len(s)
  <2> DEFINE c == Len(a \o b)
  <2>1. c = Len(s) - 1
    BY <1>6
  <2> HIDE DEF c
  <2>2. c <= Len(s)
    BY <1>1, <2>1
  <2> QED
    BY <2>2 DEF c
<1> QED
  BY <1>2, <1>8, <1>9, <1>10

(* Dropping a segment, where there is one to drop.                         *)
LEMMA Dropped ==
  ASSUME NEW img, IsImage(img), NEW i, i = 0 \/ i \in DOMAIN img.phdrs
  PROVE  Fewer(img, DropPhdr(img, i))
<1>1. CASE i = 0
  <2>1. Len(img.phdrs) \in Nat
    BY ImageDomains
  <2> QED
    BY <1>1, <2>1 DEF DropPhdr, Fewer
<1>2. CASE i # 0
  <2> DEFINE t == RemoveAt(img.phdrs, i)
             r == [img EXCEPT !.phdrs = t]
  <2>1. DropPhdr(img, i) = r
    BY <1>2 DEF DropPhdr
  <2>2. t \in Seq(PhdrCell) /\ Len(t) <= Len(img.phdrs) /\ Range(t) \subseteq Range(img.phdrs)
    BY <1>2, Removed DEF IsImage
  <2> HIDE DEF t
  <2>3. Fields(r, img.ehdr, t, img.shdrs, img.data, img.dynamic, img.err)
    BY ImageWith
  <2> HIDE DEF r
  <2>4. /\ r.ehdr = img.ehdr /\ r.phdrs = t /\ r.shdrs = img.shdrs
        /\ r.data = img.data /\ r.dynamic = img.dynamic /\ r.err = img.err
        /\ r = Image(r.ehdr, r.phdrs, r.shdrs, r.data, r.dynamic, r.err)
    BY <2>3 DEF Fields
  <2>5. IsImage(r)
    BY <2>2, <2>4 DEF IsImage
  <2>6. Fewer(img, r)
    BY <2>2, <2>4, <2>5 DEF Fewer
  <2> QED
    BY <2>1, <2>6
<1> QED
  BY <1>1, <1>2

(* The segment of an entry stub is one of the image's.                     *)
LEMMA StubIndex ==
  ASSUME NEW img, IsImage(img)
  PROVE  StubLoad(img) = 0 \/ StubLoad(img) \in DOMAIN img.phdrs
<1> DEFINE i == FindSection(img, Stub)
           S == {j \in 1 .. Len(img.phdrs) :
                   /\ IsLoad(img.phdrs[j]) /\ "X" \in img.phdrs[j].flags
                   /\ img.phdrs[j].offset = img.shdrs[i].offset
                   /\ img.phdrs[j].vaddr = img.shdrs[i].addr}
<1>1. StubLoad(img) = IF i = 0 THEN 0 ELSE IF S # {} THEN Min(S) ELSE 0
  BY DEF StubLoad, SelectInSeq
<1>2. S \subseteq 1 .. Len(img.phdrs) /\ Len(img.phdrs) \in Nat /\ DOMAIN img.phdrs = 1 .. Len(img.phdrs)
  BY ImageDomains
<1> HIDE DEF S, i
<1>3. S # {} => Min(S) \in DOMAIN img.phdrs
  BY <1>2, LeastIndex
<1> QED
  BY <1>1, <1>3

(* What a layout starts from.                                              *)
Reclaimed(set, img, reclaim) ==
  /\ Fewer(img, set.img)
  /\ set.relocate = ToPlace(img, Grown(img), set.start)
  /\ set.start = None \/ (set.start = img.ehdr.phoff /\ PriorRegion(img) # 0)
  /\ reclaim /\ set.start = None => PriorRegion(img) = 0

(* What relocation_set returns: the grown sections and, reclaiming, those  *)
(* of the earlier region.                                                  *)
LEMMA RelocationSets ==
  ASSUME NEW img, IsImage(img), NEW reclaim \in BOOLEAN
  PROVE  Reclaimed(RelocationSet(img, Grown(img), reclaim), img, reclaim)
<1> DEFINE prior == IF reclaim THEN PriorRegion(img) ELSE 0
           start == IF prior = 0 THEN None ELSE img.phdrs[prior].offset
           a == DropPhdr(img, prior)
           b == DropPhdr(a, StubLoad(a))
           set == RelocationSet(img, Grown(img), reclaim)
<1>1. set = [img |-> DropRegion(img, prior), start |-> start,
             relocate |-> ToPlace(img, Grown(img), start)]
  BY DEF RelocationSet, Reclaim
<1>2. /\ prior = 0 \/ prior \in DOMAIN img.phdrs
      /\ prior # 0 => prior = PriorRegion(img) /\ img.phdrs[prior].offset = img.ehdr.phoff
      /\ reclaim /\ prior = 0 => PriorRegion(img) = 0
  BY RegionFound
<1>3. prior = 0 => start = None
  OBVIOUS
<1>4. prior # 0 => start = img.phdrs[prior].offset
  OBVIOUS
<1> HIDE DEF prior, start
<1>5. Fewer(img, a)
  BY <1>2, Dropped
<1> HIDE DEF a
<1>6. Fewer(a, b)
  <2>1. IsImage(a)
    BY <1>5 DEF Fewer
  <2> QED
    BY <2>1, StubIndex, Dropped
<1> HIDE DEF b
<1>7. Fewer(img, b)
  <2>1. Len(a.phdrs) \in Nat /\ Len(b.phdrs) \in Nat /\ Len(img.phdrs) \in Nat
    BY <1>5, <1>6, ImageDomains DEF Fewer
  <2> QED
    BY <1>5, <1>6, <2>1 DEF Fewer
<1>8. Fewer(img, img)
  <2>1. Len(img.phdrs) \in Nat
    BY ImageDomains
  <2> QED
    BY <2>1 DEF Fewer
<1>9. Fewer(img, DropRegion(img, prior))
  BY <1>7, <1>8 DEF DropRegion, DropStub, a, b
<1>10. img.ehdr.phoff \in Nat /\ None \notin Nat
  BY DEF IsImage, EhdrCell, None
<1> QED
  BY <1>1, <1>2, <1>3, <1>4, <1>9, <1>10 DEF Reclaimed

-----------------------------------------------------------------------------
(* The placed sections and the new segments.                               *)
Arranged(placed, img, relocate) ==
  /\ IsImage(placed) /\ Len(placed.shdrs) = Len(img.shdrs)
  /\ placed.data = img.data /\ placed.dynamic = img.dynamic
  /\ placed.ehdr.shstrndx = img.ehdr.shstrndx
  /\ \A i \in DOMAIN img.shdrs :
       /\ placed.shdrs[i].type = img.shdrs[i].type
       /\ i \in relocate => placed.shdrs[i].size = SectionLen(img, i)
       /\ i \notin relocate => placed.shdrs[i].size = img.shdrs[i].size

(* A section header with a new place.                                      *)
SetHeader(c, off, addr, size) == [c EXCEPT !.offset = off, !.addr = addr, !.size = size]

(* A section header with a new place stays of its type.                    *)
LEMMA HeaderSet ==
  ASSUME NEW c \in ShdrCell, NEW off \in Nat, NEW addr \in Nat, NEW size \in Nat
  PROVE  /\ SetHeader(c, off, addr, size) \in ShdrCell
         /\ SetHeader(c, off, addr, size).type = c.type
         /\ SetHeader(c, off, addr, size).offset = off /\ SetHeader(c, off, addr, size).size = size
BY DEF SetHeader, ShdrCell

(* place_relocated moves the sections of the region, and no other.         *)
LEMMA RelocatedHeaders ==
  ASSUME NEW img, IsImage(img), NEW region, DOMAIN region.at \subseteq DOMAIN img.shdrs,
         \A i \in DOMAIN region.at : region.at[i] \in Nat /\ SectionLen(img, i) \in Nat,
         NEW off \in Nat, NEW vaddr \in Nat
  PROVE  LET r == PlaceRelocated(img, region, off, vaddr)
         IN /\ Arranged(r, img, DOMAIN region.at)
            /\ r.ehdr = img.ehdr /\ r.phdrs = img.phdrs
            /\ \A i \in DOMAIN img.shdrs :
                 /\ i \in DOMAIN region.at => r.shdrs[i].offset = off + region.at[i]
                 /\ i \notin DOMAIN region.at => r.shdrs[i] = img.shdrs[i]
<1> DEFINE New(i) == [img.shdrs[i] EXCEPT !.offset = off + region.at[i], !.addr = vaddr + region.at[i],
                                          !.size = SectionLen(img, i)]
           d == [i \in DOMAIN img.shdrs |->
                   IF i \in DOMAIN region.at THEN New(i) ELSE img.shdrs[i]]
           r == [img EXCEPT !.shdrs = Tuple(d)]
<1>1. PlaceRelocated(img, region, off, vaddr) = r
  BY DEF PlaceRelocated
<1>2. /\ \A i \in DOMAIN img.shdrs : img.shdrs[i] \in ShdrCell
      /\ DOMAIN img.shdrs = 1 .. Len(img.shdrs) /\ Len(img.shdrs) \in Nat /\ IsList(img.shdrs)
  BY ImageDomains, SeqList DEF IsImage
<1>3. ASSUME NEW i \in DOMAIN region.at
      PROVE  /\ New(i) \in ShdrCell /\ New(i).type = img.shdrs[i].type
             /\ New(i).offset = off + region.at[i] /\ New(i).size = SectionLen(img, i)
  <2>1. /\ off + region.at[i] \in Nat /\ vaddr + region.at[i] \in Nat
        /\ SectionLen(img, i) \in Nat /\ img.shdrs[i] \in ShdrCell
    BY <1>2
  <2>2. New(i) = SetHeader(img.shdrs[i], off + region.at[i], vaddr + region.at[i], SectionLen(img, i))
    BY DEF SetHeader
  <2> HIDE DEF New
  <2>3. ASSUME NEW c \in ShdrCell, NEW x \in Nat, NEW y \in Nat, NEW z \in Nat,
               New(i) = SetHeader(c, x, y, z)
        PROVE  New(i) \in ShdrCell /\ New(i).type = c.type /\ New(i).offset = x /\ New(i).size = z
    <3> HIDE DEF d, r
    <3>1. SetHeader(c, x, y, z) \in ShdrCell
      BY HeaderSet
    <3>2. SetHeader(c, x, y, z).type = c.type
      BY HeaderSet
    <3>3. SetHeader(c, x, y, z).offset = x
      BY HeaderSet
    <3>4. SetHeader(c, x, y, z).size = z
      BY HeaderSet
    <3> QED
      BY <2>3, <3>1, <3>2, <3>3, <3>4
  <2> QED
    BY <2>1, <2>2, <2>3
<1> HIDE DEF New
<1>4. /\ DOMAIN d = DOMAIN img.shdrs /\ d = [i \in DOMAIN img.shdrs |-> d[i]]
      /\ \A i \in DOMAIN img.shdrs : d[i] = IF i \in DOMAIN region.at THEN New(i) ELSE img.shdrs[i]
  OBVIOUS
<1> HIDE DEF d
<1>5. IsList(d) /\ Len(d) = Len(img.shdrs) /\ Tuple(d) = d
  BY <1>2, <1>4, ListMap
<1>6. \A i \in DOMAIN d : d[i] \in ShdrCell
  BY <1>2, <1>3, <1>4
<1>7. d \in Seq(ShdrCell)
  BY <1>5, <1>6, ListTyped
<1>8. Fields(r, img.ehdr, img.phdrs, Tuple(d), img.data, img.dynamic, img.err)
  BY ImageWith
<1> HIDE DEF r
<1>9. /\ r.ehdr = img.ehdr /\ r.phdrs = img.phdrs /\ r.shdrs = d
      /\ r.data = img.data /\ r.dynamic = img.dynamic
      /\ r = Image(r.ehdr, r.phdrs, r.shdrs, r.data, r.dynamic, r.err)
  BY <1>5, <1>8 DEF Fields
<1>10. IsImage(r)
  BY <1>4, <1>5, <1>7, <1>9 DEF IsImage
<1>11. \A i \in DOMAIN img.shdrs :
         /\ i \in DOMAIN region.at => /\ r.shdrs[i].offset = off + region.at[i]
                                      /\ r.shdrs[i].size = SectionLen(img, i)
                                      /\ r.shdrs[i].type = img.shdrs[i].type
         /\ i \notin DOMAIN region.at => r.shdrs[i] = img.shdrs[i]
  BY <1>3, <1>4, <1>9
<1>12. Arranged(r, img, DOMAIN region.at)
  BY <1>5, <1>9, <1>10, <1>11 DEF Arranged
<1> QED
  BY <1>1, <1>9, <1>11, <1>12

(* What Region::emit adds to an image: the placed sections, and segments   *)
(* at the region and at its executable part.                               *)
NewSegment(p, off, dataLen) == p.type = "LOAD" /\ p.offset \in {off, off + dataLen}
(* What emitting a region does: its sections at their places, its segments *)
(* at the end of the table.                                                *)
Emitted(e, img, region, off) ==
  /\ Arranged(e, img, DOMAIN region.at)
  /\ e.ehdr.phoff = img.ehdr.phoff /\ e.ehdr.shoff = img.ehdr.shoff
  /\ \A i \in DOMAIN img.shdrs :
       /\ i \in DOMAIN region.at => e.shdrs[i].offset = off + region.at[i]
       /\ i \notin DOMAIN region.at => e.shdrs[i] = img.shdrs[i]
  /\ Len(e.phdrs) = Len(img.phdrs) + region.loads
  /\ \A i \in DOMAIN img.phdrs : e.phdrs[i] = img.phdrs[i]
  /\ \A p \in Range(e.phdrs) : p \in Range(img.phdrs) \/ NewSegment(p, off, region.dataLen)

(* A LOAD segment made for the region.                                     *)
FreshAt(p, off) == p \in PhdrCell /\ p.type = "LOAD" /\ p.offset = off

(* load makes one.                                                         *)
LEMMA LoadSegTyped ==
  ASSUME NEW w \in {"W", "X"}, NEW off \in Nat, NEW vaddr \in Nat, NEW size \in Nat, NEW align \in Nat
  PROVE  FreshAt(LoadSeg({"R", w}, off, vaddr, size, align), off)
<1>1. {"R", w} \in SUBSET Text /\ "LOAD" \in Text
  BY DEF Text
<1> QED
  BY <1>1 DEF LoadSeg, Phdr, PhdrCell, FreshAt

(* emit does that.                                                         *)
LEMMA Emitting ==
  ASSUME NEW img, IsImage(img), NEW region, DOMAIN region.at \subseteq DOMAIN img.shdrs,
         \A i \in DOMAIN region.at : region.at[i] \in Nat /\ SectionLen(img, i) \in Nat,
         region.loads \in {1, 2}, region.dataLen \in Nat, region.len \in Nat,
         region.dataLen <= region.len,
         NEW off \in Nat, NEW vaddr \in Nat, NEW dataFilesz \in Nat, NEW align \in Nat
  PROVE  Emitted(Emit(img, region, off, vaddr, dataFilesz, align), img, region, off)
<1> DEFINE placed == PlaceRelocated(img, region, off, vaddr)
           x == region.dataLen
           data == LoadSeg({"R", "W"}, off, vaddr, dataFilesz, align)
           exec == LoadSeg({"R", "X"}, off + x, vaddr + x, region.len - x, Page)
           k == FindSection(img, Stub)
           e == Emit(img, region, off, vaddr, dataFilesz, align)
<1>1. /\ Arranged(placed, img, DOMAIN region.at)
      /\ placed.ehdr = img.ehdr /\ placed.phdrs = img.phdrs
      /\ \A i \in DOMAIN img.shdrs :
           /\ i \in DOMAIN region.at => placed.shdrs[i].offset = off + region.at[i]
           /\ i \notin DOMAIN region.at => placed.shdrs[i] = img.shdrs[i]
  BY RelocatedHeaders
<1>2. data \in PhdrCell /\ NewSegment(data, off, x)
  <2>1. FreshAt(data, off)
    BY LoadSegTyped
  <2> HIDE DEF data
  <2> QED
    BY <2>1 DEF NewSegment, FreshAt
<1>3. exec \in PhdrCell /\ NewSegment(exec, off, x)
  <2>1. \A a, b, c, d \in Nat : FreshAt(LoadSeg({"R", "X"}, a, b, c, d), a)
    BY LoadSegTyped
  <2>2. off + x \in Nat /\ vaddr + x \in Nat /\ region.len - x \in Nat /\ Page \in Nat
    BY LayoutAssumption
  <2>3. FreshAt(exec, off + x)
    BY <2>1, <2>2
  <2> HIDE DEF exec
  <2> QED
    BY <2>3 DEF NewSegment, FreshAt
<1>4. /\ IsList(img.phdrs) /\ Len(img.phdrs) \in Nat /\ DOMAIN img.phdrs = 1 .. Len(img.phdrs)
      /\ \A i \in DOMAIN img.phdrs : img.phdrs[i] \in PhdrCell
      /\ IsImage(placed)
  BY <1>1, ImageDomains, SeqList DEF IsImage, Arranged
<1>5. CASE region.loads = 1
  <2> DEFINE s == Append(img.phdrs, data)
             r == [placed EXCEPT !.phdrs = s]
  <2>1. e = r
    BY <1>1, <1>5 DEF Emit
  <2> HIDE DEF data, exec, k, e, placed
  <2>2. /\ IsList(s) /\ Len(s) = Len(img.phdrs) + 1 /\ DOMAIN s = 1 .. Len(img.phdrs) + 1
        /\ \A i \in 1 .. Len(img.phdrs) : s[i] = img.phdrs[i]
        /\ s[Len(img.phdrs) + 1] = data
    BY <1>4, ListAppend
  <2> HIDE DEF s
  <2>3. \A i \in DOMAIN s : /\ s[i] \in PhdrCell
                            /\ s[i] \in Range(img.phdrs) \/ NewSegment(s[i], off, x)
    <3> SUFFICES ASSUME NEW i \in DOMAIN s
                 PROVE  /\ s[i] \in PhdrCell
                        /\ s[i] \in Range(img.phdrs) \/ NewSegment(s[i], off, x)
      OBVIOUS
    <3>1. CASE i \in 1 .. Len(img.phdrs)
      BY <1>4, <2>2, <3>1 DEF Range
    <3>2. CASE i = Len(img.phdrs) + 1
      BY <1>2, <2>2, <3>2
    <3> QED
      BY <1>4, <2>2, <3>1, <3>2
  <2>4. s \in Seq(PhdrCell)
    BY <2>2, <2>3, ListTyped
  <2>5. Fields(r, placed.ehdr, s, placed.shdrs, placed.data, placed.dynamic, placed.err)
    BY <1>4, ImageWith
  <2> HIDE DEF r
  <2>6. /\ r.ehdr = img.ehdr /\ r.phdrs = s /\ r.shdrs = placed.shdrs
        /\ r.data = placed.data /\ r.dynamic = placed.dynamic
        /\ r = Image(r.ehdr, r.phdrs, r.shdrs, r.data, r.dynamic, r.err)
    BY <1>1, <2>5 DEF Fields
  <2>7. IsImage(r)
    BY <1>1, <1>4, <2>4, <2>6 DEF IsImage
  <2>8. Arranged(r, img, DOMAIN region.at)
    BY <1>1, <2>6, <2>7 DEF Arranged
  <2>9. \A p \in Range(r.phdrs) : p \in Range(img.phdrs) \/ NewSegment(p, off, region.dataLen)
    BY <2>3, <2>6 DEF Range
  <2>10. \A i \in DOMAIN img.phdrs : r.phdrs[i] = img.phdrs[i]
    BY <1>4, <2>2, <2>6
  <2>11. Emitted(r, img, region, off)
    BY <1>1, <1>5, <2>2, <2>6, <2>8, <2>9, <2>10 DEF Emitted
  <2> QED
    BY <2>1, <2>11 DEF e
<1>6. CASE region.loads # 1
  <2> DEFINE new == <<data, exec>>
             s == img.phdrs \o new
             entry == IF k = 0 THEN placed.ehdr.entry ELSE placed.shdrs[k].addr + CodeOffset
             h == [img.ehdr EXCEPT !.entry = entry]
             a == [placed EXCEPT !.phdrs = s]
             r == [a EXCEPT !.ehdr = h]
  <2>0. k = 0 \/ k \in DOMAIN placed.shdrs
    <3>1. k = 0 \/ k \in DOMAIN img.shdrs
      BY FindSectionIndex
    <3>2. DOMAIN placed.shdrs = 1 .. Len(img.shdrs) /\ DOMAIN img.shdrs = 1 .. Len(img.shdrs)
      BY <1>1, <1>4, ImageDomains DEF Arranged
    <3> HIDE DEF k, placed
    <3> QED
      BY <3>1, <3>2
  <2>1. e = r
    <3>1. e = [placed EXCEPT !.phdrs = placed.phdrs \o <<data, exec>>, !.ehdr.entry = entry]
      <4> HIDE DEF data, placed
      <4> QED
        BY <1>6 DEF Emit, placed, data
    <3>2. placed.phdrs \o <<data, exec>> = s
      BY <1>1
    <3>3. placed.ehdr = img.ehdr
      BY <1>1
    <3>4. placed = Image(placed.ehdr, placed.phdrs, placed.shdrs, placed.data, placed.dynamic, placed.err)
      BY <1>4 DEF IsImage
    <3> HIDE DEF data, exec, k, placed, s, entry, e
    <3> QED
      BY <3>1, <3>2, <3>3, <3>4 DEF Image
  <2> HIDE DEF data, exec, k, e, placed
  <2>2. \A y, z : IsList(<<y, z>>) /\ Len(<<y, z>>) = 2 /\ <<y, z>>[1] = y /\ <<y, z>>[2] = z
                  /\ DOMAIN <<y, z>> = 1 .. 2
    BY DEF IsList
  <2>3. IsList(new) /\ Len(new) = 2 /\ new[1] = data /\ new[2] = exec /\ DOMAIN new = 1 .. 2
    BY <2>2
  <2> HIDE DEF new
  <2>4. IsList(s) /\ IsJoin(s, img.phdrs, new)
    BY <1>4, <2>3, ListConcat
  <2> HIDE DEF s
  <2>5. Len(s) = Len(img.phdrs) + 2 /\ \A i \in DOMAIN s :
          (i \in DOMAIN img.phdrs /\ s[i] = img.phdrs[i]) \/ s[i] = data \/ s[i] = exec
    BY <2>3, <2>4 DEF IsJoin
  <2>6. \A i \in DOMAIN s : /\ s[i] \in PhdrCell
                            /\ s[i] \in Range(img.phdrs) \/ NewSegment(s[i], off, x)
    BY <1>2, <1>3, <1>4, <2>5 DEF Range
  <2>7. s \in Seq(PhdrCell)
    BY <2>4, <2>6, ListTyped
  <2>8. h \in EhdrCell /\ h.phoff = img.ehdr.phoff /\ h.shoff = img.ehdr.shoff
        /\ h.shstrndx = img.ehdr.shstrndx
    <3>1. entry \in Nat
      <4>1. CASE k = 0
        BY <1>1, <4>1 DEF IsImage, EhdrCell
      <4>2. CASE k # 0
        <5>1. placed.shdrs[k] \in ShdrCell
          BY <1>4, <2>0, <4>2, ImageDomains
        <5> QED
          BY <4>2, <5>1 DEF ShdrCell, CodeOffset
      <4> QED
        BY <4>1, <4>2
    <3> HIDE DEF entry
    <3>2. img.ehdr \in EhdrCell
      BY DEF IsImage
    <3> QED
      BY <3>1, <3>2 DEF EhdrCell
  <2> HIDE DEF h
  <2>9. Fields(a, placed.ehdr, s, placed.shdrs, placed.data, placed.dynamic, placed.err)
    BY <1>4, ImageWith
  <2> HIDE DEF a
  <2>10. /\ a.ehdr = img.ehdr /\ a.phdrs = s /\ a.shdrs = placed.shdrs
         /\ a.data = placed.data /\ a.dynamic = placed.dynamic
         /\ a = Image(a.ehdr, a.phdrs, a.shdrs, a.data, a.dynamic, a.err)
    BY <1>1, <2>9 DEF Fields
  <2>11. IsImage(a)
    BY <1>1, <1>4, <2>7, <2>10 DEF IsImage
  <2>12. Fields(r, h, s, placed.shdrs, placed.data, placed.dynamic, a.err)
    BY <2>10, <2>11, ImageWith
  <2> HIDE DEF r
  <2>13. /\ r.ehdr = h /\ r.phdrs = s /\ r.shdrs = placed.shdrs
         /\ r.data = placed.data /\ r.dynamic = placed.dynamic
         /\ r = Image(r.ehdr, r.phdrs, r.shdrs, r.data, r.dynamic, r.err)
    BY <2>12 DEF Fields
  <2>14. IsImage(r)
    BY <1>4, <2>7, <2>8, <2>13 DEF IsImage
  <2>15. Arranged(r, img, DOMAIN region.at)
    BY <1>1, <2>8, <2>13, <2>14 DEF Arranged
  <2>16. \A p \in Range(r.phdrs) : p \in Range(img.phdrs) \/ NewSegment(p, off, region.dataLen)
    BY <2>6, <2>13 DEF Range
  <2>17. Len(s) = Len(img.phdrs) + region.loads
    BY <1>6, <2>5
  <2>18. \A i \in DOMAIN img.phdrs : r.phdrs[i] = img.phdrs[i]
    BY <1>4, <2>3, <2>4, <2>13 DEF IsJoin
  <2>19. Emitted(r, img, region, off)
    BY <1>1, <2>8, <2>13, <2>15, <2>16, <2>17, <2>18 DEF Emitted
  <2> QED
    BY <2>1, <2>19 DEF e
<1> QED
  BY <1>5, <1>6

-----------------------------------------------------------------------------
(* After a layout a section is as long as its cells.                       *)
LEMMA Sized ==
  ASSUME NEW f, Coherent(f), NEW img, Edited(img, f), NEW start, NEW relocate,
         relocate = ToPlace(img, Grown(img), start),
         NEW placed, Arranged(placed, img, relocate), NEW r, FixedUp(placed, r)
  PROVE  /\ SizesSynced(r) /\ Solid(r) = Solid(img)
         /\ \A i \in Solid(img) : r.shdrs[i].size = SectionLen(img, i)
<1>1. /\ IsImage(img) /\ IsImage(placed) /\ IsImage(r) /\ r.shdrs = placed.shdrs
      /\ Len(placed.shdrs) = Len(img.shdrs) /\ placed.data = img.data
      /\ Len(r.dynamic) = Len(img.dynamic)
  BY DEF Edited, Arranged, FixedUp
<1>2. /\ DOMAIN img.shdrs = 1 .. Len(img.shdrs) /\ DOMAIN placed.shdrs = DOMAIN img.shdrs
      /\ Len(img.shdrs) \in Nat /\ Len(img.dynamic) \in Nat
      /\ \A i \in DOMAIN img.shdrs : placed.shdrs[i].type = img.shdrs[i].type
  BY <1>1, ImageDomains DEF Arranged
<1>3. DynIdx(placed) = DynIdx(img)
  <2>1. Len(img.shdrs) <= Len(placed.shdrs) /\ DOMAIN placed.shdrs \ DOMAIN img.shdrs = {}
    BY <1>1, <1>2
  <2> QED
    BY <1>1, <1>2, <2>1, DynIdxSame
<1>4. Solid(r) = Solid(img)
  BY <1>1, <1>2 DEF Solid
<1>5. ASSUME NEW i \in DOMAIN img.shdrs, img.shdrs[i].type # "NOBITS"
      PROVE  r.shdrs[i].size = SectionLen(img, i) /\ Len(r.data[i]) = SectionLen(img, i)
  <2>1. /\ SectionLen(img, i) \in Nat /\ img.shdrs[i].size \in Nat
        /\ i # DynIdx(img) => SectionLen(img, i) = Len(img.data[i])
        /\ i = DynIdx(img) => SectionLen(img, i) = Max({Len(img.dynamic), img.shdrs[i].size})
        /\ img.data[i] = <<>> => SectionLen(img, i) = 0 /\ img.shdrs[i].size = 0
    <3>1. SectionLen(img, i) \in Nat /\ img.shdrs[i].size \in Nat
      BY <1>5, EditedSection
    <3>2. i # DynIdx(img) => SectionLen(img, i) = Len(img.data[i])
      BY <1>5, EditedSection, ZenonT(30)
    <3>3. i = DynIdx(img) => SectionLen(img, i) = Max({Len(img.dynamic), img.shdrs[i].size})
      BY <1>5, EditedSection
    <3>4. img.data[i] = <<>> => SectionLen(img, i) = 0 /\ img.shdrs[i].size = 0
      BY <1>5, EditedSection, ZenonT(30)
    <3> QED
      BY <3>1, <3>2, <3>3, <3>4
  <2>2. placed.shdrs[i].size = SectionLen(img, i)
    <3>1. CASE i \in relocate
      BY <3>1 DEF Arranged
    <3>2. CASE i \notin relocate
      <4>1. placed.shdrs[i].size = img.shdrs[i].size
        BY <3>2 DEF Arranged
      <4>2. img.data[i] # <<>> => i \notin Grown(img)
        BY <1>5, <3>2 DEF ToPlace
      <4>3. i \notin Grown(img) => SectionLen(img, i) = img.shdrs[i].size
        BY <1>5 DEF Grown
      <4> QED
        BY <2>1, <4>1, <4>2, <4>3
    <3> QED
      BY <3>1, <3>2
  <2>3. CASE i # DynIdx(img)
    <3>1. r.data[i] = img.data[i]
      BY <1>1, <1>2, <1>3, <2>3 DEF FixedUp
    <3> QED
      BY <1>1, <2>1, <2>2, <2>3, <3>1
  <2>4. CASE i = DynIdx(img)
    <3>1. DynIdx(placed) # 0 /\ i = DynIdx(placed)
      BY <1>2, <1>3, <2>4
    <3>2. Len(r.data[i]) = Max({Len(r.dynamic), placed.shdrs[i].size})
      BY <3>1 DEF FixedUp
    <3>3. Len(r.data[i]) = Max({Len(img.dynamic), SectionLen(img, i)})
      BY <1>1, <2>2, <3>2
    <3>4. Len(img.dynamic) <= SectionLen(img, i)
      <4>1. \A a, b \in Nat : a <= Max({a, b})
        BY LongerOf
      <4> QED
        BY <1>2, <2>1, <2>4, <4>1
    <3>5. Max({Len(img.dynamic), SectionLen(img, i)}) = SectionLen(img, i)
      BY <1>2, <2>1, <3>4, LongerOf
    <3> QED
      BY <1>1, <2>2, <3>3, <3>5
  <2> QED
    BY <2>3, <2>4
<1>6. SizesSynced(r)
  BY <1>1, <1>2, <1>5 DEF SizesSynced
<1>7. \A i \in Solid(img) : r.shdrs[i].size = SectionLen(img, i)
  BY <1>5 DEF Solid
<1> QED
  BY <1>4, <1>6, <1>7

(* The segments of a layout are those of the image, moved, and new ones.   *)
Raise(q, shift) == [q EXCEPT !.offset = q.offset + shift]
(* Every segment is one the layout made, or one of the image, raised.      *)
SegmentsFrom(placed, img, shift, new) ==
  \A p \in Range(placed.phdrs) :
    \/ p.type = "LOAD" /\ p.offset \in new
    \/ \E q \in Range(img.phdrs) : p = Raise(q, shift)

(* Where there are no sections, the dynamic segment stays readable.        *)
Readably(placed, q, shift) ==
  LET p == Raise(q, shift)
      pht == placed.ehdr.phoff
  IN \/ End(p) <= pht
     \/ /\ pht + Len(placed.phdrs) <= p.offset
        /\ \A l \in Range(placed.phdrs) : IsLoad(l) => l.offset # pht

(* A layout whose segments come from the image follows the edited image.   *)
LEMMA FollowsFrom ==
  ASSUME NEW f, Coherent(f), NEW img, Edited(img, f), NEW shift \in Nat, NEW relocate, NEW new,
         NEW placed, Arranged(placed, img, relocate), SegmentsFrom(placed, img, shift, new),
         img.shdrs = <<>> => \A q \in Dynamics(img.phdrs) : Readably(placed, q, shift),
         NEW r, FixedUp(placed, r)
  PROVE  Follows(r, img, f, shift)
<1>1. /\ IsImage(img) /\ IsImage(placed) /\ IsImage(r) /\ r.shdrs = placed.shdrs
      /\ r.ehdr = placed.ehdr
      /\ Len(placed.shdrs) = Len(img.shdrs) /\ placed.dynamic = img.dynamic
      /\ r.ehdr.shstrndx = img.ehdr.shstrndx
      /\ \A i \in DOMAIN img.shdrs : r.shdrs[i].type = img.shdrs[i].type
  BY DEF Edited, Arranged, FixedUp
<1>2. DynIdx(r) = DynIdx(placed)
  BY <1>1 DEF DynIdx
<1>3. DynIdx(r) # 0 =>
        LET n == Max({Len(r.dynamic), r.shdrs[DynIdx(r)].size})
        IN r.data[DynIdx(r)] = Encoded(r.dynamic, n) /\ Len(r.data[DynIdx(r)]) = n
  BY <1>1, <1>2 DEF FixedUp
<1>4. \A q : Raise(q, shift).type = q.type \/ q \notin PhdrCell
  BY DEF Raise, PhdrCell
<1>5. \A q \in Range(img.phdrs) : q \in PhdrCell
  BY <1>1, ImageDomains DEF Range
<1>6. \A p \in Range(placed.phdrs) : p.type = "DYNAMIC" =>
        \E q \in Dynamics(img.phdrs) : p = Raise(q, shift)
  <2> SUFFICES ASSUME NEW p \in Range(placed.phdrs), p.type = "DYNAMIC"
               PROVE  \E q \in Dynamics(img.phdrs) : p = Raise(q, shift)
    OBVIOUS
  <2>1. PICK q \in Range(img.phdrs) : p = Raise(q, shift)
    BY DEF SegmentsFrom
  <2>2. q.type = "DYNAMIC"
    BY <1>4, <1>5, <2>1
  <2> QED
    BY <2>1, <2>2 DEF Dynamics
<1>7. Dynamics(r.phdrs) # {} => Dynamics(img.phdrs) # {}
  <2> SUFFICES ASSUME NEW p \in Dynamics(r.phdrs) PROVE Dynamics(img.phdrs) # {}
    OBVIOUS
  <2>1. PICK i \in DOMAIN r.phdrs : p = r.phdrs[i] /\ p.type = "DYNAMIC"
    BY DEF Dynamics, Range
  <2>2. placed.phdrs[i] \in Range(placed.phdrs) /\ placed.phdrs[i].type = "DYNAMIC"
    BY <2>1 DEF FixedUp, Range
  <2> QED
    BY <1>6, <2>2
<1>8. ASSUME img.shdrs = <<>> PROVE placed.shdrs = <<>>
  <2>1. IsList(img.shdrs) /\ IsList(placed.shdrs) /\ Len(img.shdrs) \in Nat
    BY <1>1, ImageDomains, SeqList DEF IsImage
  <2>2. Len(placed.shdrs) = 0
    BY <1>1, <1>8, <2>1, NotEmpty
  <2> QED
    BY <2>1, <2>2, NotEmpty
<1>9. ASSUME img.shdrs = <<>> PROVE Addressed(img.dynamic) \subseteq Range(r.dynamic)
  BY <1>1, <1>8, <1>9 DEF FixedUp
<1>10. ASSUME img.shdrs = <<>>, NEW p \in Range(r.phdrs), p.type # "PHDR"
       PROVE  p \in Range(placed.phdrs)
  <2>1. PICK i \in DOMAIN r.phdrs : p = r.phdrs[i]
    BY DEF Range
  <2>2. i \in DOMAIN placed.phdrs /\ placed.phdrs[i].type # "PHDR"
    BY <1>10, <2>1 DEF FixedUp
  <2>3. r.phdrs[i] = placed.phdrs[i]
    BY <1>8, <1>10, <2>2 DEF FixedUp
  <2> QED
    BY <2>1, <2>2, <2>3 DEF Range
<1>11. ASSUME img.shdrs = <<>>, NEW p \in Dynamics(r.phdrs)
       PROVE  \E q \in Dynamics(img.phdrs) :
                /\ p = [q EXCEPT !.offset = q.offset + shift]
                /\ End(p) <= r.ehdr.phoff \/ r.ehdr.phoff + Len(r.phdrs) <= p.offset
                /\ PriorRegion(r) # 0 => End(p) <= r.ehdr.phoff
  <2>1. p \in Range(r.phdrs) /\ p.type = "DYNAMIC"
    BY <1>11 DEF Dynamics
  <2>2. p \in Range(placed.phdrs)
    BY <1>10, <1>11, <2>1
  <2>3. PICK q \in Dynamics(img.phdrs) : p = Raise(q, shift)
    BY <1>6, <2>1, <2>2
  <2>4. Readably(placed, q, shift)
    BY <1>11
  <2>5. p = [q EXCEPT !.offset = q.offset + shift]
    BY <2>3 DEF Raise
  <2>6. Len(r.phdrs) = Len(placed.phdrs) /\ r.ehdr.phoff = placed.ehdr.phoff
    BY <1>1 DEF FixedUp
  <2>7. \/ End(p) <= r.ehdr.phoff
        \/ /\ r.ehdr.phoff + Len(r.phdrs) <= p.offset
           /\ \A l \in Range(placed.phdrs) : IsLoad(l) => l.offset # r.ehdr.phoff
    BY <2>3, <2>4, <2>6 DEF Readably
  <2>8. ASSUME \A l \in Range(placed.phdrs) : IsLoad(l) => l.offset # r.ehdr.phoff
        PROVE  PriorRegion(r) = 0
    <3> SUFFICES ASSUME PriorRegion(r) # 0 PROVE FALSE
      OBVIOUS
    <3> DEFINE l == r.phdrs[PriorRegion(r)]
    <3>1. l \in Range(r.phdrs) /\ IsLoad(l) /\ l.offset = r.ehdr.phoff
      BY <1>1, RegionFound DEF Range
    <3>2. l.type # "PHDR"
      BY <3>1 DEF IsLoad
    <3> QED
      BY <1>10, <1>11, <2>8, <3>1, <3>2
  <2> QED
    BY <2>5, <2>7, <2>8
<1> QED
  BY <1>1, <1>3, <1>7, <1>9, <1>11 DEF Follows

-----------------------------------------------------------------------------
(* What both layouts start from: an edited image without the prior         *)
(* region's segment, and the sections to place.                            *)
Starting(set, f) ==
  /\ Edited(set.img, f)
  /\ set.relocate = ToPlace(set.img, Grown(set.img), set.start)
  /\ set.start = None \/ (set.start = f[1].phoff /\ PriorRegion(Parse(f)) # 0)

(* Dropping the old region's segment does not disturb the edits.           *)
LEMMA FewerEdited ==
  ASSUME NEW f, Coherent(f), NEW img, Edited(img, f), NEW r, Fewer(img, r)
  PROVE  /\ Edited(r, f) /\ Grown(r) = Grown(img)
         /\ \A g, start : ToPlace(r, g, start) = ToPlace(img, g, start)
<1>1. /\ IsImage(r) /\ r.ehdr = img.ehdr /\ r.shdrs = img.shdrs /\ r.data = img.data
      /\ r.dynamic = img.dynamic /\ r.err = img.err /\ Range(r.phdrs) \subseteq Range(img.phdrs)
  BY DEF Fewer
<1>2. DynIdx(r) = DynIdx(img)
  BY <1>1 DEF DynIdx
<1>3. \A i : SectionLen(r, i) = SectionLen(img, i)
  BY <1>1, <1>2 DEF SectionLen
<1>4. Grown(r) = Grown(img)
  BY <1>1, <1>3 DEF Grown
<1>5. \A g, start : ToPlace(r, g, start) = ToPlace(img, g, start)
  BY <1>1 DEF ToPlace
<1>6. Mapped(r.phdrs) \subseteq Range(Phdrs(f))
  BY <1>1 DEF Mapped, Edited
<1>7. \A i \in DOMAIN r.shdrs : SectionOf(r, f, i)
  BY <1>1 DEF Edited, SectionOf
<1>8. Edited(r, f)
  BY <1>1, <1>2, <1>6, <1>7 DEF Edited
<1> QED
  BY <1>4, <1>5, <1>8

(* What both layouts start from.                                           *)
LEMMA Started ==
  ASSUME NEW f, Coherent(f), NEW img, Edited(img, f), NEW reclaim \in BOOLEAN
  PROVE  Starting(RelocationSet(img, Grown(img), reclaim), f)
<1> DEFINE set == RelocationSet(img, Grown(img), reclaim)
           old == Parse(f)
<1>1. IsImage(img) /\ img.ehdr.phoff = f[1].phoff
  BY DEF Edited
<1>2. Reclaimed(set, img, reclaim)
  BY <1>1, RelocationSets
<1> HIDE DEF set
<1>3. /\ Edited(set.img, f) /\ Grown(set.img) = Grown(img)
      /\ \A g, start : ToPlace(set.img, g, start) = ToPlace(img, g, start)
  BY <1>2, FewerEdited DEF Reclaimed
<1>4. PriorRegion(img) # 0 => PriorRegion(old) # 0
  <2> SUFFICES ASSUME PriorRegion(img) # 0 PROVE PriorRegion(old) # 0
    OBVIOUS
  <2> DEFINE q == img.phdrs[PriorRegion(img)]
  <2>1. q \in Range(img.phdrs) /\ IsLoad(q) /\ q.offset = f[1].phoff
    BY <1>1, RegionFound DEF Range
  <2>2. q \in Range(Phdrs(f))
    BY <2>1 DEF Edited, Mapped, IsLoad
  <2>3. IsImage(old) /\ old.phdrs = Phdrs(f) /\ old.ehdr = f[1]
    BY ParseEdited DEF Edited, Parse
  <2> HIDE DEF old
  <2> QED
    BY <2>1, <2>2, <2>3, RegionFound
<1>5. Starting(set, f)
  BY <1>1, <1>2, <1>3, <1>4 DEF Starting, Reclaimed
<1> QED
  BY <1>5 DEF set

(* A section that has not grown is where it was, as long as it was.        *)
LEMMA KeptSection ==
  ASSUME NEW f, Coherent(f), NEW e, Edited(e, f), NEW i \in DOMAIN e.shdrs,
         e.shdrs[i].type # "NOBITS", SectionLen(e, i) # 0
  PROVE  /\ SectionLen(e, i) \in Nat /\ e.shdrs[i].size \in Nat /\ e.shdrs[i].offset \in Nat
         /\ e.data[i] # <<>>
         /\ i \notin Grown(e) =>
              /\ i \in Solid(Parse(f)) /\ i \in DOMAIN Shdrs(f)
              /\ e.shdrs[i].offset = Shdrs(f)[i].offset
              /\ e.shdrs[i].size = Shdrs(f)[i].size
              /\ SectionLen(e, i) = e.shdrs[i].size
<1>1. SectionLen(e, i) \in Nat
  BY EditedSection
<1>2. e.shdrs[i].size \in Nat
  BY EditedSection
<1>3. e.shdrs[i].offset \in Nat
  BY EditedSection
<1>4. e.data[i] # <<>>
  BY EditedSection
<1>5. SectionLen(e, i) > 0
  BY <1>1
<1>6. ASSUME i \notin Grown(e)
      PROVE  /\ i \in Solid(Parse(f)) /\ i \in DOMAIN Shdrs(f)
             /\ e.shdrs[i].offset = Shdrs(f)[i].offset
             /\ e.shdrs[i].size = Shdrs(f)[i].size
             /\ SectionLen(e, i) = e.shdrs[i].size
  <2>1. i \in Solid(Parse(f)) /\ i \in DOMAIN Shdrs(f)
    BY <1>5, <1>6, EditedSection, ZenonT(30)
  <2>2. e.shdrs[i].offset = Shdrs(f)[i].offset
    BY <1>5, <1>6, EditedSection, ZenonT(30)
  <2>3. e.shdrs[i].size = Shdrs(f)[i].size
    BY <1>5, <1>6, EditedSection, ZenonT(30)
  <2>4. SectionLen(e, i) = e.shdrs[i].size
    BY <1>5, <1>6, EditedSection, ZenonT(30)
  <2> QED
    BY <2>1, <2>2, <2>3, <2>4
<1> QED
  BY <1>1, <1>2, <1>3, <1>4, <1>6

(* What is not placed afresh.                                              *)
LEMMA Unplaced ==
  ASSUME NEW f, Coherent(f), NEW set, Starting(set, f), NEW i \in Solid(set.img),
         i \notin set.relocate, SectionLen(set.img, i) # 0
  PROVE  LET s == set.img.shdrs[i]
         IN /\ i \in Solid(Parse(f)) /\ i \in DOMAIN Shdrs(f)
            /\ s.offset = Shdrs(f)[i].offset /\ s.size = Shdrs(f)[i].size
            /\ s.offset \in Nat /\ s.size \in Nat /\ s.offset >= 1 /\ s.size >= 1
            /\ SectionLen(set.img, i) = s.size
            /\ s.offset + s.size <= Len(f)
            /\ set.start # None => s.offset + s.size <= f[1].phoff
<1> DEFINE e == set.img
           s == e.shdrs[i]
           old == Parse(f)
<1>1. Edited(e, f) /\ i \in DOMAIN e.shdrs /\ s.type # "NOBITS"
  BY DEF Starting, Solid
<1>2. SectionLen(e, i) \in Nat /\ s.size \in Nat /\ s.offset \in Nat /\ e.data[i] # <<>>
  BY <1>1, KeptSection
<1>3. e.data[i] # <<>>
  BY <1>2
<1>4. i \notin Grown(e) /\ ~(set.start # None /\ s.offset >= set.start)
  BY <1>1, <1>3 DEF Starting, ToPlace
<1>5. SectionLen(e, i) > 0
  BY <1>2
<1>6. /\ i \in Solid(old) /\ i \in DOMAIN Shdrs(f)
      /\ s.offset = Shdrs(f)[i].offset /\ s.size = Shdrs(f)[i].size
      /\ SectionLen(e, i) = s.size
  BY <1>1, <1>4, KeptSection
<1> HIDE DEF e, s
<1>7. /\ f[1].phoff \in Nat /\ f[1].phnum \in Nat /\ f[1].phnum >= 1
      /\ Shdrs(f)[i].type # "NOBITS"
      /\ Shdrs(f)[i].offset + Shdrs(f)[i].size <= Len(f)
      /\ Clear(0, 1, Shdrs(f)[i].offset, Shdrs(f)[i].size)
      /\ Clear(f[1].phoff, f[1].phnum, Shdrs(f)[i].offset, Shdrs(f)[i].size)
  <2>1. /\ old.ehdr = f[1] /\ old.shdrs = Shdrs(f) /\ old.phdrs = Phdrs(f)
        /\ Len(Phdrs(f)) = f[1].phnum /\ Tidy(old)
        /\ f[1].phoff \in Nat /\ f[1].phnum \in Nat /\ f[1].phnum >= 1
    BY OldParts DEF Parse
  <2> HIDE DEF old
  <2>2. Shdrs(f)[i].type # "NOBITS"
    BY <1>6, <2>1 DEF Solid
  <2>3. Shdrs(f)[i].offset + Shdrs(f)[i].size <= Len(f)
    BY <1>6, <2>2, OldParts
  <2> QED
    BY <1>6, <2>1, <2>2, <2>3 DEF Tidy
<1>8. s.offset >= 1 /\ s.size >= 1
  BY <1>2, <1>5, <1>6, <1>7 DEF Clear
<1>9. set.start # None => s.offset + s.size <= f[1].phoff
  <2> SUFFICES ASSUME set.start # None PROVE s.offset + s.size <= f[1].phoff
    OBVIOUS
  <2>1. set.start = f[1].phoff
    BY DEF Starting
  <2>2. ~(s.offset >= f[1].phoff)
    BY <1>4, <2>1
  <2> QED
    BY <1>2, <1>6, <1>7, <1>8, <2>2 DEF Clear
<1> QED
  BY <1>2, <1>6, <1>7, <1>8, <1>9 DEF e, s

-----------------------------------------------------------------------------
(* A region of headers and sections beside the sections that stay.         *)
Beside(r, relocate, a, b, lo, hi) ==
  /\ \A i \in Solid(r) :
       /\ i \in relocate => r.shdrs[i].offset >= a /\ r.shdrs[i].offset + r.shdrs[i].size <= b
       /\ (i \notin relocate /\ r.shdrs[i].size # 0) =>
            r.shdrs[i].offset >= lo /\ r.shdrs[i].offset + r.shdrs[i].size <= hi
  /\ \A i, j \in Solid(r) :
       (i # j /\ (i \in relocate <=> j \in relocate)) =>
         Clear(r.shdrs[i].offset, r.shdrs[i].size, r.shdrs[j].offset, r.shdrs[j].size)

(* The header tables clear of the region's body and of what stays in       *)
(* place.                                                                  *)
TablesBeside(r, a, b, lo, hi) ==
  LET pht == r.ehdr.phoff + Len(r.phdrs)
      sht == r.ehdr.shoff + Len(r.shdrs)
  IN /\ r.ehdr.phoff >= 1 /\ pht <= a /\ (hi <= r.ehdr.phoff \/ pht <= lo)
     /\ r.ehdr.shoff >= pht
     /\ \/ sht <= a /\ (hi <= r.ehdr.shoff \/ sht <= lo)
        \/ r.ehdr.shoff >= b /\ r.ehdr.shoff >= hi

(* Tables and sections beside each other have no cell in common.           *)
LEMMA TidyRegion ==
  ASSUME NEW r, IsImage(r), NEW relocate, NEW a \in Nat, NEW b \in Nat, NEW lo \in Nat, NEW hi \in Nat,
         a >= 1, lo >= 1, b <= lo \/ hi <= a,
         Beside(r, relocate, a, b, lo, hi), TablesBeside(r, a, b, lo, hi)
  PROVE  Tidy(r)
<1>1. /\ r.ehdr.phoff \in Nat /\ r.ehdr.shoff \in Nat /\ Len(r.phdrs) \in Nat /\ Len(r.shdrs) \in Nat
      /\ \A i \in Solid(r) : r.shdrs[i].offset \in Nat /\ r.shdrs[i].size \in Nat
  <2>1. r.ehdr.phoff \in Nat /\ r.ehdr.shoff \in Nat
    BY DEF IsImage, EhdrCell
  <2>2. \A i \in Solid(r) : r.shdrs[i].offset \in Nat /\ r.shdrs[i].size \in Nat
    BY ImageDomains DEF Solid, ShdrCell
  <2> QED
    BY <2>1, <2>2, ImageDomains
<1>2. /\ Clear(0, 1, r.ehdr.phoff, Len(r.phdrs)) /\ Clear(0, 1, r.ehdr.shoff, Len(r.shdrs))
      /\ Clear(r.ehdr.phoff, Len(r.phdrs), r.ehdr.shoff, Len(r.shdrs))
  BY <1>1 DEF TablesBeside, Clear
<1>3. ASSUME NEW i \in Solid(r)
      PROVE  LET s == r.shdrs[i]
             IN /\ Clear(0, 1, s.offset, s.size)
                /\ Clear(r.ehdr.phoff, Len(r.phdrs), s.offset, s.size)
                /\ Clear(r.ehdr.shoff, Len(r.shdrs), s.offset, s.size)
  <2> DEFINE o == r.shdrs[i].offset
             n == r.shdrs[i].size
             po == r.ehdr.phoff
             pn == Len(r.phdrs)
             so == r.ehdr.shoff
             sn == Len(r.shdrs)
  <2>1. o \in Nat /\ n \in Nat /\ po \in Nat /\ pn \in Nat /\ so \in Nat /\ sn \in Nat
    BY <1>1
  <2>2. (o >= a /\ o + n <= b) \/ n = 0 \/ (o >= lo /\ o + n <= hi)
    BY DEF Beside
  <2>3. /\ po >= 1 /\ po + pn <= a /\ (hi <= po \/ po + pn <= lo) /\ so >= po + pn
        /\ \/ so + sn <= a /\ (hi <= so \/ so + sn <= lo)
           \/ so >= b /\ so >= hi
    BY DEF TablesBeside
  <2> HIDE DEF o, n, po, pn, so, sn
  <2>4. Clear(0, 1, o, n) /\ Clear(po, pn, o, n) /\ Clear(so, sn, o, n)
    BY <2>1, <2>2, <2>3 DEF Clear
  <2> QED
    BY <2>4 DEF o, n, po, pn, so, sn
<1>4. ASSUME NEW i \in Solid(r), NEW j \in Solid(r), i # j
      PROVE  Clear(r.shdrs[i].offset, r.shdrs[i].size, r.shdrs[j].offset, r.shdrs[j].size)
  <2> DEFINE o == r.shdrs[i].offset
             n == r.shdrs[i].size
             p == r.shdrs[j].offset
             m == r.shdrs[j].size
  <2>1. o \in Nat /\ n \in Nat /\ p \in Nat /\ m \in Nat
    BY <1>1
  <2>2. CASE i \in relocate <=> j \in relocate
    BY <1>4, <2>2 DEF Beside
  <2>3. CASE i \in relocate /\ j \notin relocate
    <3>1. o >= a /\ o + n <= b /\ (m = 0 \/ (p >= lo /\ p + m <= hi))
      BY <2>3 DEF Beside
    <3> HIDE DEF o, n, p, m
    <3>2. Clear(o, n, p, m)
      BY <2>1, <3>1 DEF Clear
    <3> QED
      BY <3>2 DEF o, n, p, m
  <2>4. CASE i \notin relocate /\ j \in relocate
    <3>1. p >= a /\ p + m <= b /\ (n = 0 \/ (o >= lo /\ o + n <= hi))
      BY <2>4 DEF Beside
    <3> HIDE DEF o, n, p, m
    <3>2. Clear(o, n, p, m)
      BY <2>1, <3>1 DEF Clear
    <3> QED
      BY <3>2 DEF o, n, p, m
  <2> QED
    BY <2>2, <2>3, <2>4
<1> QED
  BY <1>2, <1>3, <1>4 DEF Tidy

(* The sections to place are sections with cells.                          *)
LEMMA Relocating ==
  ASSUME NEW f, Coherent(f), NEW set, Starting(set, f)
  PROVE  /\ IsImage(set.img) /\ set.relocate \subseteq DOMAIN set.img.shdrs
         /\ set.relocate \subseteq Solid(set.img)
         /\ \A i \in set.relocate : SectionLen(set.img, i) \in Nat
<1>1. Edited(set.img, f) /\ IsImage(set.img)
  BY DEF Starting, Edited
<1>2. set.relocate \subseteq Solid(set.img) /\ set.relocate \subseteq DOMAIN set.img.shdrs
  BY DEF Starting, ToPlace, Solid
<1>3. \A i \in set.relocate : SectionLen(set.img, i) \in Nat
  <2> SUFFICES ASSUME NEW i \in set.relocate PROVE SectionLen(set.img, i) \in Nat
    OBVIOUS
  <2>1. i \in DOMAIN set.img.shdrs /\ set.img.shdrs[i].type # "NOBITS"
    BY <1>2 DEF Solid
  <2> QED
    BY <1>1, <2>1, EditedSection
<1> QED
  BY <1>1, <1>2, <1>3

(* Where the sections of a layout are.                                     *)
Settled(r, set, region, off, shift) ==
  /\ Solid(r) = Solid(set.img)
  /\ \A i \in Solid(set.img) :
       /\ r.shdrs[i].size = SectionLen(set.img, i)
       /\ i \in set.relocate => r.shdrs[i].offset = off + region.at[i]
       /\ i \notin set.relocate => r.shdrs[i].offset = set.img.shdrs[i].offset + shift

(* Moved sections inside the region, the others where they were: clear of  *)
(* each other.                                                             *)
LEMMA SectionsBeside ==
  ASSUME NEW f, Coherent(f), NEW set, Starting(set, f), NEW region, NEW headSize \in [1 .. 2 -> Nat],
         Region(region, set.img, set.relocate, headSize), NEW off \in Nat, NEW shift \in Nat,
         NEW r, Settled(r, set, region, off, shift), NEW hi \in Nat,
         hi >= shift + (IF set.start = None THEN Len(f) ELSE f[1].phoff)
  PROVE  Beside(r, set.relocate, off + headSize[region.loads], off + region.len, shift + 1, hi)
<1> DEFINE e == set.img
           h == headSize[region.loads]
<1>1. h \in Nat /\ region.len \in Nat
  BY DEF Region
<1>2. \A i \in set.relocate : SectionLen(e, i) \in Nat
  BY Relocating
<1>3. Len(f) \in Nat /\ f[1].phoff \in Nat
  BY OldParts
<1>4. ASSUME NEW i \in Solid(r), i \in set.relocate
      PROVE  /\ r.shdrs[i].offset >= off + h
             /\ r.shdrs[i].offset + r.shdrs[i].size <= off + region.len
  <2>1. r.shdrs[i].offset = off + region.at[i] /\ r.shdrs[i].size = SectionLen(e, i)
    BY <1>4 DEF Settled
  <2>2. region.at[i] \in Nat /\ h <= region.at[i] /\ region.at[i] + SectionLen(e, i) <= region.len
    BY <1>4 DEF Region
  <2>3. SectionLen(e, i) \in Nat
    BY <1>2, <1>4
  <2>4. \A at, l, m, k, x, n : (at \in Nat /\ l \in Nat /\ m \in Nat /\ k \in Nat /\ k <= at
                               /\ at + l <= m /\ x = off + at /\ n = l)
                              => x >= off + k /\ x + n <= off + m
    OBVIOUS
  <2> HIDE DEF h, e
  <2> QED
    <3>1. r.shdrs[i].offset >= off + h
      BY <1>1, <2>1, <2>2, <2>3
    <3>2. \A at, l, m \in Nat : at + l <= m => off + at + l <= off + m
      OBVIOUS
    <3>3. off + region.at[i] + SectionLen(e, i) <= off + region.len
      BY <1>1, <2>2, <2>3, <3>2 DEF e
    <3>4. r.shdrs[i].offset + r.shdrs[i].size <= off + region.len
      BY <2>1, <3>3
    <3> QED
      BY <3>1, <3>4
<1>5. ASSUME NEW i \in Solid(r), i \notin set.relocate, r.shdrs[i].size # 0
      PROVE  /\ i \in Solid(Parse(f)) /\ i \in DOMAIN Shdrs(f)
             /\ Shdrs(f)[i].offset \in Nat /\ Shdrs(f)[i].size \in Nat
             /\ r.shdrs[i].offset = Shdrs(f)[i].offset + shift /\ r.shdrs[i].size = Shdrs(f)[i].size
             /\ Shdrs(f)[i].offset >= 1
             /\ Shdrs(f)[i].offset + Shdrs(f)[i].size + shift <= hi
  <2>1. i \in Solid(e) /\ r.shdrs[i].size = SectionLen(e, i) /\ SectionLen(e, i) # 0
        /\ r.shdrs[i].offset = e.shdrs[i].offset + shift
    BY <1>5 DEF Settled
  <2>2. LET s == set.img.shdrs[i]
        IN /\ i \in Solid(Parse(f)) /\ i \in DOMAIN Shdrs(f)
           /\ s.offset = Shdrs(f)[i].offset /\ s.size = Shdrs(f)[i].size
           /\ s.offset \in Nat /\ s.size \in Nat /\ s.offset >= 1 /\ s.size >= 1
           /\ SectionLen(set.img, i) = s.size
           /\ s.offset + s.size <= Len(f)
           /\ set.start # None => s.offset + s.size <= f[1].phoff
    BY <1>5, <2>1, Unplaced
  <2>3. /\ r.shdrs[i].offset = Shdrs(f)[i].offset + shift /\ r.shdrs[i].size = Shdrs(f)[i].size
        /\ Shdrs(f)[i].offset \in Nat /\ Shdrs(f)[i].size \in Nat /\ Shdrs(f)[i].offset >= 1
    BY <2>1, <2>2
  <2>4. Shdrs(f)[i].offset + Shdrs(f)[i].size
          <= (IF set.start = None THEN Len(f) ELSE f[1].phoff)
    BY <2>2
  <2>5. \A x, y, z \in Nat : hi >= shift + z => (x + y <= z => x + y + shift <= hi)
    OBVIOUS
  <2>6. Shdrs(f)[i].offset + Shdrs(f)[i].size + shift <= hi
    BY <1>3, <2>3, <2>4, <2>5
  <2> QED
    BY <2>2, <2>3, <2>6
<1>6. ASSUME NEW i \in Solid(r), NEW j \in Solid(r), i # j, i \in set.relocate, j \in set.relocate
      PROVE  Clear(r.shdrs[i].offset, r.shdrs[i].size, r.shdrs[j].offset, r.shdrs[j].size)
  <2>1. /\ r.shdrs[i].offset = off + region.at[i] /\ r.shdrs[i].size = SectionLen(e, i)
        /\ r.shdrs[j].offset = off + region.at[j] /\ r.shdrs[j].size = SectionLen(e, j)
    BY <1>6 DEF Settled
  <2>2. /\ region.at[i] \in Nat /\ region.at[j] \in Nat
        /\ \/ region.at[i] + SectionLen(e, i) <= region.at[j]
           \/ region.at[j] + SectionLen(e, j) <= region.at[i]
    BY <1>6 DEF Region
  <2>3. SectionLen(e, i) \in Nat /\ SectionLen(e, j) \in Nat
    BY <1>2, <1>6
  <2>4. \A x, y, m, n, o, p : (x \in Nat /\ y \in Nat /\ m \in Nat /\ n \in Nat
                               /\ (x + m <= y \/ y + n <= x) /\ o = off + x /\ p = off + y)
                              => Clear(o, m, p, n)
    BY DEF Clear
  <2> HIDE DEF e
  <2> QED
    BY <2>1, <2>2, <2>3, <2>4
<1>7. ASSUME NEW i \in Solid(r), NEW j \in Solid(r), i # j, i \notin set.relocate, j \notin set.relocate
      PROVE  Clear(r.shdrs[i].offset, r.shdrs[i].size, r.shdrs[j].offset, r.shdrs[j].size)
  <2>1. CASE r.shdrs[i].size = 0 \/ r.shdrs[j].size = 0
    BY <2>1 DEF Clear
  <2>2. CASE r.shdrs[i].size # 0 /\ r.shdrs[j].size # 0
    <3>1. /\ i \in Solid(Parse(f)) /\ Shdrs(f)[i].offset \in Nat /\ Shdrs(f)[i].size \in Nat
          /\ r.shdrs[i].offset = Shdrs(f)[i].offset + shift /\ r.shdrs[i].size = Shdrs(f)[i].size
      BY <1>5, <1>7, <2>2
    <3>2. /\ j \in Solid(Parse(f)) /\ Shdrs(f)[j].offset \in Nat /\ Shdrs(f)[j].size \in Nat
          /\ r.shdrs[j].offset = Shdrs(f)[j].offset + shift /\ r.shdrs[j].size = Shdrs(f)[j].size
      BY <1>5, <1>7, <2>2
    <3>3. Clear(Shdrs(f)[i].offset, Shdrs(f)[i].size, Shdrs(f)[j].offset, Shdrs(f)[j].size)
      <4>1. Tidy(Parse(f)) /\ Parse(f).shdrs = Shdrs(f)
        BY OldParts DEF Parse
      <4> QED
        BY <1>7, <3>1, <3>2, <4>1 DEF Tidy
    <3>4. \A x, y, m, n, o, p : (x \in Nat /\ y \in Nat /\ m \in Nat /\ n \in Nat
                                 /\ Clear(x, m, y, n) /\ o = x + shift /\ p = y + shift)
                                => Clear(o, m, p, n)
      BY DEF Clear
    <3> QED
      BY <3>1, <3>2, <3>3, <3>4
  <2> QED
    BY <2>1, <2>2
<1>8. \A i \in Solid(r) :
        /\ i \in set.relocate =>
             r.shdrs[i].offset >= off + h /\ r.shdrs[i].offset + r.shdrs[i].size <= off + region.len
        /\ (i \notin set.relocate /\ r.shdrs[i].size # 0) =>
             r.shdrs[i].offset >= shift + 1 /\ r.shdrs[i].offset + r.shdrs[i].size <= hi
  <2>1. ASSUME NEW i \in Solid(r), i \notin set.relocate, r.shdrs[i].size # 0
        PROVE  r.shdrs[i].offset >= shift + 1 /\ r.shdrs[i].offset + r.shdrs[i].size <= hi
    BY <1>5, <2>1
  <2> QED
    BY <1>4, <2>1
<1>9. \A i, j \in Solid(r) :
        (i # j /\ (i \in set.relocate <=> j \in set.relocate)) =>
          Clear(r.shdrs[i].offset, r.shdrs[i].size, r.shdrs[j].offset, r.shdrs[j].size)
  BY <1>6, <1>7
<1> QED
  BY <1>8, <1>9 DEF Beside

-----------------------------------------------------------------------------
(* The sections of a layout leave alone what no part of the file owns: the *)
(* region does not reach it, and the others have moved as far as it has.   *)
LEMMA SectionsSkirt ==
  ASSUME NEW f, Coherent(f), NEW set, Starting(set, f), NEW region, NEW off \in Nat, NEW shift \in Nat,
         NEW r, IsImage(r), Settled(r, set, region, off, shift),
         NEW from \in Nat, NEW to \in Nat, NEW lo, NEW hi,
         Beside(r, set.relocate, from, to, lo, hi),
         NEW x \in Nat, NEW n \in Nat, Idle(f, x, n),
         x + shift + n <= from \/ to <= x + shift, NEW i \in Solid(r)
  PROVE  Clear(r.shdrs[i].offset, r.shdrs[i].size, x + shift, n)
<1> DEFINE o == r.shdrs[i].offset
           m == r.shdrs[i].size
<1>1. o \in Nat /\ m \in Nat
  BY ImageDomains DEF Solid, ShdrCell
<1>2. CASE i \in set.relocate
  <2>1. o >= from /\ o + m <= to
    BY <1>2 DEF Beside
  <2> HIDE DEF o, m
  <2>2. Clear(o, m, x + shift, n)
    BY <1>1, <2>1 DEF Clear
  <2> QED
    BY <2>2 DEF o, m
<1>3. CASE i \notin set.relocate /\ m # 0
  <2> DEFINE e == set.img
             p == Shdrs(f)[i].offset
  <2>1. i \in Solid(e) /\ m = SectionLen(e, i) /\ o = e.shdrs[i].offset + shift
    BY <1>3 DEF Settled
  <2>2. LET t == set.img.shdrs[i]
        IN /\ i \in Solid(Parse(f)) /\ i \in DOMAIN Shdrs(f)
           /\ t.offset = Shdrs(f)[i].offset /\ t.size = Shdrs(f)[i].size
           /\ t.offset \in Nat /\ t.size \in Nat /\ t.offset >= 1 /\ t.size >= 1
           /\ SectionLen(set.img, i) = t.size
           /\ t.offset + t.size <= Len(f)
           /\ set.start # None => t.offset + t.size <= f[1].phoff
    BY <1>3, <2>1, Unplaced
  <2>3. i \in Solid(Parse(f)) /\ p \in Nat /\ m = Shdrs(f)[i].size /\ o = p + shift
    BY <2>1, <2>2
  <2>4. Clear(p, m, x, n)
    BY <2>3 DEF Idle, Aside, Parse
  <2> HIDE DEF o, m, p
  <2>5. Clear(o, m, x + shift, n)
    BY <1>1, <2>3, <2>4 DEF Clear
  <2> QED
    BY <2>5 DEF o, m
<1>4. CASE m = 0
  BY <1>4 DEF Clear
<1> QED
  BY <1>2, <1>3, <1>4

-----------------------------------------------------------------------------
(* The tables put elsewhere.                                               *)
Headed(r, img, phoff, shoff) ==
  /\ IsImage(r) /\ r.ehdr.phoff = phoff /\ r.ehdr.shoff = shoff
  /\ r.ehdr.shstrndx = img.ehdr.shstrndx
  /\ Len(r.phdrs) = Len(img.phdrs) /\ Len(r.shdrs) = Len(img.shdrs)
  /\ r.data = img.data /\ r.dynamic = img.dynamic
  /\ \A i \in DOMAIN img.shdrs :
       /\ r.shdrs[i].type = img.shdrs[i].type /\ r.shdrs[i].size = img.shdrs[i].size

(* The file header with new table offsets.                                 *)
LEMMA HeaderAt ==
  ASSUME NEW img, IsImage(img), NEW phoff \in Nat, NEW shoff \in Nat
  PROVE  LET r == [img EXCEPT !.ehdr.phoff = phoff, !.ehdr.shoff = shoff]
         IN Headed(r, img, phoff, shoff) /\ r.phdrs = img.phdrs /\ r.shdrs = img.shdrs
<1> DEFINE h == [[img.ehdr EXCEPT !.phoff = phoff] EXCEPT !.shoff = shoff]
           r == [img EXCEPT !.ehdr.phoff = phoff, !.ehdr.shoff = shoff]
           w == [img EXCEPT !.ehdr = h]
<1>1. img = Image(img.ehdr, img.phdrs, img.shdrs, img.data, img.dynamic, img.err)
  BY DEF IsImage
<1>2. r = w
  BY <1>1 DEF Image
<1>3. h \in EhdrCell /\ h.phoff = phoff /\ h.shoff = shoff /\ h.shstrndx = img.ehdr.shstrndx
  <2>1. \A c \in EhdrCell :
          LET d == [[c EXCEPT !.phoff = phoff] EXCEPT !.shoff = shoff]
          IN d \in EhdrCell /\ d.phoff = phoff /\ d.shoff = shoff /\ d.shstrndx = c.shstrndx
    BY DEF EhdrCell
  <2> QED
    BY <2>1 DEF IsImage
<1> HIDE DEF h
<1>4. Fields(w, h, img.phdrs, img.shdrs, img.data, img.dynamic, img.err)
  BY ImageWith
<1> HIDE DEF r, w
<1>5. IsImage(w)
  BY <1>3, <1>4 DEF IsImage, Fields
<1>6. Headed(w, img, phoff, shoff) /\ w.phdrs = img.phdrs /\ w.shdrs = img.shdrs
  BY <1>3, <1>4, <1>5 DEF Headed, Fields
<1> QED
  BY <1>2, <1>6 DEF r

(* New table offsets change no section.                                    *)
LEMMA HeadedLen ==
  ASSUME NEW img, IsImage(img), NEW r, NEW phoff, NEW shoff, Headed(r, img, phoff, shoff)
  PROVE  /\ DOMAIN r.shdrs = DOMAIN img.shdrs /\ DynIdx(r) = DynIdx(img)
         /\ \A i \in DOMAIN img.shdrs : SectionLen(r, i) = SectionLen(img, i)
<1>1. /\ IsImage(r) /\ DOMAIN r.shdrs = DOMAIN img.shdrs /\ Len(img.shdrs) \in Nat
      /\ r.data = img.data /\ r.dynamic = img.dynamic /\ Len(r.shdrs) = Len(img.shdrs)
      /\ \A i \in DOMAIN img.shdrs :
           r.shdrs[i].type = img.shdrs[i].type /\ r.shdrs[i].size = img.shdrs[i].size
  BY ImageDomains DEF Headed
<1>2. DynIdx(r) = DynIdx(img)
  BY <1>1, DynIdxSame
<1>3. \A i \in DOMAIN img.shdrs : SectionLen(r, i) = SectionLen(img, i)
  BY <1>1, <1>2 DEF SectionLen
<1> QED
  BY <1>1, <1>2, <1>3

(* A region emitted into an image with its tables moved.                   *)
EmittedInto(placed, headed, set, region, off) ==
  /\ Emitted(placed, headed, region, off) /\ Arranged(placed, set.img, set.relocate)
  /\ placed.ehdr.phoff = headed.ehdr.phoff /\ placed.ehdr.shoff = headed.ehdr.shoff
  /\ Len(placed.phdrs) = Len(set.img.phdrs) + region.loads

(* The region of a plan, emitted.                                          *)
LEMMA RegionEmitted ==
  ASSUME NEW f, Coherent(f), NEW set, Starting(set, f), NEW region, NEW headSize \in [1 .. 2 -> Nat],
         Region(region, set.img, set.relocate, headSize),
         NEW phoff, NEW shoff, NEW headed, Headed(headed, set.img, phoff, shoff),
         NEW off \in Nat, NEW vaddr \in Nat, NEW size \in Nat, NEW align \in Nat
  PROVE  EmittedInto(Emit(headed, region, off, vaddr, size, align), headed, set, region, off)
<1> DEFINE placed == Emit(headed, region, off, vaddr, size, align)
           e == set.img
<1>1. /\ IsImage(e) /\ set.relocate \subseteq DOMAIN e.shdrs
      /\ \A i \in set.relocate : SectionLen(e, i) \in Nat
  BY Relocating
<1>2. /\ DOMAIN headed.shdrs = DOMAIN e.shdrs
      /\ \A i \in DOMAIN e.shdrs : SectionLen(headed, i) = SectionLen(e, i)
  BY <1>1, HeadedLen
<1>3. /\ IsImage(headed) /\ headed.ehdr.phoff = phoff /\ headed.ehdr.shoff = shoff
      /\ headed.ehdr.shstrndx = e.ehdr.shstrndx
      /\ Len(headed.phdrs) = Len(e.phdrs) /\ Len(headed.shdrs) = Len(e.shdrs)
      /\ headed.data = e.data /\ headed.dynamic = e.dynamic
      /\ \A i \in DOMAIN e.shdrs :
           headed.shdrs[i].type = e.shdrs[i].type /\ headed.shdrs[i].size = e.shdrs[i].size
  BY DEF Headed
<1>4. /\ DOMAIN region.at = set.relocate /\ region.loads \in {1, 2} /\ region.dataLen \in Nat
      /\ region.len \in Nat /\ region.dataLen <= region.len
      /\ \A i \in set.relocate : region.at[i] \in Nat
  BY DEF Region
<1>5. Emitted(placed, headed, region, off)
  <2>1. \A i \in DOMAIN region.at : region.at[i] \in Nat /\ SectionLen(headed, i) \in Nat
    BY <1>1, <1>2, <1>4
  <2>2. DOMAIN region.at \subseteq DOMAIN headed.shdrs
    BY <1>1, <1>2, <1>4
  <2> QED
    BY <1>3, <1>4, <2>1, <2>2, Emitting
<1> HIDE DEF placed, e
<1>6. Arranged(placed, e, set.relocate)
  <2>1. Arranged(placed, headed, set.relocate)
    BY <1>4, <1>5 DEF Emitted
  <2>2. /\ IsImage(placed) /\ Len(placed.shdrs) = Len(e.shdrs)
        /\ placed.data = e.data /\ placed.dynamic = e.dynamic
        /\ placed.ehdr.shstrndx = e.ehdr.shstrndx
    BY <1>3, <2>1 DEF Arranged
  <2>3. \A i \in DOMAIN e.shdrs :
          /\ placed.shdrs[i].type = e.shdrs[i].type
          /\ i \in set.relocate => placed.shdrs[i].size = SectionLen(e, i)
          /\ i \notin set.relocate => placed.shdrs[i].size = e.shdrs[i].size
    BY <1>2, <1>3, <2>1 DEF Arranged
  <2> QED
    BY <2>2, <2>3 DEF Arranged
<1>7. /\ placed.ehdr.phoff = headed.ehdr.phoff /\ placed.ehdr.shoff = headed.ehdr.shoff
      /\ Len(placed.phdrs) = Len(e.phdrs) + region.loads
  BY <1>3, <1>5 DEF Emitted
<1> QED
  BY <1>5, <1>6, <1>7 DEF placed, e, EmittedInto

(* The sizes of the tables.                                                *)
LEMMA TableSizes ==
  ASSUME NEW img, IsImage(img)
  PROVE  \A n \in 1 .. 2 : /\ PhtSize(img, n) \in Nat /\ PhtSize(img, n) >= 1 + Len(img.phdrs) + n
                           /\ RoundUp(Len(img.shdrs), SecAlign) \in Nat
                           /\ RoundUp(Len(img.shdrs), SecAlign) >= Len(img.shdrs)
<1> SUFFICES ASSUME NEW n \in 1 .. 2
             PROVE  /\ PhtSize(img, n) \in Nat /\ PhtSize(img, n) >= 1 + Len(img.phdrs) + n
                    /\ RoundUp(Len(img.shdrs), SecAlign) \in Nat
                    /\ RoundUp(Len(img.shdrs), SecAlign) >= Len(img.shdrs)
  OBVIOUS
<1>1. \A v \in Nat : RoundUp(v, SecAlign) \in Nat /\ RoundUp(v, SecAlign) >= v
  BY RoundUpBound, LayoutAssumption
<1>2. Len(img.phdrs) \in Nat /\ Len(img.shdrs) \in Nat
  BY ImageDomains
<1>3. EhdrSize + Len(img.phdrs) + n \in Nat /\ EhdrSize + Len(img.phdrs) + n = 1 + Len(img.phdrs) + n
  BY <1>2 DEF EhdrSize
<1>4. PhtSize(img, n) \in Nat /\ PhtSize(img, n) >= 1 + Len(img.phdrs) + n
  BY <1>1, <1>3 DEF PhtSize
<1> QED
  BY <1>1, <1>2, <1>4

-----------------------------------------------------------------------------
(* What every layout has established before the fixups.                    *)
MovedTo(placed, set, region, off, shift) ==
  \A i \in DOMAIN set.img.shdrs :
    /\ i \in set.relocate => placed.shdrs[i].offset = off + region.at[i]
    /\ i \notin set.relocate => placed.shdrs[i].offset = set.img.shdrs[i].offset + shift

(* The fixups after it leave every section where the layout put it.        *)
LEMMA LayoutSettled ==
  ASSUME NEW f, Coherent(f), NEW set, Starting(set, f), NEW region, DOMAIN region.at = set.relocate,
         NEW placed, Arranged(placed, set.img, set.relocate), NEW off \in Nat, NEW shift \in Nat,
         MovedTo(placed, set, region, off, shift), NEW r, FixedUp(placed, r)
  PROVE  Settled(r, set, region, off, shift) /\ SizesSynced(r)
<1> DEFINE e == set.img
<1>1. Edited(e, f) /\ set.relocate = ToPlace(e, Grown(e), set.start)
  BY DEF Starting
<1>2. /\ SizesSynced(r) /\ Solid(r) = Solid(e)
      /\ \A i \in Solid(e) : r.shdrs[i].size = SectionLen(e, i)
  BY <1>1, Sized
<1>3. r.shdrs = placed.shdrs /\ Solid(e) \subseteq DOMAIN e.shdrs
  BY DEF FixedUp, Solid
<1> QED
  BY <1>2, <1>3 DEF Settled, MovedTo

(* A layout that is tidy is written, or refused by verify.                 *)
LEMMA LayoutFollows ==
  ASSUME NEW f, Coherent(f), NEW set, Starting(set, f), NEW shift \in Nat, NEW new,
         NEW placed, Arranged(placed, set.img, set.relocate),
         SegmentsFrom(placed, set.img, shift, new),
         set.img.shdrs = <<>> => \A q \in Dynamics(set.img.phdrs) : Readably(placed, q, shift),
         NEW r, FixedUp(placed, r), SizesSynced(r), Tidy(r), NEW total \in Nat,
         Skirts(r, f, shift, total)
  PROVE  Outcome(Finish(r, f, shift, total), f) /\ Finish(r, f, shift, total).err # "no_room"
<1>1. Edited(set.img, f)
  BY DEF Starting
<1>2. Follows(r, set.img, f, shift)
  BY <1>1, FollowsFrom
<1>3. Laid(r, f, shift)
  BY <1>1, <1>2, LaidFrom
<1> QED
  BY <1>3, Finished

(* A dynamic segment that is left in place lies before an appended region. *)
LEMMA SegmentBefore ==
  ASSUME NEW f, Coherent(f), NEW set, Starting(set, f), set.img.shdrs = <<>>,
         NEW q \in Dynamics(set.img.phdrs)
  PROVE  /\ q \in PhdrCell /\ q.offset >= 1
         /\ End(q) <= (IF set.start = None THEN Len(f) ELSE f[1].phoff)
<1>1. Edited(set.img, f) /\ (set.start # None => PriorRegion(Parse(f)) # 0)
  BY DEF Starting
<1>2. DynIdx(set.img) = 0
  BY NoSections
<1>3. q.offset >= EhdrSize /\ Dynamics(Phdrs(f)) = {q}
  BY <1>1, <1>2, EditedSegments
<1>4. PriorRegion(Parse(f)) # 0 => End(q) <= f[1].phoff
  BY <1>1, <1>2, EditedSegments
<1>5. q \in Range(Phdrs(f))
  BY <1>3 DEF Dynamics
<1>6. q \in PhdrCell /\ End(q) <= Len(f)
  BY <1>5, OldParts
<1> QED
  BY <1>1, <1>3, <1>4, <1>6 DEF EhdrSize

(* Raised by nothing, a segment is the same.                               *)
LEMMA NotRaised ==
  ASSUME NEW q \in PhdrCell
  PROVE  Raise(q, 0) = q
BY DEF Raise, PhdrCell

(* The program header table begins after the file header.                  *)
LEMMA TableAfterHeader ==
  ASSUME NEW f, Coherent(f)
  PROVE  f[1].phoff >= 1 /\ f[1].phoff \in Nat /\ Len(f) >= 1
<1> DEFINE old == Parse(f)
<1>1. /\ old.ehdr = f[1] /\ old.phdrs = Phdrs(f) /\ Len(Phdrs(f)) = f[1].phnum /\ Tidy(old)
      /\ f[1].phoff \in Nat /\ f[1].phnum \in Nat /\ f[1].phnum >= 1 /\ Len(f) >= 1
  BY OldParts DEF Parse
<1> HIDE DEF old
<1>2. Clear(0, 1, f[1].phoff, f[1].phnum)
  BY <1>1 DEF Tidy
<1> QED
  BY <1>1, <1>2 DEF Clear

-----------------------------------------------------------------------------
(* The region put behind everything that stays in the file.                *)
LEMMA RegionAppended ==
  ASSUME NEW f, Coherent(f), NEW set, Starting(set, f), NEW region, NEW headSize \in [1 .. 2 -> Nat],
         Region(region, set.img, set.relocate, headSize),
         \A n \in 1 .. 2 : headSize[n] >= PhtSize(set.img, n) + Len(set.img.shdrs),
         NEW startOff \in Nat, startOff >= (IF set.start = None THEN Len(f) ELSE f[1].phoff),
         NEW base \in Nat, NEW align \in Nat
  PROVE  LET r == AppendRegion(set, f, region, startOff, base, align)
         IN Outcome(r, f) /\ r.err # "no_room"
<1> DEFINE e == set.img
           loads == region.loads
           pht == PhtSize(e, loads)
           h == headSize[loads]
           headed == [e EXCEPT !.ehdr.phoff = startOff, !.ehdr.shoff = startOff + pht]
           placed == Emit(headed, region, startOff, base + startOff, region.dataLen, align)
           r == FixAll(e, placed, base + startOff, set.relocate)
           total == startOff + region.len + 1
<1>1. /\ IsImage(e) /\ set.relocate \subseteq DOMAIN e.shdrs
      /\ Len(e.phdrs) \in Nat /\ Len(e.shdrs) \in Nat
  BY Relocating, ImageDomains
<1>2. /\ loads \in 1 .. 2 /\ region.dataLen \in Nat /\ region.len \in Nat
      /\ DOMAIN region.at = set.relocate
  BY DEF Region
<1>3. pht \in Nat /\ pht >= 1 + Len(e.phdrs) + loads /\ h \in Nat /\ h >= pht + Len(e.shdrs)
  BY <1>1, <1>2, TableSizes
<1>4. startOff >= 1
  BY TableAfterHeader
<1>5. Headed(headed, e, startOff, startOff + pht) /\ headed.phdrs = e.phdrs /\ headed.shdrs = e.shdrs
  <2>1. startOff + pht \in Nat
    BY <1>3
  <2>2. \A o, p \in Nat :
          LET w == [e EXCEPT !.ehdr.phoff = o, !.ehdr.shoff = p]
          IN Headed(w, e, o, p) /\ w.phdrs = e.phdrs /\ w.shdrs = e.shdrs
    BY <1>1, HeaderAt
  <2> QED
    BY <2>1, <2>2
<1> HIDE DEF pht, h, headed
<1>6. /\ Emitted(placed, headed, region, startOff) /\ Arranged(placed, e, set.relocate)
      /\ placed.ehdr.phoff = startOff /\ placed.ehdr.shoff = startOff + pht
      /\ Len(placed.phdrs) = Len(e.phdrs) + loads
  <2>1. base + startOff \in Nat
    OBVIOUS
  <2>2. \A off, v, size, a \in Nat :
          EmittedInto(Emit(headed, region, off, v, size, a), headed, set, region, off)
    BY <1>5, RegionEmitted
  <2>3. EmittedInto(placed, headed, set, region, startOff)
    BY <1>2, <2>1, <2>2
  <2> HIDE DEF placed
  <2> QED
    BY <1>5, <2>3 DEF EmittedInto, Headed
<1> HIDE DEF placed
<1>7. FixedUp(placed, r)
  <2>1. IsImage(placed) /\ Len(placed.shdrs) = Len(e.shdrs) /\ Len(e.phdrs) <= Len(placed.phdrs)
    BY <1>1, <1>2, <1>6 DEF Arranged
  <2>2. base + startOff \in Nat
    OBVIOUS
  <2> QED
    BY <1>1, <2>1, <2>2, AllFixed
<1> HIDE DEF r
<1>8. Settled(r, set, region, startOff, 0) /\ SizesSynced(r)
  <2>1. MovedTo(placed, set, region, startOff, 0)
    <3>1. \A i \in DOMAIN e.shdrs :
            /\ i \in set.relocate => placed.shdrs[i].offset = startOff + region.at[i]
            /\ i \notin set.relocate => placed.shdrs[i] = e.shdrs[i]
      BY <1>2, <1>5, <1>6 DEF Emitted
    <3>2. \A i \in DOMAIN e.shdrs : e.shdrs[i].offset = e.shdrs[i].offset + 0
      BY <1>1, ImageDomains DEF ShdrCell
    <3> QED
      BY <3>1, <3>2 DEF MovedTo
  <2>2. \A off, shift \in Nat : MovedTo(placed, set, region, off, shift) =>
          Settled(r, set, region, off, shift) /\ SizesSynced(r)
    BY <1>2, <1>6, <1>7, LayoutSettled
  <2> QED
    BY <2>1, <2>2
<1>9. Beside(r, set.relocate, startOff + h, startOff + region.len, 0 + 1, startOff)
  <2>1. startOff >= 0 + (IF set.start = None THEN Len(f) ELSE f[1].phoff)
    BY OldParts
  <2> QED
    BY <1>8, <2>1, SectionsBeside DEF h
<1>10. Tidy(r)
  <2>1. /\ IsImage(r) /\ r.ehdr.phoff = startOff /\ r.ehdr.shoff = startOff + pht
        /\ Len(r.phdrs) = Len(e.phdrs) + loads /\ Len(r.shdrs) = Len(e.shdrs)
    BY <1>6, <1>7 DEF FixedUp, Arranged
  <2>2. TablesBeside(r, startOff + h, startOff + region.len, 0 + 1, startOff)
    <3>1. \A pn, sn, l, p, k : (pn \in Nat /\ sn \in Nat /\ l \in 1 .. 2 /\ p \in Nat /\ k \in Nat
                                /\ p >= 1 + pn + l /\ k >= p + sn) =>
            /\ startOff + (pn + l) <= startOff + k /\ startOff + p >= startOff + (pn + l)
            /\ startOff + p + sn <= startOff + k /\ startOff <= startOff + p
      OBVIOUS
    <3>2. /\ startOff + (Len(e.phdrs) + loads) <= startOff + h
          /\ startOff + pht >= startOff + (Len(e.phdrs) + loads)
          /\ startOff + pht + Len(e.shdrs) <= startOff + h /\ startOff <= startOff + pht
      BY <1>1, <1>2, <1>3, <3>1
    <3> QED
      BY <1>4, <2>1, <3>2 DEF TablesBeside
  <2>3. startOff + h \in Nat /\ startOff + region.len \in Nat /\ 0 + 1 \in Nat
        /\ startOff + h >= 1 /\ 0 + 1 >= 1 /\ startOff <= startOff + h
    <3>1. \A k \in Nat : startOff >= 1 =>
            startOff + k \in Nat /\ startOff + k >= 1 /\ startOff <= startOff + k
      OBVIOUS
    <3>2. h \in Nat /\ region.len \in Nat /\ 0 + 1 \in Nat /\ 0 + 1 >= 1
      BY <1>2, <1>3
    <3> QED
      BY <1>4, <3>1, <3>2
  <2> QED
    BY <1>9, <2>1, <2>2, <2>3, TidyRegion
<1>11. SegmentsFrom(placed, e, 0, {startOff, startOff + region.dataLen})
  <2> SUFFICES ASSUME NEW p \in Range(placed.phdrs)
               PROVE  \/ p.type = "LOAD" /\ p.offset \in {startOff, startOff + region.dataLen}
                      \/ \E q \in Range(e.phdrs) : p = Raise(q, 0)
    BY DEF SegmentsFrom
  <2>1. p \in Range(e.phdrs) \/ NewSegment(p, startOff, region.dataLen)
    BY <1>5, <1>6 DEF Emitted
  <2>2. p \in Range(e.phdrs) => p = Raise(p, 0)
    BY <1>1, NotRaised, ImageDomains DEF Range
  <2> QED
    BY <2>1, <2>2 DEF NewSegment
<1>12. e.shdrs = <<>> => \A q \in Dynamics(e.phdrs) : Readably(placed, q, 0)
  <2> SUFFICES ASSUME e.shdrs = <<>>, NEW q \in Dynamics(e.phdrs) PROVE Readably(placed, q, 0)
    OBVIOUS
  <2>1. q \in PhdrCell /\ End(q) <= (IF set.start = None THEN Len(f) ELSE f[1].phoff)
    BY SegmentBefore
  <2>2. Raise(q, 0) = q /\ End(q) \in Nat
    BY <2>1, NotRaised DEF End, PhdrCell
  <2>3. End(Raise(q, 0)) <= placed.ehdr.phoff
    BY <1>6, <2>1, <2>2, OldParts
  <2> QED
    BY <2>3 DEF Readably
<1>13. Skirts(r, f, 0, total)
  <2> SUFFICES ASSUME NEW x \in Nat, NEW n \in Nat, Idle(f, x, n)
               PROVE  Aside(r, total, x + 0, n)
    BY DEF Skirts
  <2>1. x + n <= startOff /\ Clear(0, 1, x, n)
    <3>1. x + n <= Len(f) /\ Clear(0, 1, x, n) /\ (PriorRegion(Parse(f)) # 0 => x + n <= f[1].phoff)
      BY DEF Idle, Aside, Parse
    <3>2. set.start # None => PriorRegion(Parse(f)) # 0
      BY DEF Starting
    <3> QED
      BY <3>1, <3>2, OldParts
  <2>2. /\ IsImage(r) /\ r.ehdr.phoff = startOff /\ r.ehdr.shoff = startOff + pht
    BY <1>6, <1>7 DEF FixedUp, Arranged
  <2>3. /\ Clear(r.ehdr.phoff, Len(r.phdrs), x, n) /\ Clear(r.ehdr.shoff, Len(r.shdrs), x, n)
    BY <1>3, <2>1, <2>2 DEF Clear
  <2>4. startOff + h \in Nat /\ startOff + region.len \in Nat /\ x + 0 + n <= startOff + h
    <3>1. \A k \in Nat : x + n <= startOff =>
            startOff + k \in Nat /\ x + 0 + n <= startOff + k
      OBVIOUS
    <3> QED
      BY <1>2, <1>3, <2>1, <3>1
  <2>5. ASSUME NEW i \in Solid(r)
        PROVE  Clear(r.shdrs[i].offset, r.shdrs[i].size, x + 0, n)
    BY <1>8, <1>9, <2>2, <2>4, SectionsSkirt
  <2>6. x + n <= total /\ x + 0 = x
    BY <1>2, <2>1
  <2> HIDE DEF total
  <2> QED
    BY <2>1, <2>2, <2>3, <2>5, <2>6 DEF Aside
<1>14. Outcome(Finish(r, f, 0, total), f) /\ Finish(r, f, 0, total).err # "no_room"
  <2>1. total \in Nat
    BY <1>2
  <2> HIDE DEF total
  <2> QED
    BY <1>6, <1>7, <1>8, <1>10, <1>11, <1>12, <1>13, <2>1, LayoutFollows
<1>15. Outcome(Failure("unsupported"), f) /\ Failure("unsupported").err # "no_room"
  BY DEF Outcome, Failure
<1>16. AppendRegion(set, f, region, startOff, base, align) =
         IF Referenced(set.img, set.relocate) THEN Failure("unsupported") ELSE Finish(r, f, 0, total)
  BY DEF AppendRegion, r, placed, headed, pht
<1> QED
  BY <1>14, <1>15, <1>16

-----------------------------------------------------------------------------
(* The greatest of finitely many numbers.                                  *)
LEMMA MaxAmong ==
  ASSUME NEW n \in Nat, NEW v \in [1 .. n -> Nat], NEW x \in Nat, NEW S,
         x \in S, S \subseteq {x} \cup {v[i] : i \in 1 .. n}
  PROVE  Max(S) \in Nat /\ Max(S) >= x
<1>1. PICK b \in Nat : \A i \in 1 .. n : v[i] <= b
  BY Bounded
<1>2. S \subseteq 0 .. (b + x)
  BY <1>1
<1>3. b + x \in Nat /\ S # {}
  BY <1>1
<1>4. \A m \in Nat : S \subseteq 0 .. m => Max(S) \in S /\ \A y \in S : Max(S) >= y
  BY <1>3, MaxOf
<1>5. Max(S) \in S /\ \A y \in S : Max(S) >= y
  BY <1>2, <1>3, <1>4
<1>6. \A y \in S : y \in Nat
  BY <1>2, <1>3
<1> QED
  BY <1>5, <1>6

(* A saturating difference is a natural.                                   *)
LEMMA NotNegative ==
  ASSUME NEW x \in Int
  PROVE  Max({0, x}) \in Nat
<1>1. CASE x >= 0
  <2>1. x \in Nat
    BY <1>1
  <2> QED
    BY <2>1, LongerOf
<1>2. CASE x < 0
  <2>1. Max({0, x}) = CHOOSE m \in {0, x} : \A y \in {0, x} : m >= y
    BY DEF Max
  <2>2. \A m \in {0, x} : (\A y \in {0, x} : m >= y) <=> m = 0
    BY <1>2
  <2>3. \E m \in {0, x} : \A y \in {0, x} : m >= y
    BY <2>2
  <2>4. Max({0, x}) = 0
    BY <2>1, <2>2, <2>3
  <2> QED
    BY <2>4
<1> QED
  BY <1>1, <1>2

(* Alignments, start page and base address are naturals.                   *)
LEMMA SegmentNumbers ==
  ASSUME NEW img, IsImage(img)
  PROVE  /\ Max({Page} \cup {img.phdrs[i].align : i \in DOMAIN img.phdrs}) \in Nat
         /\ Max({Page} \cup {p.align : p \in Loads(img.phdrs)}) \in Nat
         /\ \A align \in Nat : StartPage(img, align) \in Nat
         /\ Loads(img.phdrs) # {} => Min({p.vaddr : p \in Loads(img.phdrs)}) \in Nat
<1> DEFINE n == Len(img.phdrs)
           aligns == [i \in 1 .. n |-> img.phdrs[i].align]
           ends == [i \in 1 .. n |-> img.phdrs[i].vaddr + img.phdrs[i].memsz]
<1>1. n \in Nat /\ DOMAIN img.phdrs = 1 .. n /\ \A i \in 1 .. n : img.phdrs[i] \in PhdrCell
  BY ImageDomains
<1>2. aligns \in [1 .. n -> Nat] /\ ends \in [1 .. n -> Nat]
  BY <1>1 DEF PhdrCell
<1>3. Page \in Nat
  BY LayoutAssumption
<1>4. Max({Page} \cup {img.phdrs[i].align : i \in DOMAIN img.phdrs}) \in Nat
  <2> DEFINE S == {Page} \cup {img.phdrs[i].align : i \in DOMAIN img.phdrs}
  <2>1. S \subseteq {Page} \cup {aligns[i] : i \in 1 .. n} /\ Page \in S
    BY <1>1
  <2> HIDE DEF S, aligns, n
  <2>2. Max(S) \in Nat
    BY <1>1, <1>2, <1>3, <2>1, MaxAmong
  <2> QED
    BY <2>2 DEF S
<1>5. Max({Page} \cup {p.align : p \in Loads(img.phdrs)}) \in Nat
  <2> DEFINE S == {Page} \cup {p.align : p \in Loads(img.phdrs)}
  <2>1. S \subseteq {Page} \cup {aligns[i] : i \in 1 .. n} /\ Page \in S
    BY <1>1 DEF Loads
  <2> HIDE DEF S, aligns, n
  <2>2. Max(S) \in Nat
    BY <1>1, <1>2, <1>3, <2>1, MaxAmong
  <2> QED
    BY <2>2 DEF S
<1>6. ASSUME NEW align \in Nat
      PROVE  StartPage(img, align) \in Nat
  <2> DEFINE S == {0} \cup {img.phdrs[i].vaddr + img.phdrs[i].memsz : i \in DOMAIN img.phdrs}
  <2>1. S \subseteq {0} \cup {ends[i] : i \in 1 .. n} /\ 0 \in S
    BY <1>1
  <2>2. StartPage(img, align) = RoundUp(Max(S), align)
    BY DEF StartPage
  <2> HIDE DEF S, ends, n
  <2>3. Max(S) \in Nat
    BY <1>1, <1>2, <2>1, MaxAmong
  <2> QED
    BY <2>2, <2>3, RoundUpBound
<1>7. Loads(img.phdrs) # {} => Min({p.vaddr : p \in Loads(img.phdrs)}) \in Nat
  <2> DEFINE S == {p.vaddr : p \in Loads(img.phdrs)}
  <2>1. S \subseteq Nat
    BY <1>1 DEF Loads, PhdrCell
  <2>2. Loads(img.phdrs) # {} => S # {}
    OBVIOUS
  <2> HIDE DEF S
  <2>3. S # {} => Min(S) \in Nat
    BY <2>1, MinOf
  <2> QED
    BY <2>2, <2>3 DEF S
<1> QED
  BY <1>4, <1>5, <1>6, <1>7

-----------------------------------------------------------------------------
(* The appended region begins behind the file, or where the earlier region *)
(* did.                                                                    *)
LEMMA StartOffBound ==
  ASSUME NEW f, Coherent(f), NEW set, Starting(set, f), NEW minOff \in Nat, NEW align \in Nat
  PROVE  /\ StartOff(set.start, f, minOff, align) \in Nat
         /\ StartOff(set.start, f, minOff, align) >=
              (IF set.start = None THEN Len(f) ELSE f[1].phoff)
<1> DEFINE low == IF set.start = None THEN Len(f) ELSE set.start
<1>1. /\ low \in Nat /\ low = (IF set.start = None THEN Len(f) ELSE f[1].phoff)
  <2>1. set.start # None => set.start = f[1].phoff
    BY DEF Starting
  <2>2. Len(f) \in Nat /\ f[1].phoff \in Nat
    BY OldParts
  <2> QED
    BY <2>1, <2>2
<1>2. StartOff(set.start, f, minOff, align) = RoundUp(Max({low, minOff}), align)
  BY DEF StartOff
<1> HIDE DEF low
<1>3. Max({low, minOff}) \in Nat /\ Max({low, minOff}) >= low
  BY <1>1, LongerOf
<1>4. /\ RoundUp(Max({low, minOff}), align) \in Nat
      /\ RoundUp(Max({low, minOff}), align) >= Max({low, minOff})
  BY <1>3, RoundUpBound
<1> QED
  BY <1>1, <1>2, <1>3, <1>4

(* relayout answers with a usable file or with verify's refusal.           *)
LEMMA LaidByAppending ==
  ASSUME NEW f, Coherent(f), NEW set, Starting(set, f)
  PROVE  Outcome(RelayoutSet(set, f), f) /\ RelayoutSet(set, f).err # "no_room"
<1> DEFINE e == set.img
           loads == {p.vaddr : p \in Loads(e.phdrs)}
           base == IF loads = {} THEN 0 ELSE Min(loads)
           align == Max({Page} \cup {e.phdrs[i].align : i \in DOMAIN e.phdrs})
           headSize == [n \in 1 .. 2 |-> PhtSize(e, n) + RoundUp(Len(e.shdrs), SecAlign)]
           region == Plan(e, set.relocate, headSize)
           minOff == Max({0, StartPage(e, align) - base})
           startOff == StartOff(set.start, f, minOff, align)
<1>1. IsImage(e)
  BY Relocating
<1>2. align \in Nat /\ base \in Nat
  <2>1. loads # {} => Loads(e.phdrs) # {}
    OBVIOUS
  <2> QED
    BY <1>1, <2>1, SegmentNumbers
<1> HIDE DEF align, base
<1>3. headSize \in [1 .. 2 -> Nat]
      /\ \A n \in 1 .. 2 : headSize[n] >= PhtSize(e, n) + Len(e.shdrs)
  <2>1. \A n \in 1 .. 2 : /\ PhtSize(e, n) \in Nat
                          /\ RoundUp(Len(e.shdrs), SecAlign) \in Nat
                          /\ RoundUp(Len(e.shdrs), SecAlign) >= Len(e.shdrs)
    BY <1>1, TableSizes
  <2>2. Len(e.shdrs) \in Nat
    BY <1>1, ImageDomains
  <2> QED
    BY <2>1, <2>2
<1> HIDE DEF headSize
<1>4. Region(region, e, set.relocate, headSize)
  <2>1. set.relocate \subseteq DOMAIN e.shdrs /\ \A i \in set.relocate : SectionLen(e, i) \in Nat
    BY Relocating
  <2> QED
    BY <1>1, <1>3, <2>1, Planned
<1> HIDE DEF region
<1>5. minOff \in Nat
  <2>1. StartPage(e, align) \in Nat
    BY <1>1, <1>2, SegmentNumbers
  <2>2. StartPage(e, align) - base \in Int
    BY <1>2, <2>1
  <2> QED
    BY <2>2, NotNegative
<1> HIDE DEF minOff
<1>6. /\ startOff \in Nat
      /\ startOff >= (IF set.start = None THEN Len(f) ELSE f[1].phoff)
  BY <1>2, <1>5, StartOffBound
<1> HIDE DEF startOff
<1>7. /\ Outcome(AppendRegion(set, f, region, startOff, base, align), f)
      /\ AppendRegion(set, f, region, startOff, base, align).err # "no_room"
  BY <1>2, <1>3, <1>4, <1>6, RegionAppended
<1>8. RelayoutSet(set, f) = AppendRegion(set, f, region, startOff, base, align)
  BY DEF RelayoutSet, AppendLayout, region, startOff, minOff, headSize, base, align
<1> QED
  BY <1>7, <1>8

-----------------------------------------------------------------------------
(* The original moved up.                                                  *)
RaisedList(r, headers, shift) ==
  /\ IsList(r) /\ Len(r) = Len(headers) /\ DOMAIN r = DOMAIN headers
  /\ \A i \in DOMAIN headers : r[i] = Raise(headers[i], shift)

(* A header list raised by a shift, element by element.                    *)
LEMMA ListRaised ==
  ASSUME NEW headers, IsList(headers), NEW shift
  PROVE  RaisedList(Raised(headers, shift), headers, shift)
<1> DEFINE g == [i \in DOMAIN headers |-> [headers[i] EXCEPT !.offset = headers[i].offset + shift]]
<1>1. Raised(headers, shift) = Tuple(g)
  BY DEF Raised
<1>2. DOMAIN g = DOMAIN headers /\ g = [i \in DOMAIN headers |-> g[i]]
      /\ \A i \in DOMAIN headers : g[i] = Raise(headers[i], shift)
  BY DEF Raise
<1> HIDE DEF g
<1>3. IsList(g) /\ Len(g) = Len(headers) /\ Tuple(g) = g
  BY <1>2, ListMap
<1> QED
  BY <1>1, <1>2, <1>3 DEF RaisedList

(* A header raised by a shift stays of its type and size.                  *)
LEMMA HeaderRaised ==
  ASSUME NEW shift \in Nat
  PROVE  /\ \A c \in PhdrCell : /\ Raise(c, shift) \in PhdrCell /\ Raise(c, shift).type = c.type
                                /\ Raise(c, shift).offset = c.offset + shift
                                /\ Raise(c, shift).filesz = c.filesz
         /\ \A c \in ShdrCell : /\ Raise(c, shift) \in ShdrCell /\ Raise(c, shift).type = c.type
                                /\ Raise(c, shift).offset = c.offset + shift
                                /\ Raise(c, shift).size = c.size
<1>1. ASSUME NEW c \in PhdrCell
      PROVE  /\ Raise(c, shift) \in PhdrCell /\ Raise(c, shift).type = c.type
             /\ Raise(c, shift).offset = c.offset + shift /\ Raise(c, shift).filesz = c.filesz
  BY DEF Raise, PhdrCell
<1>2. ASSUME NEW c \in ShdrCell
      PROVE  /\ Raise(c, shift) \in ShdrCell /\ Raise(c, shift).type = c.type
             /\ Raise(c, shift).offset = c.offset + shift /\ Raise(c, shift).size = c.size
  BY DEF Raise, ShdrCell
<1> QED
  BY <1>1, <1>2

(* The image with its file content moved up to make room in front of it.   *)
MovedUp(r, img, shift, shoff) ==
  /\ Headed(r, img, EhdrSize, shoff)
  /\ RaisedList(r.phdrs, img.phdrs, shift) /\ RaisedList(r.shdrs, img.shdrs, shift)

(* What relayout_shift does before it places anything.                     *)
LEMMA ImageMovedUp ==
  ASSUME NEW img, IsImage(img), NEW shift \in Nat, NEW shoff \in Nat
  PROVE  MovedUp(MoveUp(img, shift, shoff), img, shift, shoff)
<1> DEFINE ps == Raised(img.phdrs, shift)
           ss == Raised(img.shdrs, shift)
           a == [img EXCEPT !.phdrs = ps]
           b == [a EXCEPT !.shdrs = ss]
           r == [b EXCEPT !.ehdr.phoff = EhdrSize, !.ehdr.shoff = shoff]
<1>1. /\ img.phdrs \in Seq(PhdrCell) /\ img.shdrs \in Seq(ShdrCell)
      /\ IsList(img.phdrs) /\ IsList(img.shdrs)
  BY SeqList DEF IsImage
<1>2. MoveUp(img, shift, shoff) = r
  <2>1. img = Image(img.ehdr, img.phdrs, img.shdrs, img.data, img.dynamic, img.err)
    BY DEF IsImage
  <2>2. MoveUp(img, shift, shoff) =
          [img EXCEPT !.phdrs = ps, !.shdrs = ss, !.ehdr.phoff = EhdrSize, !.ehdr.shoff = shoff]
    BY DEF MoveUp
  <2> HIDE DEF ps, ss
  <2> QED
    BY <2>1, <2>2 DEF Image
<1>3. RaisedList(ps, img.phdrs, shift) /\ RaisedList(ss, img.shdrs, shift)
  BY <1>1, ListRaised
<1> HIDE DEF ps, ss
<1>4. ps \in Seq(PhdrCell)
  <2>1. \A i \in DOMAIN ps : ps[i] \in PhdrCell
    BY <1>3, HeaderRaised, ImageDomains DEF RaisedList
  <2> QED
    BY <1>3, <2>1, ListTyped DEF RaisedList
<1>5. ss \in Seq(ShdrCell)
  <2>1. \A i \in DOMAIN ss : ss[i] \in ShdrCell
    BY <1>3, HeaderRaised, ImageDomains DEF RaisedList
  <2> QED
    BY <1>3, <2>1, ListTyped DEF RaisedList
<1>6. Fields(a, img.ehdr, ps, img.shdrs, img.data, img.dynamic, img.err)
  BY ImageWith
<1> HIDE DEF a
<1>7. IsImage(a)
  BY <1>4, <1>6 DEF IsImage, Fields
<1>8. Fields(b, img.ehdr, ps, ss, img.data, img.dynamic, img.err)
  <2>1. Fields(b, a.ehdr, a.phdrs, ss, a.data, a.dynamic, a.err)
    BY <1>7, ImageWith
  <2> HIDE DEF b
  <2> QED
    BY <1>6, <2>1 DEF Fields
<1> HIDE DEF b
<1>9. IsImage(b)
  <2>1. /\ b = Image(b.ehdr, b.phdrs, b.shdrs, b.data, b.dynamic, b.err)
        /\ b.ehdr = img.ehdr /\ b.phdrs = ps /\ b.shdrs = ss /\ b.data = img.data
        /\ b.dynamic = img.dynamic
    BY <1>8 DEF Fields
  <2>2. Len(ss) = Len(img.shdrs) /\ DOMAIN ss = DOMAIN img.shdrs
    BY <1>3 DEF RaisedList
  <2> QED
    BY <1>4, <1>5, <2>1, <2>2 DEF IsImage
<1>10. Headed(r, b, EhdrSize, shoff) /\ r.phdrs = b.phdrs /\ r.shdrs = b.shdrs
  <2>1. EhdrSize \in Nat
    BY DEF EhdrSize
  <2>2. \A o, p \in Nat :
          LET w == [b EXCEPT !.ehdr.phoff = o, !.ehdr.shoff = p]
          IN Headed(w, b, o, p) /\ w.phdrs = b.phdrs /\ w.shdrs = b.shdrs
    BY <1>9, HeaderAt
  <2> QED
    BY <2>1, <2>2
<1> HIDE DEF r
<1>11. /\ b.ehdr = img.ehdr /\ b.phdrs = ps /\ b.shdrs = ss /\ b.data = img.data
       /\ b.dynamic = img.dynamic
  BY <1>8 DEF Fields
<1>12. \A i \in DOMAIN img.shdrs : ss[i].type = img.shdrs[i].type /\ ss[i].size = img.shdrs[i].size
  BY <1>3, HeaderRaised, ImageDomains DEF RaisedList
<1>13. Headed(r, img, EhdrSize, shoff)
  <2>1. /\ Len(ps) = Len(img.phdrs) /\ Len(ss) = Len(img.shdrs)
        /\ DOMAIN ss = DOMAIN img.shdrs
    BY <1>3 DEF RaisedList
  <2> QED
    BY <1>10, <1>11, <1>12, <2>1 DEF Headed
<1>14. MovedUp(r, img, shift, shoff)
  BY <1>3, <1>10, <1>11, <1>13 DEF MovedUp
<1> QED
  BY <1>2, <1>14

-----------------------------------------------------------------------------
(* The new segments in front.                                              *)
LEMMA LoadsRotated ==
  ASSUME NEW phdrs \in Seq(PhdrCell), NEW n \in 1 .. 2, n <= Len(phdrs),
         \E i \in 1 .. Len(phdrs) - n : IsLoad(phdrs[i])
  PROVE  /\ RotateLoads(phdrs, n) \in Seq(PhdrCell) /\ Len(RotateLoads(phdrs, n)) = Len(phdrs)
         /\ Range(RotateLoads(phdrs, n)) \subseteq Range(phdrs)
<1> DEFINE S == {i \in 1 .. Len(phdrs) : IsLoad(phdrs[i])}
           head == SelectInSeq(phdrs, IsLoad)
           tail == Len(phdrs)
           a == SubSeq(phdrs, 1, head - 1)
           b == SubSeq(phdrs, tail - n + 1, tail)
           c == SubSeq(phdrs, head, tail - n)
           d == a \o b
           r == d \o c
<1>1. tail \in Nat /\ DOMAIN phdrs = 1 .. tail /\ \A i \in 1 .. tail : phdrs[i] \in PhdrCell
  OBVIOUS
<1>2. head \in 1 .. tail - n
  <2>1. S # {} /\ S \subseteq 1 .. tail
    BY <1>1
  <2>2. head = Min(S)
    BY <1>1, <2>1 DEF SelectInSeq
  <2>3. PICK i \in 1 .. tail - n : IsLoad(phdrs[i])
    OBVIOUS
  <2>4. i \in S
    BY <1>1, <2>3
  <2> HIDE DEF head, tail, S
  <2>5. Min(S) \in S /\ \A y \in S : Min(S) <= y
    BY <1>1, <2>1, LeastIndex
  <2>6. head \in 1 .. tail /\ head <= i
    BY <2>1, <2>2, <2>4, <2>5
  <2> QED
    BY <1>1, <2>6
<1>3. RotateLoads(phdrs, n) = r
  BY DEF RotateLoads
<1> HIDE DEF head, S
<1>4. /\ IsList(a) /\ Len(a) = head - 1 /\ DOMAIN a = 1 .. head - 1
      /\ \A i \in 1 .. head - 1 : a[i] \in Range(phdrs)
  <2>1. \A k, m \in Int :
          LET l == IF k <= m THEN m - k + 1 ELSE 0
          IN /\ IsList(SubSeq(phdrs, k, m)) /\ Len(SubSeq(phdrs, k, m)) = l
             /\ DOMAIN SubSeq(phdrs, k, m) = 1 .. l
             /\ \A i \in 1 .. l : SubSeq(phdrs, k, m)[i] = phdrs[k + i - 1]
    BY ListSub
  <2>2. head - 1 \in Int /\ 1 \in Int
    BY <1>2
  <2>3. /\ IsList(a) /\ Len(a) = (IF 1 <= head - 1 THEN (head - 1) - 1 + 1 ELSE 0)
        /\ DOMAIN a = 1 .. (IF 1 <= head - 1 THEN (head - 1) - 1 + 1 ELSE 0)
        /\ \A i \in 1 .. (IF 1 <= head - 1 THEN (head - 1) - 1 + 1 ELSE 0) : a[i] = phdrs[1 + i - 1]
    BY <2>1, <2>2
  <2>4. (IF 1 <= head - 1 THEN (head - 1) - 1 + 1 ELSE 0) = head - 1
    BY <1>2
  <2> HIDE DEF a
  <2>5. \A i \in 1 .. head - 1 : a[i] = phdrs[i] /\ i \in 1 .. tail
    BY <1>1, <1>2, <2>3, <2>4
  <2> QED
    BY <1>1, <2>3, <2>4, <2>5 DEF Range
<1>5. /\ IsList(b) /\ Len(b) = n /\ DOMAIN b = 1 .. n
      /\ \A i \in 1 .. n : b[i] \in Range(phdrs)
  <2>1. \A k, m \in Int :
          LET l == IF k <= m THEN m - k + 1 ELSE 0
          IN /\ IsList(SubSeq(phdrs, k, m)) /\ Len(SubSeq(phdrs, k, m)) = l
             /\ DOMAIN SubSeq(phdrs, k, m) = 1 .. l
             /\ \A i \in 1 .. l : SubSeq(phdrs, k, m)[i] = phdrs[k + i - 1]
    BY ListSub
  <2> DEFINE k == tail - n + 1
             l == IF k <= tail THEN tail - k + 1 ELSE 0
  <2>2. k \in Int /\ tail \in Int /\ l = n
    BY <1>1
  <2>3. IsList(b) /\ Len(b) = l /\ DOMAIN b = 1 .. l /\ \A i \in 1 .. l : b[i] = phdrs[k + i - 1]
    BY <2>1, <2>2
  <2> HIDE DEF b
  <2>4. \A i \in 1 .. n : k + i - 1 \in 1 .. tail
    BY <1>1
  <2> HIDE DEF k, l
  <2> QED
    BY <1>1, <2>2, <2>3, <2>4 DEF Range
<1>6. /\ IsList(c) /\ Len(c) = tail - n - head + 1 /\ DOMAIN c = 1 .. tail - n - head + 1
      /\ \A i \in 1 .. tail - n - head + 1 : c[i] \in Range(phdrs)
  <2>1. \A k, m \in Int :
          LET l == IF k <= m THEN m - k + 1 ELSE 0
          IN /\ IsList(SubSeq(phdrs, k, m)) /\ Len(SubSeq(phdrs, k, m)) = l
             /\ DOMAIN SubSeq(phdrs, k, m) = 1 .. l
             /\ \A i \in 1 .. l : SubSeq(phdrs, k, m)[i] = phdrs[k + i - 1]
    BY ListSub
  <2> DEFINE m == tail - n
             l == IF head <= m THEN m - head + 1 ELSE 0
  <2>2. m \in Int /\ head \in Int /\ l = tail - n - head + 1
    BY <1>1, <1>2
  <2>3. IsList(c) /\ Len(c) = l /\ DOMAIN c = 1 .. l /\ \A i \in 1 .. l : c[i] = phdrs[head + i - 1]
    BY <2>1, <2>2
  <2> HIDE DEF c
  <2>4. \A i \in 1 .. tail - n - head + 1 : head + i - 1 \in 1 .. tail
    BY <1>1, <1>2
  <2> HIDE DEF m, l
  <2> QED
    BY <1>1, <2>2, <2>3, <2>4 DEF Range
<1> HIDE DEF a, b, c
<1>7. IsList(d) /\ IsJoin(d, a, b)
  BY <1>4, <1>5, ListConcat
<1> HIDE DEF d
<1>8. IsList(r) /\ IsJoin(r, d, c)
  BY <1>6, <1>7, ListConcat
<1> HIDE DEF r
<1>9. \A i \in DOMAIN d : d[i] \in Range(phdrs)
  BY <1>4, <1>5, <1>7 DEF IsJoin
<1>10. \A i \in DOMAIN r : r[i] \in Range(phdrs)
  BY <1>6, <1>8, <1>9 DEF IsJoin
<1>11. Len(r) = tail
  <2>1. Len(r) = Len(d) + Len(c) /\ Len(d) = Len(a) + Len(b)
    BY <1>7, <1>8 DEF IsJoin
  <2> QED
    BY <1>1, <1>2, <1>4, <1>5, <1>6, <2>1
<1>12. Range(phdrs) \subseteq PhdrCell
  BY <1>1 DEF Range
<1>13. r \in Seq(PhdrCell)
  BY <1>8, <1>10, <1>12, ListTyped
<1>14. Range(r) \subseteq Range(phdrs)
  BY <1>10 DEF Range
<1> QED
  BY <1>3, <1>11, <1>13, <1>14

-----------------------------------------------------------------------------
(* Moving the new segments in front of the old ones loses none and adds    *)
(* none.                                                                   *)
LEMMA Rotated ==
  ASSUME NEW placed, IsImage(placed), NEW n \in 1 .. 2, n <= Len(placed.phdrs),
         \E i \in 1 .. Len(placed.phdrs) - n : IsLoad(placed.phdrs[i])
  PROVE  LET r == [placed EXCEPT !.phdrs = RotateLoads(placed.phdrs, n)]
         IN /\ IsImage(r) /\ r.ehdr = placed.ehdr /\ r.shdrs = placed.shdrs /\ r.data = placed.data
            /\ r.dynamic = placed.dynamic /\ Len(r.phdrs) = Len(placed.phdrs)
            /\ Range(r.phdrs) \subseteq Range(placed.phdrs)
<1> DEFINE ps == RotateLoads(placed.phdrs, n)
           r == [placed EXCEPT !.phdrs = ps]
<1>1. /\ ps \in Seq(PhdrCell) /\ Len(ps) = Len(placed.phdrs)
      /\ Range(ps) \subseteq Range(placed.phdrs)
  BY LoadsRotated DEF IsImage
<1> HIDE DEF ps
<1>2. Fields(r, placed.ehdr, ps, placed.shdrs, placed.data, placed.dynamic, placed.err)
  BY ImageWith
<1> HIDE DEF r
<1>3. IsImage(r)
  BY <1>1, <1>2 DEF IsImage, Fields
<1>4. /\ IsImage(r) /\ r.ehdr = placed.ehdr /\ r.shdrs = placed.shdrs /\ r.data = placed.data
      /\ r.dynamic = placed.dynamic /\ Len(r.phdrs) = Len(placed.phdrs)
      /\ Range(r.phdrs) \subseteq Range(placed.phdrs)
  BY <1>1, <1>2, <1>3 DEF Fields
<1> QED
  BY <1>4 DEF r, ps

(* Where the headers of a prepended region are.                            *)
HeadersIn(set, f, region, h, shift, shoff) ==
  LET pht == 1 + Len(set.img.phdrs) + region.loads
  IN /\ pht <= h /\ h <= region.dataLen /\ region.dataLen <= region.len /\ region.len <= shift
     /\ shoff >= pht
     /\ shoff + Len(set.img.shdrs) <= h \/ shoff >= shift + Len(f)

(* The tables in front of the region and of the file that moved up.        *)
LEMMA TablesPrepended ==
  ASSUME NEW f, Coherent(f), NEW set, Starting(set, f), NEW region, NEW h \in Nat,
         region.loads \in 1 .. 2, region.dataLen \in Nat, region.len \in Nat,
         NEW shift \in Nat, NEW shoff \in Nat, HeadersIn(set, f, region, h, shift, shoff),
         NEW r, r.ehdr.phoff = 1, r.ehdr.shoff = shoff,
         Len(r.phdrs) = Len(set.img.phdrs) + region.loads, Len(r.shdrs) = Len(set.img.shdrs)
  PROVE  TablesBeside(r, 0 + h, 0 + region.len, shift + 1, shift + Len(f))
<1> DEFINE pn == Len(set.img.phdrs)
           sn == Len(set.img.shdrs)
           l == region.loads
           len == region.len
           x == region.dataLen
           n == Len(f)
<1>1. pn \in Nat /\ sn \in Nat
  BY Relocating, ImageDomains
<1>2. n \in Nat
  BY OldParts
<1>3. /\ 1 + pn + l <= h /\ h <= x /\ x <= len /\ len <= shift /\ shoff >= 1 + pn + l
      /\ shoff + sn <= h \/ shoff >= shift + n
  BY DEF HeadersIn
<1>4. r.ehdr.phoff = 1 /\ r.ehdr.shoff = shoff /\ Len(r.phdrs) = pn + l /\ Len(r.shdrs) = sn
  OBVIOUS
<1>5. l \in 1 .. 2 /\ len \in Nat /\ x \in Nat
  OBVIOUS
<1> HIDE DEF pn, sn, l, len, x, n
<1>6. /\ 1 >= 1 /\ 1 + (pn + l) <= 0 + h /\ 1 + (pn + l) <= shift + 1
      /\ shoff >= 1 + (pn + l)
      /\ \/ shoff + sn <= 0 + h /\ shoff + sn <= shift + 1
         \/ shoff >= 0 + len /\ shoff >= shift + n
  BY <1>1, <1>2, <1>3, <1>5
<1>7. TablesBeside(r, 0 + h, 0 + len, shift + 1, shift + n)
  BY <1>4, <1>6 DEF TablesBeside
<1> QED
  BY <1>7 DEF len, n

(* No segment begins at the new headers: the region's begin at its start   *)
(* and behind its data, the others have moved up past the region.          *)
LEMMA SegmentsOff ==
  ASSUME NEW f, Coherent(f), NEW set, Starting(set, f), NEW region, NEW h \in Nat,
         region.loads \in 1 .. 2, region.dataLen \in Nat, region.len \in Nat,
         NEW shift \in Nat, NEW shoff \in Nat, HeadersIn(set, f, region, h, shift, shoff),
         NEW placed, SegmentsFrom(placed, set.img, shift, {0, 0 + region.dataLen})
  PROVE  /\ shift >= 1 + Len(set.img.phdrs) + region.loads /\ shift >= 2 /\ h >= 2
         /\ \A l \in Range(placed.phdrs) : l.offset # 1
<1> DEFINE pn == Len(set.img.phdrs)
<1>1. pn \in Nat /\ \A c \in Range(set.img.phdrs) : c \in PhdrCell
  BY Relocating, ImageDomains DEF Range
<1>2. /\ 1 + pn + region.loads <= h /\ h <= region.dataLen /\ region.dataLen <= region.len
      /\ region.len <= shift
  BY DEF HeadersIn
<1>3. shift >= 1 + pn + region.loads /\ shift >= 2 /\ region.dataLen >= 2 /\ h >= 2
  <2>1. \A p, x, len \in Nat : \A l \in 1 .. 2 :
          (1 + p + l <= h /\ h <= x /\ x <= len /\ len <= shift) =>
            shift >= 1 + p + l /\ shift >= 2 /\ x >= 2 /\ h >= 2
    OBVIOUS
  <2> HIDE DEF pn
  <2> QED
    BY <1>1, <1>2, <2>1 DEF pn
<1>4. \A l \in Range(placed.phdrs) : l.offset # 1
  <2> SUFFICES ASSUME NEW l \in Range(placed.phdrs) PROVE l.offset # 1
    OBVIOUS
  <2>1. CASE l.offset \in {0, 0 + region.dataLen}
    BY <1>3, <2>1
  <2>2. CASE \E c \in Range(set.img.phdrs) : l = Raise(c, shift)
    <3>1. PICK c \in Range(set.img.phdrs) : l = Raise(c, shift)
      BY <2>2
    <3>2. c \in PhdrCell
      BY <1>1
    <3>3. l.offset = c.offset + shift /\ c.offset \in Nat
      BY <3>1, <3>2, HeaderRaised DEF PhdrCell
    <3> QED
      BY <1>3, <3>3
  <2> QED
    BY <2>1, <2>2 DEF SegmentsFrom
<1> QED
  BY <1>3, <1>4

(* Without sections the dynamic segment is past the new headers.           *)
LEMMA SegmentPast ==
  ASSUME NEW f, Coherent(f), NEW set, Starting(set, f), NEW region, NEW h \in Nat,
         region.loads \in 1 .. 2, region.dataLen \in Nat, region.len \in Nat,
         NEW shift \in Nat, NEW shoff \in Nat, HeadersIn(set, f, region, h, shift, shoff),
         NEW placed, placed.ehdr.phoff = 1,
         Len(placed.phdrs) = Len(set.img.phdrs) + region.loads,
         SegmentsFrom(placed, set.img, shift, {0, 0 + region.dataLen}),
         set.img.shdrs = <<>>, NEW q \in Dynamics(set.img.phdrs)
  PROVE  Readably(placed, q, shift)
<1> DEFINE pn == Len(set.img.phdrs)
<1>1. pn \in Nat
  BY Relocating, ImageDomains
<1>2. shift >= 1 + pn + region.loads /\ \A l \in Range(placed.phdrs) : l.offset # 1
  BY SegmentsOff
<1>3. q \in PhdrCell /\ q.offset \in Nat
  BY SegmentBefore DEF PhdrCell
<1>4. 1 + (Len(set.img.phdrs) + region.loads) <= Raise(q, shift).offset
  <2>1. Raise(q, shift).offset = q.offset + shift
    BY <1>3, HeaderRaised
  <2>2. \A p, o \in Nat : \A l \in 1 .. 2 : shift >= 1 + p + l => 1 + (p + l) <= o + shift
    OBVIOUS
  <2> HIDE DEF pn
  <2>3. 1 + (pn + region.loads) <= q.offset + shift
    BY <1>1, <1>2, <1>3, <2>2
  <2>4. 1 + (Len(set.img.phdrs) + region.loads) <= q.offset + shift
    BY <2>3 DEF pn
  <2> QED
    BY <2>1, <2>4
<1> QED
  BY <1>2, <1>4 DEF Readably

-----------------------------------------------------------------------------
(* The last step of the prepend layout.                                    *)
PrependedFile(set, f, region, shift, shoff, vaddr, size, align, v, total) ==
  LET placed == Emit(MoveUp(set.img, shift, shoff), region, 0, vaddr, size, align)
      rotated == [placed EXCEPT !.phdrs = RotateLoads(placed.phdrs, region.loads)]
  IN Finish(FixAll(set.img, rotated, v, set.relocate), f, shift, total)

(* The new file has room for all of the old one.                           *)
Covering(f, shift, total) == total >= shift + Len(f)

(* The region put in front of everything that stays in the file.           *)
LEMMA RegionPrepended ==
  ASSUME NEW f, Coherent(f), NEW set, Starting(set, f), Loads(set.img.phdrs) # {},
         NEW region, NEW headSize \in [1 .. 2 -> Nat],
         Region(region, set.img, set.relocate, headSize),
         NEW shift \in Nat, NEW shoff \in Nat,
         HeadersIn(set, f, region, headSize[region.loads], shift, shoff),
         NEW vaddr \in Nat, NEW size \in Nat, NEW align \in Nat, NEW v \in Nat, NEW total \in Nat,
         Covering(f, shift, total)
  PROVE  Outcome(PrependedFile(set, f, region, shift, shoff, vaddr, size, align, v, total), f)
<1> DEFINE e == set.img
           loads == region.loads
           h == headSize[loads]
           moved == MoveUp(e, shift, shoff)
           placed == Emit(moved, region, 0, vaddr, size, align)
           rotated == [placed EXCEPT !.phdrs = RotateLoads(placed.phdrs, loads)]
           r == FixAll(e, rotated, v, set.relocate)
<1>1. /\ IsImage(e) /\ set.relocate \subseteq DOMAIN e.shdrs
      /\ Len(e.phdrs) \in Nat /\ Len(e.shdrs) \in Nat
      /\ DOMAIN e.phdrs = 1 .. Len(e.phdrs)
      /\ \A i \in DOMAIN e.phdrs : e.phdrs[i] \in PhdrCell
      /\ \A i \in DOMAIN e.shdrs : e.shdrs[i] \in ShdrCell
  BY Relocating, ImageDomains
<1>2. /\ loads \in 1 .. 2 /\ region.dataLen \in Nat /\ region.len \in Nat
      /\ DOMAIN region.at = set.relocate
  BY DEF Region
<1>3. h \in Nat
  BY <1>2
<1>4. MovedUp(moved, e, shift, shoff)
  BY <1>1, ImageMovedUp
<1> HIDE DEF h, moved
<1>5. /\ Headed(moved, e, 1, shoff) /\ RaisedList(moved.phdrs, e.phdrs, shift)
      /\ RaisedList(moved.shdrs, e.shdrs, shift)
  BY <1>4 DEF MovedUp, EhdrSize
<1>6. EmittedInto(placed, moved, set, region, 0)
  <2>1. \A o, w, s, a \in Nat :
          EmittedInto(Emit(moved, region, o, w, s, a), moved, set, region, o)
    BY <1>5, RegionEmitted
  <2> QED
    BY <2>1
<1> HIDE DEF placed
<1>7. /\ Emitted(placed, moved, region, 0) /\ Arranged(placed, e, set.relocate) /\ IsImage(placed)
      /\ placed.ehdr.phoff = 1 /\ placed.ehdr.shoff = shoff
      /\ Len(placed.phdrs) = Len(e.phdrs) + loads
  BY <1>5, <1>6 DEF EmittedInto, Headed, Arranged
<1>8. \E i \in 1 .. Len(placed.phdrs) - loads : IsLoad(placed.phdrs[i])
  <2>1. PICK i \in DOMAIN e.phdrs : IsLoad(e.phdrs[i])
    BY DEF Loads
  <2>2. moved.phdrs[i] = Raise(e.phdrs[i], shift) /\ DOMAIN moved.phdrs = DOMAIN e.phdrs
    BY <1>5 DEF RaisedList
  <2>3. placed.phdrs[i] = moved.phdrs[i]
    BY <1>7, <2>2 DEF Emitted
  <2>4. IsLoad(placed.phdrs[i])
    BY <1>1, <2>1, <2>2, <2>3, HeaderRaised DEF IsLoad
  <2>5. i \in 1 .. Len(placed.phdrs) - loads
    BY <1>1, <1>2, <1>7
  <2> QED
    BY <2>4, <2>5
<1>9. /\ IsImage(rotated) /\ rotated.ehdr = placed.ehdr /\ rotated.shdrs = placed.shdrs
      /\ rotated.data = placed.data /\ rotated.dynamic = placed.dynamic
      /\ Len(rotated.phdrs) = Len(placed.phdrs) /\ Range(rotated.phdrs) \subseteq Range(placed.phdrs)
  <2>1. loads <= Len(placed.phdrs)
    BY <1>1, <1>2, <1>7
  <2> QED
    BY <1>2, <1>7, <1>8, <2>1, Rotated
<1> HIDE DEF rotated
<1>10. Arranged(rotated, e, set.relocate)
  BY <1>7, <1>9 DEF Arranged
<1>11. FixedUp(rotated, r)
  <2>1. Len(e.shdrs) = Len(rotated.shdrs) /\ Len(e.phdrs) <= Len(rotated.phdrs)
    <3>1. Len(e.shdrs) = Len(rotated.shdrs)
      BY <1>10 DEF Arranged
    <3>2. Len(rotated.phdrs) = Len(e.phdrs) + loads
      BY <1>7, <1>9
    <3>3. \A n \in Nat : \A l \in 1 .. 2 : n <= n + l
      OBVIOUS
    <3>4. Len(e.phdrs) <= Len(e.phdrs) + loads
      BY <1>1, <1>2, <3>3
    <3> QED
      BY <3>1, <3>2, <3>4
  <2> QED
    BY <1>1, <1>9, <2>1, AllFixed
<1> HIDE DEF r
<1>12. MovedTo(rotated, set, region, 0, shift)
  <2>1. DOMAIN moved.shdrs = DOMAIN e.shdrs
        /\ \A i \in DOMAIN e.shdrs : moved.shdrs[i].offset = e.shdrs[i].offset + shift
    BY <1>1, <1>5, HeaderRaised DEF RaisedList
  <2>2. \A i \in DOMAIN e.shdrs :
          /\ i \in set.relocate => rotated.shdrs[i].offset = 0 + region.at[i]
          /\ i \notin set.relocate => rotated.shdrs[i] = moved.shdrs[i]
    BY <1>2, <1>7, <1>9, <2>1 DEF Emitted
  <2> QED
    BY <2>1, <2>2 DEF MovedTo
<1>13. Settled(r, set, region, 0, shift) /\ SizesSynced(r)
  <2>1. \A off, s \in Nat : MovedTo(rotated, set, region, off, s) =>
          Settled(r, set, region, off, s) /\ SizesSynced(r)
    BY <1>2, <1>10, <1>11, LayoutSettled
  <2> QED
    BY <1>12, <2>1
<1>14. Len(f) \in Nat /\ shift + Len(f) \in Nat
       /\ shift + Len(f) >= shift + (IF set.start = None THEN Len(f) ELSE f[1].phoff)
  BY OldParts
<1>15. Beside(r, set.relocate, 0 + h, 0 + region.len, shift + 1, shift + Len(f))
  <2>1. \A off, s, hi \in Nat :
          (/\ Settled(r, set, region, off, s)
           /\ hi >= s + (IF set.start = None THEN Len(f) ELSE f[1].phoff)) =>
             Beside(r, set.relocate, off + headSize[region.loads], off + region.len, s + 1, hi)
    BY SectionsBeside
  <2> QED
    BY <1>13, <1>14, <2>1 DEF h
<1>16. HeadersIn(set, f, region, h, shift, shoff)
  BY DEF h
<1>17. Tidy(r)
  <2>1. /\ IsImage(r) /\ r.ehdr.phoff = 1 /\ r.ehdr.shoff = shoff
        /\ Len(r.phdrs) = Len(e.phdrs) + loads /\ Len(r.shdrs) = Len(e.shdrs)
    BY <1>7, <1>9, <1>10, <1>11 DEF FixedUp, Arranged
  <2>2. TablesBeside(r, 0 + h, 0 + region.len, shift + 1, shift + Len(f))
    BY <1>2, <1>3, <1>16, <2>1, TablesPrepended
  <2>3. 0 + h \in Nat /\ 0 + region.len \in Nat /\ shift + 1 \in Nat
        /\ 0 + h >= 1 /\ shift + 1 >= 1 /\ 0 + region.len <= shift + 1
    <3>1. /\ 1 + Len(e.phdrs) + loads <= h /\ h <= region.dataLen
          /\ region.dataLen <= region.len /\ region.len <= shift
      BY <1>16 DEF HeadersIn
    <3>2. \A p, x, len \in Nat : \A l \in 1 .. 2 :
            (1 + p + l <= h /\ h <= x /\ x <= len /\ len <= shift) =>
              /\ 0 + h \in Nat /\ 0 + len \in Nat /\ shift + 1 \in Nat
              /\ 0 + h >= 1 /\ shift + 1 >= 1 /\ 0 + len <= shift + 1
      BY <1>3
    <3> QED
      BY <1>1, <1>2, <3>1, <3>2
  <2> QED
    BY <1>14, <1>15, <2>1, <2>2, <2>3, TidyRegion
<1>18. SegmentsFrom(rotated, e, shift, {0, 0 + region.dataLen})
  <2> SUFFICES ASSUME NEW p \in Range(rotated.phdrs)
               PROVE  \/ p.type = "LOAD" /\ p.offset \in {0, 0 + region.dataLen}
                      \/ \E q \in Range(e.phdrs) : p = Raise(q, shift)
    BY DEF SegmentsFrom
  <2>1. p \in Range(moved.phdrs) \/ NewSegment(p, 0, region.dataLen)
    BY <1>7, <1>9 DEF Emitted
  <2>2. p \in Range(moved.phdrs) => \E q \in Range(e.phdrs) : p = Raise(q, shift)
    BY <1>5 DEF Range, RaisedList
  <2> QED
    BY <2>1, <2>2 DEF NewSegment
<1>19. e.shdrs = <<>> => \A q \in Dynamics(e.phdrs) : Readably(rotated, q, shift)
  <2> SUFFICES ASSUME e.shdrs = <<>>, NEW q \in Dynamics(e.phdrs)
               PROVE  Readably(rotated, q, shift)
    OBVIOUS
  <2>1. rotated.ehdr.phoff = 1 /\ Len(rotated.phdrs) = Len(e.phdrs) + loads
    BY <1>7, <1>9
  <2> QED
    BY <1>2, <1>3, <1>16, <1>18, <2>1, SegmentPast
<1>20. PriorRegion(r) = 0
  <2> SUFFICES ASSUME PriorRegion(r) # 0 PROVE FALSE
    OBVIOUS
  <2> DEFINE i == PriorRegion(r)
  <2>1. i \in DOMAIN r.phdrs /\ IsLoad(r.phdrs[i]) /\ r.phdrs[i].offset = 1
    BY <1>7, <1>9, <1>11, RegionFound DEF FixedUp
  <2> HIDE DEF i
  <2>2. i \in DOMAIN rotated.phdrs /\ IsLoad(rotated.phdrs[i])
    BY <1>11, <2>1 DEF FixedUp, IsLoad
  <2>3. \/ r.phdrs[i].offset = rotated.phdrs[i].offset
        \/ \E j \in DOMAIN rotated.shdrs : r.phdrs[i].offset = rotated.shdrs[j].offset
    BY <1>11, <2>2 DEF FixedUp
  <2>4. shift >= 2 /\ h >= 2 /\ rotated.phdrs[i].offset # 1
    <3>1. shift >= 2 /\ h >= 2 /\ \A l \in Range(rotated.phdrs) : l.offset # 1
      BY <1>2, <1>3, <1>16, <1>18, SegmentsOff
    <3> QED
      BY <2>2, <3>1 DEF Range
  <2>5. ASSUME NEW j \in DOMAIN rotated.shdrs PROVE rotated.shdrs[j].offset # 1
    <3>1. j \in DOMAIN e.shdrs
      BY <1>1, <1>9, <1>10, ImageDomains DEF Arranged
    <3>2. CASE j \in set.relocate
      <4>1. rotated.shdrs[j].offset = 0 + region.at[j]
        BY <1>12, <3>1, <3>2 DEF MovedTo
      <4>2. region.at[j] \in Nat /\ h <= region.at[j]
        BY <3>2 DEF Region, h
      <4> QED
        BY <1>3, <2>4, <4>1, <4>2
    <3>3. CASE j \notin set.relocate
      <4>1. rotated.shdrs[j].offset = e.shdrs[j].offset + shift
        BY <1>12, <3>1, <3>3 DEF MovedTo
      <4>2. e.shdrs[j].offset \in Nat
        BY <1>1, <3>1 DEF ShdrCell
      <4> QED
        BY <2>4, <4>1, <4>2
    <3> QED
      BY <3>2, <3>3
  <2> QED
    BY <2>1, <2>3, <2>4, <2>5
<1>21. Skirts(r, f, shift, total)
  <2> SUFFICES ASSUME NEW x \in Nat, NEW n \in Nat, Idle(f, x, n)
               PROVE  Aside(r, total, x + shift, n)
    BY DEF Skirts
  <2> DEFINE y == x + shift
             pn == Len(r.phdrs)
             sn == Len(r.shdrs)
             end == shift + Len(f)
  <2>1. y \in Nat /\ y >= shift /\ y + n <= end /\ end \in Nat /\ end <= total
    BY <1>14 DEF Idle, Aside, Covering
  <2>2. /\ IsImage(r) /\ r.ehdr.phoff = 1 /\ r.ehdr.shoff = shoff
        /\ pn = Len(e.phdrs) + loads /\ sn = Len(e.shdrs)
    BY <1>7, <1>9, <1>10, <1>11 DEF FixedUp, Arranged
  <2>3. pn \in Nat /\ sn \in Nat
    BY <2>2, ImageDomains
  <2>4. /\ 1 + pn <= h /\ h <= region.len /\ region.len <= shift
        /\ shoff + sn <= h \/ shoff >= end
    <3>1. /\ 1 + Len(e.phdrs) + loads <= h /\ h <= region.dataLen
          /\ region.dataLen <= region.len /\ region.len <= shift
          /\ shoff + Len(e.shdrs) <= h \/ shoff >= shift + Len(f)
      BY <1>16 DEF HeadersIn
    <3>2. 1 + Len(e.phdrs) + loads = 1 + (Len(e.phdrs) + loads)
      <4>1. \A p \in Nat : \A l \in 1 .. 2 : 1 + p + l = 1 + (p + l)
        OBVIOUS
      <4> QED
        BY <1>1, <1>2, <4>1
    <3> QED
      BY <1>2, <1>3, <2>2, <3>1, <3>2
  <2>5. ASSUME NEW i \in Solid(r)
        PROVE  Clear(r.shdrs[i].offset, r.shdrs[i].size, x + shift, n)
    <3>1. 0 + h \in Nat /\ 0 + region.len \in Nat /\ 0 + region.len <= x + shift
      <4>1. \A l \in Nat : l <= shift => 0 + l <= x + shift
        OBVIOUS
      <4>2. 0 + h \in Nat /\ 0 + region.len \in Nat
        BY <1>2, <1>3
      <4> QED
        BY <1>2, <2>4, <4>1, <4>2
    <3> QED
      BY <1>13, <1>15, <2>2, <3>1, SectionsSkirt
  <2> HIDE DEF y, pn, sn, end
  <2>6. Clear(0, 1, y, n) /\ Clear(1, pn, y, n) /\ Clear(shoff, sn, y, n)
    BY <1>2, <1>3, <2>1, <2>3, <2>4 DEF Clear
  <2>7. y + n <= total
    BY <2>1
  <2> QED
    BY <1>20, <2>2, <2>5, <2>6, <2>7 DEF Aside, y, pn, sn
<1>22. Outcome(Finish(r, f, shift, total), f)
  BY <1>10, <1>11, <1>13, <1>18, <1>17, <1>19, <1>21, LayoutFollows
<1> QED
  BY <1>22 DEF r, rotated, placed, moved, PrependedFile

-----------------------------------------------------------------------------
(* relayout_shift answers with a usable file, with verify's refusal, or    *)
(* for want of room.                                                       *)
LEMMA LaidByPrepending ==
  ASSUME NEW f, Coherent(f), NEW set, Starting(set, f), NEW keepTail \in BOOLEAN
  PROVE  Outcome(PrependLayout(set, f, keepTail), f)
<1>1. CASE Loads(set.img.phdrs) = {}
  BY <1>1 DEF PrependLayout, Failure, Outcome
<1>2. CASE Loads(set.img.phdrs) # {}
  <2> DEFINE e == set.img
             shtSize == IF keepTail THEN RoundUp(Len(e.shdrs), SecAlign) ELSE 0
             headSize == [n \in 1 .. 2 |-> PhtSize(e, n) + shtSize]
             region == Plan(e, set.relocate, headSize)
             align == Max({Page} \cup {p.align : p \in Loads(e.phdrs)})
             shift == RoundUp(region.len, align)
             base == Min({p.vaddr : p \in Loads(e.phdrs)})
             loads == region.loads
             shoff == IF keepTail THEN PhtSize(e, loads) ELSE RoundUp(Len(f) + shift, SecAlign)
             total == IF keepTail THEN Len(f) + shift ELSE shoff + Len(e.shdrs)
             size == IF loads = 1 THEN shift ELSE region.dataLen
             g == PrependedFile(set, f, region, shift, shoff, base - shift, size, align,
                                base - shift + EhdrSize, total)
  <2>1. /\ IsImage(e) /\ set.relocate \subseteq DOMAIN e.shdrs
        /\ \A i \in set.relocate : SectionLen(e, i) \in Nat
        /\ Len(e.phdrs) \in Nat /\ Len(e.shdrs) \in Nat
    BY Relocating, ImageDomains
  <2>2. align \in Nat /\ base \in Nat
    BY <1>2, <2>1, SegmentNumbers
  <2> HIDE DEF align, base
  <2>3. \A n \in 1 .. 2 : /\ PhtSize(e, n) \in Nat /\ PhtSize(e, n) >= 1 + Len(e.phdrs) + n
                          /\ RoundUp(Len(e.shdrs), SecAlign) \in Nat
                          /\ RoundUp(Len(e.shdrs), SecAlign) >= Len(e.shdrs)
    BY <2>1, TableSizes
  <2>4. /\ shtSize \in Nat /\ (keepTail => shtSize >= Len(e.shdrs))
        /\ headSize \in [1 .. 2 -> Nat]
        /\ \A n \in 1 .. 2 : headSize[n] = PhtSize(e, n) + shtSize
    <3>1. 1 \in 1 .. 2
      OBVIOUS
    <3>2. shtSize \in Nat /\ (keepTail => shtSize >= Len(e.shdrs))
      BY <2>3, <3>1
    <3> HIDE DEF shtSize
    <3> QED
      BY <2>3, <3>2
  <2> HIDE DEF shtSize, headSize
  <2>5. Region(region, e, set.relocate, headSize)
    BY <2>1, <2>4, Planned
  <2> HIDE DEF region
  <2>6. /\ loads \in 1 .. 2 /\ region.dataLen \in Nat /\ region.len \in Nat
        /\ headSize[loads] <= region.dataLen /\ region.dataLen <= region.len
    BY <2>5 DEF Region
  <2>7. shift \in Nat /\ shift >= region.len
    BY <2>2, <2>6, RoundUpBound
  <2> HIDE DEF shift
  <2>8. Len(f) \in Nat
    BY OldParts
  <2>9. /\ PhtSize(e, loads) \in Nat /\ PhtSize(e, loads) >= 1 + Len(e.phdrs) + loads
        /\ headSize[loads] = PhtSize(e, loads) + shtSize
    BY <2>3, <2>4, <2>6
  <2>10. /\ shoff \in Nat
         /\ keepTail => shoff = PhtSize(e, loads)
         /\ ~keepTail => shoff >= Len(f) + shift
    <3>1. \A v \in Nat : RoundUp(v, SecAlign) \in Nat /\ RoundUp(v, SecAlign) >= v
      BY RoundUpBound, LayoutAssumption
    <3>2. Len(f) + shift \in Nat
      BY <2>7, <2>8
    <3> QED
      BY <2>9, <3>1, <3>2
  <2> HIDE DEF shoff
  <2>11. HeadersIn(set, f, region, headSize[loads], shift, shoff)
    <3> DEFINE p == PhtSize(e, loads)
               h == headSize[loads]
               pn == Len(e.phdrs)
               sn == Len(e.shdrs)
               x == region.dataLen
               len == region.len
               n == Len(f)
    <3>1. p \in Nat /\ p >= 1 + pn + loads /\ h = p + shtSize
      BY <2>9
    <3>2. h <= x /\ x <= len /\ x \in Nat /\ len \in Nat /\ loads \in 1 .. 2
      BY <2>6
    <3>3. len <= shift /\ n \in Nat /\ pn \in Nat /\ sn \in Nat
      BY <2>1, <2>6, <2>7, <2>8
    <3>4. shtSize \in Nat /\ (keepTail => shtSize >= sn)
      BY <2>4
    <3>5. (keepTail => shoff = p) /\ (~keepTail => shoff >= n + shift)
      BY <2>10
    <3> HIDE DEF p, h, pn, sn, x, len, n, loads
    <3>6. 1 + pn + loads <= h
      BY <3>1, <3>2, <3>3, <3>4
    <3>7. shoff >= 1 + pn + loads
      <4>1. CASE keepTail
        BY <3>1, <3>5, <4>1
      <4>2. CASE ~keepTail
        BY <2>7, <2>10, <3>1, <3>2, <3>3, <3>4, <3>5, <4>2
      <4> QED
        BY <4>1, <4>2
    <3>8. shoff + sn <= h \/ shoff >= shift + n
      <4>1. CASE keepTail
        BY <3>1, <3>3, <3>4, <3>5, <4>1
      <4>2. CASE ~keepTail
        BY <2>7, <2>10, <3>3, <3>5, <4>2
      <4> QED
        BY <4>1, <4>2
    <3> QED
      BY <3>2, <3>3, <3>6, <3>7, <3>8 DEF HeadersIn, h, pn, sn, x, len, n, loads
  <2>12. size \in Nat /\ total \in Nat /\ total >= shift + Len(f)
    <3>1. size \in Nat
      BY <2>6, <2>7
    <3>2. /\ Len(f) + shift \in Nat /\ shoff + Len(e.shdrs) \in Nat
          /\ Len(f) + shift = shift + Len(f)
          /\ ~keepTail => shoff + Len(e.shdrs) >= shift + Len(f)
      BY <2>1, <2>7, <2>8, <2>10
    <3> QED
      BY <3>1, <3>2
  <2> HIDE DEF size, total
  <2>13. base >= shift => Outcome(g, f)
    <3> SUFFICES ASSUME base >= shift PROVE Outcome(g, f)
      OBVIOUS
    <3>1. base - shift \in Nat /\ base - shift + EhdrSize \in Nat
      BY <2>2, <2>7 DEF EhdrSize
    <3>2. \A w, s, a, v, t \in Nat : Covering(f, shift, t) =>
            Outcome(PrependedFile(set, f, region, shift, shoff, w, s, a, v, t), f)
      BY <1>2, <2>4, <2>5, <2>7, <2>10, <2>11, RegionPrepended
    <3> QED
      BY <2>2, <2>12, <3>1, <3>2 DEF Covering
  <2> HIDE DEF g
  <2>14. Outcome(Failure("no_room"), f) /\ Outcome(Failure("unsupported"), f)
    BY DEF Outcome, Failure
  <2>15. PrependLayout(set, f, keepTail) =
           IF base % align # 0 \/ base < shift THEN Failure("no_room")
           ELSE IF Referenced(e, set.relocate) THEN Failure("unsupported")
           ELSE g
    BY <1>2 DEF PrependLayout, PrependPlanned, PrependRegion, g, PrependedFile, size, total, shoff,
                shift, base, align, region, headSize, shtSize, loads
  <2>16. ~(base < shift) => base >= shift
    BY <2>2, <2>7
  <2> QED
    BY <2>13, <2>14, <2>15, <2>16
<1> QED
  BY <1>1, <1>2

-----------------------------------------------------------------------------
(* The layout engine as a whole: of a coherent file, however it was        *)
(* edited, it makes a coherent file, with section headers if there were    *)
(* any, or it says what the file or the edit lacks.                        *)
Answer(r, f) ==
  /\ r.err \in {"none", "verify", "unsupported", "missing", "cli"}
  /\ r.err = "none" =>
       Coherent(r.file) /\ Kept(f, r.file) /\ (Sectioned(f) => Sectioned(r.file))

(* finalize, whichever layout it takes, in-place edits included.           *)
LEMMA Finalized ==
  ASSUME NEW f, Coherent(f), NEW img, Edited(img, f), NEW noClobber \in BOOLEAN
  PROVE  Answer(Finalize(img, f, noClobber), f)
<1>1. \A r : Outcome(r, f) /\ r.err # "no_room" => Answer(r, f)
  BY DEF Outcome, Answer
<1>2. Fits(img, f) => Answer(InPlace(img, f), f)
  BY <1>1, EditedInPlace
<1>3. Outcome(Appended(img, f, noClobber), f) /\ Appended(img, f, noClobber).err # "no_room"
  <2> DEFINE set == RelocationSet(img, Grown(img), ~noClobber)
  <2>1. Starting(set, f)
    BY Started
  <2>2. Appended(img, f, noClobber) = RelayoutSet(set, f)
    BY DEF Appended, Relayout
  <2> HIDE DEF set
  <2> QED
    BY <2>1, <2>2, LaidByAppending
<1>4. Outcome(Prepended(img, f), f)
  <2> DEFINE set == RelocationSet(img, Grown(img), TRUE)
  <2>1. Starting(set, f)
    BY Started
  <2>2. Prepended(img, f) = PrependLayout(set, f, HasOverlay(f))
    BY DEF Prepended, RelayoutShift
  <2>3. HasOverlay(f) \in BOOLEAN
    BY DEF HasOverlay
  <2> HIDE DEF set
  <2> QED
    BY <2>1, <2>2, <2>3, LaidByPrepending
<1>5. Answer(FirstFitting(Prepended(img, f), Appended(img, f, noClobber)), f)
  BY <1>1, <1>3, <1>4 DEF FirstFitting
<1>6. Answer(Relaid(img, f, noClobber), f)
  BY <1>1, <1>3, <1>5 DEF Relaid
<1>7. Answer(Failure("unsupported"), f)
  BY DEF Answer, Failure
<1> QED
  BY <1>2, <1>6, <1>7 DEF Finalize

-----------------------------------------------------------------------------
(* A payload behind the file changes nothing of what is read from it.      *)
LEMMA SliceJoined ==
  ASSUME NEW f, IsList(f), NEW t, IsList(t), NEW off \in Nat, NEW len \in Nat, off + len <= Len(f)
  PROVE  Slice(f \o t, off, len) = Slice(f, off, len)
<1> DEFINE g == f \o t
           a == Slice(g, off, len)
           b == Slice(f, off, len)
<1>1. \A i \in 1 .. Len(f) : g[i] = f[i]
  <2>1. IsJoin(g, f, t) /\ DOMAIN f = 1 .. Len(f)
    BY ListConcat, ListSeq
  <2> HIDE DEF g
  <2> QED
    BY <2>1 DEF IsJoin
<1> HIDE DEF g
<1>2. /\ IsList(a) /\ Len(a) = len /\ IsList(b) /\ Len(b) = len
      /\ \A i \in 1 .. len : a[i] = g[off + i] /\ b[i] = f[off + i]
  BY SliceList
<1>3. Len(f) \in Nat
  BY DEF IsList
<1> HIDE DEF a, b
<1>4. \A i \in 1 .. len : a[i] = b[i]
  BY <1>1, <1>2, <1>3
<1>5. a = b
  BY <1>2, <1>4 DEF IsList
<1> QED
  BY <1>5 DEF a, b, g

(* Cells behind the end of a file are not seen by the parser.              *)
LEMMA ParseJoined ==
  ASSUME NEW f, Coherent(f), NEW t, CellList(t)
  PROVE  /\ CellList(f \o t) /\ Len(f \o t) = Len(f) + Len(t)
         /\ \A i \in 1 .. Len(f) : (f \o t)[i] = f[i]
         /\ Phdrs(f \o t) = Phdrs(f) /\ Shdrs(f \o t) = Shdrs(f) /\ Parse(f \o t) = Parse(f)
<1> DEFINE g == f \o t
<1>1. /\ CellList(f) /\ IsList(f) /\ IsList(t) /\ Len(f) \in Nat /\ Len(f) >= 1
      /\ DOMAIN f = 1 .. Len(f)
  BY CoherentCells DEF CellList
<1>2. CellList(g) /\ Len(g) = Len(f) + Len(t)
  BY <1>1, CellsConcat
<1>3. \A i \in 1 .. Len(f) : g[i] = f[i]
  <2>1. IsJoin(g, f, t)
    BY <1>1, ListConcat
  <2> HIDE DEF g
  <2> QED
    BY <1>1, <2>1 DEF IsJoin
<1>4. \A off, len \in Nat : off + len <= Len(f) => Slice(g, off, len) = Slice(f, off, len)
  BY <1>1, SliceJoined
<1> HIDE DEF g
<1>5. g[1] = f[1] /\ f[1].phoff \in Nat /\ f[1].phnum \in Nat /\ f[1].shoff \in Nat /\ f[1].shnum \in Nat
  BY <1>1, <1>3, OldParts
<1>6. f[1].phoff + f[1].phnum <= Len(f) /\ f[1].shoff + f[1].shnum <= Len(f)
  BY DEF Coherent, TablesFit, InFile
<1>7. Phdrs(g) = Phdrs(f) /\ Shdrs(g) = Shdrs(f)
  BY <1>4, <1>5, <1>6 DEF Phdrs, Shdrs
<1>8. \A i \in DOMAIN Shdrs(f) :
        Shdrs(f)[i].type # "NOBITS" =>
          Slice(g, Shdrs(f)[i].offset, Shdrs(f)[i].size)
            = Slice(f, Shdrs(f)[i].offset, Shdrs(f)[i].size)
  <2> SUFFICES ASSUME NEW i \in DOMAIN Shdrs(f), Shdrs(f)[i].type # "NOBITS"
               PROVE  Slice(g, Shdrs(f)[i].offset, Shdrs(f)[i].size)
                        = Slice(f, Shdrs(f)[i].offset, Shdrs(f)[i].size)
    OBVIOUS
  <2>1. Shdrs(f)[i] \in ShdrCell /\ Shdrs(f)[i].offset + Shdrs(f)[i].size <= Len(f)
    BY OldParts
  <2>2. Shdrs(f)[i].offset \in Nat /\ Shdrs(f)[i].size \in Nat
    BY <2>1 DEF ShdrCell
  <2> QED
    BY <1>4, <2>1, <2>2
<1>9. ReadDynamic(g) = ReadDynamic(f)
  <2> DEFINE s == SelectInSeq(Shdrs(f), LAMBDA x : x.type = "DYNAMIC")
             p == SelectInSeq(Phdrs(f), LAMBDA x : x.type = "DYNAMIC")
  <2>1. /\ s = 0 \/ (s \in DOMAIN Shdrs(f) /\ Shdrs(f)[s].type = "DYNAMIC")
        /\ p = 0 \/ p \in DOMAIN Phdrs(f)
    <3>1. IsList(Shdrs(f)) /\ IsList(Phdrs(f))
      BY CoherentCells, SeqList
    <3>2. s = 0 \/ (s \in DOMAIN Shdrs(f) /\ Shdrs(f)[s].type = "DYNAMIC")
      BY <3>1, FirstOfType
    <3>3. p = 0 \/ (p \in DOMAIN Phdrs(f) /\ Phdrs(f)[p].type = "DYNAMIC")
      BY <3>1, FirstOfType
    <3> QED
      BY <3>2, <3>3
  <2>2. ReadDynamic(g) =
          CASE s # 0 -> ReadDynArray(Slice(g, Shdrs(f)[s].offset, Shdrs(f)[s].size))
            [] s = 0 /\ p # 0 ->
                 ReadDynArray(Slice(g, Phdrs(f)[p].offset, Phdrs(f)[p].filesz))
            [] OTHER -> <<>>
    BY <1>7 DEF ReadDynamic
  <2>3. ReadDynamic(f) =
          CASE s # 0 -> ReadDynArray(Slice(f, Shdrs(f)[s].offset, Shdrs(f)[s].size))
            [] s = 0 /\ p # 0 ->
                 ReadDynArray(Slice(f, Phdrs(f)[p].offset, Phdrs(f)[p].filesz))
            [] OTHER -> <<>>
    BY DEF ReadDynamic
  <2> HIDE DEF s, p
  <2>4. s # 0 => Slice(g, Shdrs(f)[s].offset, Shdrs(f)[s].size)
                   = Slice(f, Shdrs(f)[s].offset, Shdrs(f)[s].size)
    BY <1>8, <2>1
  <2>5. p # 0 => Slice(g, Phdrs(f)[p].offset, Phdrs(f)[p].filesz)
                   = Slice(f, Phdrs(f)[p].offset, Phdrs(f)[p].filesz)
    <3> SUFFICES ASSUME p # 0
                 PROVE  Slice(g, Phdrs(f)[p].offset, Phdrs(f)[p].filesz)
                          = Slice(f, Phdrs(f)[p].offset, Phdrs(f)[p].filesz)
      OBVIOUS
    <3>1. Phdrs(f)[p] \in Range(Phdrs(f))
      BY <2>1 DEF Range
    <3>2. Phdrs(f)[p] \in PhdrCell /\ End(Phdrs(f)[p]) <= Len(f)
      BY <3>1, OldParts
    <3>3. Phdrs(f)[p].offset \in Nat /\ Phdrs(f)[p].filesz \in Nat
          /\ Phdrs(f)[p].offset + Phdrs(f)[p].filesz <= Len(f)
      BY <3>2 DEF PhdrCell, End
    <3> QED
      BY <1>4, <3>3
  <2>6. CASE s # 0
    BY <2>2, <2>3, <2>4, <2>6
  <2>7. CASE s = 0 /\ p # 0
    BY <2>2, <2>3, <2>5, <2>7
  <2>8. CASE s = 0 /\ p = 0
    BY <2>2, <2>3, <2>8
  <2> QED
    BY <2>6, <2>7, <2>8
<1>10. Parse(g) = Parse(f)
  <2>1. ReadData(g) = ReadData(f)
    BY <1>7, <1>8 DEF ReadData
  <2>2. Parse(g) = Image(g[1], Phdrs(g), Shdrs(g), Tuple(ReadData(g)), ReadDynamic(g), "none")
    BY DEF Parse, Image, ReadData
  <2>3. Parse(f) = Image(f[1], Phdrs(f), Shdrs(f), Tuple(ReadData(f)), ReadDynamic(f), "none")
    BY DEF Parse, Image, ReadData
  <2> QED
    BY <1>5, <1>7, <1>9, <2>1, <2>2, <2>3
<1> QED
  BY <1>2, <1>3, <1>7, <1>10 DEF g

(* A longer file passes the checks the shorter one passes.                 *)
LEMMA MoreRoom ==
  ASSUME NEW f, Coherent(f), NEW n \in Nat, n >= Len(f)
  PROVE  VerifyOK(Parse(f), n)
<1> DEFINE img == Parse(f)
<1>1. VerifyOK(img, Len(f)) /\ IsImage(img) /\ Len(f) \in Nat
  BY ParseEdited, OldParts DEF Edited, Coherent
<1> HIDE DEF img
<1>2. /\ \A i \in DOMAIN img.phdrs : img.phdrs[i] \in PhdrCell
      /\ \A i \in DOMAIN img.shdrs : img.shdrs[i] \in ShdrCell
      /\ Len(img.phdrs) \in Nat /\ Len(img.shdrs) \in Nat /\ img.ehdr \in EhdrCell
  BY <1>1, ImageDomains DEF IsImage
<1>3. FileBounds(img, Len(f))
  BY <1>1 DEF VerifyOK
<1>4. \A x \in Nat : x <= Len(f) => x <= n
  BY <1>1
<1>5. FileBounds(img, n)
  <2>1. img.ehdr.phoff + Len(img.phdrs) \in Nat /\ img.ehdr.shoff + Len(img.shdrs) \in Nat
    <3>1. img.ehdr.phoff \in Nat /\ img.ehdr.shoff \in Nat
      BY <1>2 DEF EhdrCell
    <3>2. \A x, y \in Nat : x + y \in Nat
      OBVIOUS
    <3> QED
      BY <1>2, <3>1, <3>2
  <2>2. \A i \in DOMAIN img.phdrs : End(img.phdrs[i]) \in Nat
    BY <1>2 DEF PhdrCell, End
  <2>3. \A i \in DOMAIN img.shdrs : img.shdrs[i].offset + img.shdrs[i].size \in Nat
    BY <1>2 DEF ShdrCell
  <2> QED
    BY <1>3, <1>4, <2>1, <2>2, <2>3 DEF FileBounds
<1>6. VerifyOK(img, n)
  BY <1>1, <1>5 DEF VerifyOK
<1> QED
  BY <1>6 DEF img

(* A file with a payload behind its end stays coherent.                    *)
LEMMA Packed ==
  ASSUME NEW f, Coherent(f), NEW t, CellList(t)
  PROVE  Coherent(f \o t)
<1> DEFINE g == f \o t
<1>1. /\ CellList(g) /\ Len(g) = Len(f) + Len(t) /\ \A i \in 1 .. Len(f) : g[i] = f[i]
      /\ Phdrs(g) = Phdrs(f) /\ Shdrs(g) = Shdrs(f) /\ Parse(g) = Parse(f)
  BY ParseJoined
<1> HIDE DEF g
<1>2. Len(f) \in Nat /\ Len(f) >= 1 /\ Len(t) \in Nat /\ Len(g) >= Len(f)
  <2>1. Len(f) \in Nat /\ Len(f) >= 1 /\ Len(t) \in Nat
    BY OldParts DEF CellList, IsList
  <2> QED
    BY <1>1, <2>1
<1>3. /\ TablesFit(f) /\ Apart(AllSpans(Parse(f))) /\ Regular(Parse(f)) /\ SegmentsClear(Parse(f))
  BY DEF Coherent
<1>4. TablesFit(g)
  <2>1. /\ f[1].k = "ehdr" /\ InFile(f, f[1].phoff, f[1].phnum) /\ KindIs(Phdrs(f), "phdr")
        /\ InFile(f, f[1].shoff, f[1].shnum) /\ KindIs(Shdrs(f), "shdr")
    BY <1>3 DEF TablesFit
  <2>2. f[1].phoff \in Nat /\ f[1].phnum \in Nat /\ f[1].shoff \in Nat /\ f[1].shnum \in Nat
    BY OldParts
  <2>3. g[1] = f[1]
    BY <1>1, <1>2
  <2>4. InFile(g, g[1].phoff, g[1].phnum) /\ InFile(g, g[1].shoff, g[1].shnum)
    BY <1>1, <1>2, <2>1, <2>2, <2>3 DEF InFile
  <2>5. ASSUME NEW i \in DOMAIN Shdrs(f), Shdrs(f)[i].type # "NOBITS"
        PROVE  /\ InFile(g, Shdrs(f)[i].offset, Shdrs(f)[i].size)
               /\ Shdrs(f)[i].type = "DYNAMIC" =>
                    \A j \in 1 .. Shdrs(f)[i].size : g[Shdrs(f)[i].offset + j].k \in {"dyn", "zero"}
    <3>1. Shdrs(f)[i] \in ShdrCell /\ Shdrs(f)[i].offset + Shdrs(f)[i].size <= Len(f)
      BY <2>5, OldParts
    <3>2. Shdrs(f)[i].offset \in Nat /\ Shdrs(f)[i].size \in Nat
      BY <3>1 DEF ShdrCell
    <3>3. Shdrs(f)[i].type = "DYNAMIC" =>
            \A j \in 1 .. Shdrs(f)[i].size : f[Shdrs(f)[i].offset + j].k \in {"dyn", "zero"}
      BY <1>3 DEF TablesFit
    <3>4. \A j \in 1 .. Shdrs(f)[i].size : g[Shdrs(f)[i].offset + j] = f[Shdrs(f)[i].offset + j]
      BY <1>1, <1>2, <3>1, <3>2
    <3>5. InFile(g, Shdrs(f)[i].offset, Shdrs(f)[i].size)
      BY <1>1, <1>2, <3>1, <3>2 DEF InFile
    <3> QED
      BY <3>3, <3>4, <3>5
  <2>6. Len(g) > 0
    BY <1>1, <1>2
  <2>7. \A i \in DOMAIN Shdrs(g) :
          LET s == Shdrs(g)[i]
          IN /\ s.type # "NOBITS" => InFile(g, s.offset, s.size)
             /\ s.type = "DYNAMIC" => \A j \in 1..s.size : g[s.offset + j].k \in {"dyn", "zero"}
    BY <1>1, <2>5
  <2> QED
    BY <1>1, <2>1, <2>3, <2>4, <2>6, <2>7 DEF TablesFit
<1>5. VerifyOK(Parse(g), Len(g))
  <2>1. Len(g) \in Nat
    BY <1>1, <1>2
  <2> QED
    BY <1>1, <1>2, <2>1, MoreRoom
<1>6. Len(g) \in Nat /\ g = [i \in 1 .. Len(g) |-> g[i]] /\ \A i \in DOMAIN g : Formed(g[i])
  BY <1>1 DEF CellList, IsList
<1>7. Coherent(g)
  BY <1>1, <1>3, <1>4, <1>5, <1>6 DEF Coherent
<1> QED
  BY <1>7 DEF g

-----------------------------------------------------------------------------
(* Nothing but its e_shoff can keep a coherent file from being parsed.     *)
LEMMA CoherentUsable ==
  ASSUME NEW f, Coherent(f), ~Dangling(f)
  PROVE  Usable(f)
<1> DEFINE p == SelectInSeq(Phdrs(f), LAMBDA x : x.type = "DYNAMIC")
<1>1. p # 0 => InFile(f, Phdrs(f)[p].offset, Phdrs(f)[p].filesz)
  <2>1. IsList(Phdrs(f))
    BY CoherentCells, SeqList
  <2>2. p = 0 \/ (p \in DOMAIN Phdrs(f) /\ Phdrs(f)[p].type = "DYNAMIC")
    BY <2>1, FirstOfType
  <2> HIDE DEF p
  <2>3. p # 0 => Phdrs(f)[p] \in Range(Phdrs(f))
    BY <2>2 DEF Range
  <2>4. p # 0 => Phdrs(f)[p] \in PhdrCell /\ End(Phdrs(f)[p]) <= Len(f)
    BY <2>3, OldParts
  <2>5. p # 0 => Phdrs(f)[p].offset \in Nat
    BY <2>4 DEF PhdrCell
  <2> QED
    BY <2>4, <2>5 DEF End, InFile
<1>2. SegmentFits(f)
  BY <1>1 DEF SegmentFits
<1> QED
  BY <1>2 DEF Coherent, Usable, Readable, CanParse

-----------------------------------------------------------------------------
(* A run on a coherent file answers with a coherent file or a refusal, and *)
(* the parser refuses it only if e_shoff leads it astray.                  *)
LEMMA Ran ==
  ASSUME Coherent(file), job \in Jobs, NEW ops \in job.invocations, NEW noClobber \in job.noClobbers
  PROVE  LET r == Run(ops, noClobber)
         IN Answer(r, file) \/ (r.err = "parse" /\ Dangling(file))
<1> DEFINE img == ApplyAll(Parse(file), ops)
<1>1. ~CanParse(file) => Dangling(file)
  BY CoherentUsable DEF Usable, Readable
<1>2. Edited(Parse(file), file)
  BY ParseEdited
<1>3. /\ noClobber \in BOOLEAN /\ Len(ops) \in Nat /\ DOMAIN ops = 1 .. Len(ops)
      /\ \A i \in DOMAIN ops : ValidOp(ops[i])
  BY RepatchAssumption
<1>4. Edited(img, file)
  BY <1>2, <1>3, ApplyAllEdited
<1> HIDE DEF img
<1>5. img.err \in {"none", "missing", "unsupported", "cli"}
  BY <1>4 DEF Edited
<1>6. Answer(LayOut(img, noClobber), file)
  <2>1. CASE img.err # "none"
    BY <1>5, <2>1 DEF LayOut, Failure, Answer
  <2>2. CASE img.err = "none"
    BY <1>3, <1>4, <2>2, Finalized DEF LayOut
  <2> QED
    BY <2>1, <2>2
<1>7. CanParse(file) => Answer(Run(ops, noClobber), file)
  BY <1>6 DEF Run, img
<1>8. ~CanParse(file) => Run(ops, noClobber).err = "parse"
  BY DEF Run, Failure
<1> QED
  BY <1>1, <1>7, <1>8

(* The payload a packer appends consists of cells.                         *)
LEMMA PayloadCells ==
  CellList(Payload(PayloadLen))
<1> DEFINE p == [i \in 1 .. 2 |-> Byte("payload", i)]
<1>1. IsList(p) /\ Len(p) = 2 /\ DOMAIN p = 1 .. 2
  BY FunctionList
<1>2. \A i \in 1 .. 2 : Formed(p[i])
  BY DEF Byte, Formed
<1>3. Payload(PayloadLen) = Tuple(p)
  BY DEF Payload, PayloadLen
<1> HIDE DEF p
<1> QED
  BY <1>1, <1>2, <1>3, TupleSame DEF CellList

-----------------------------------------------------------------------------
(* The inductive invariant: what a linker promises of the file holds for   *)
(* good but for e_shoff in a file without section headers, and a run that  *)
(* is refused is refused for what the file or the operation lacks.         *)
Refusals == {"missing", "unsupported", "cli", "verify"}
(* The file and the file of the first run, as inputs of the next run, and  *)
(* section headers are not lost.                                           *)
FileInv == Coherent(file) /\ Coherent(first) /\ (Sectioned(first) => Sectioned(file))
(* The bookkeeping of the runs.                                            *)
RunInv ==
  /\ job \in Jobs /\ runs \in 0 .. job.maxRuns /\ payload \in {0, PayloadLen}
  /\ last.ops \in job.invocations \cup {<<>>}
  /\ last.err \in {"none"} \cup Refusals \/ LedAstray
(* The inductive invariant: what makes a file coherent is exactly what the *)
(* layouts of the next run need of their input.                            *)
RepatchInv == RunInv /\ FileInv

(* It holds of the linker's output.                                        *)
LEMMA InitRepatch ==
  Init => RepatchInv
<1> SUFFICES ASSUME Init PROVE RepatchInv
  OBVIOUS
<1>1. job \in Jobs /\ \E c \in job.inputs : file = Link(c) /\ payload = c.overlay
  BY DEF Init
<1>2. Coherent(file) /\ payload \in {0, PayloadLen}
  BY <1>1, LinkerAssumption DEF Usable
<1>3. first = file /\ runs = 0 /\ last.ops = <<>> /\ last.err = "none"
  BY DEF Init
<1>4. runs \in 0 .. job.maxRuns
  <2>1. job.maxRuns \in Nat
    BY <1>1, RepatchAssumption
  <2>2. \A n \in Nat : 0 \in 0 .. n
    OBVIOUS
  <2> QED
    BY <1>3, <2>1, <2>2
<1> QED
  BY <1>1, <1>2, <1>3, <1>4 DEF RepatchInv, RunInv, FileInv

(* One run of formatelf keeps it, whether it writes the file or refuses.   *)
LEMMA FormatelfStep ==
  ASSUME RepatchInv, NEW ops \in job.invocations, NEW noClobber \in job.noClobbers,
         Formatelf(ops, noClobber)
  PROVE  RepatchInv'
<1>1. PICK r \in {Run(ops, noClobber)} : Patch(r, ops, noClobber) \/ Reject(r, ops, noClobber)
  BY DEF Formatelf
<1>2. Answer(r, file) \/ (r.err = "parse" /\ Dangling(file))
  BY <1>1, Ran DEF RepatchInv, RunInv, FileInv
<1>3. runs < job.maxRuns /\ job.maxRuns \in Nat
  BY RepatchAssumption DEF Formatelf, RepatchInv, RunInv
<1>4. job' = job /\ first' = first /\ payload' = payload /\ runs' = runs + 1
      /\ last'.ops = ops /\ last'.err = r.err
  BY <1>1 DEF Patch, Reject
<1>5. Coherent(file') /\ (Sectioned(file) => Sectioned(file'))
  <2>1. CASE Patch(r, ops, noClobber)
    BY <1>2, <2>1 DEF Patch, Answer
  <2>2. CASE Reject(r, ops, noClobber)
    BY <2>2 DEF Reject, RepatchInv, FileInv
  <2> QED
    BY <1>1, <2>1, <2>2
<1>6. FileInv'
  BY <1>4, <1>5 DEF RepatchInv, FileInv
<1>8. r.err \in {"none"} \cup Refusals \/ LedAstray'
  <2>1. CASE Answer(r, file)
    BY <2>1 DEF Answer, Refusals
  <2>2. CASE r.err = "parse" /\ Dangling(file)
    <3>1. file' = file
      BY <1>1, <2>2 DEF Patch, Reject
    <3>2. ~Sure(file, first)
      BY <2>2 DEF Sure, Sectioned, Dangling, RepatchInv, FileInv
    <3> QED
      BY <1>4, <2>2, <3>1, <3>2 DEF LedAstray
  <2> QED
    BY <1>2, <2>1, <2>2
<1>7. RunInv'
  <2>1. runs' \in 0 .. job'.maxRuns
    BY <1>3, <1>4 DEF RepatchInv, RunInv
  <2>2. last'.err \in {"none"} \cup Refusals \/ LedAstray'
    BY <1>4, <1>8
  <2> QED
    BY <1>4, <2>1, <2>2 DEF RepatchInv, RunInv
<1> QED
  BY <1>6, <1>7 DEF RepatchInv

(* A packer that appends its payload keeps it.                             *)
LEMMA PackStep ==
  ASSUME RepatchInv, Pack
  PROVE  RepatchInv'
<1>1. /\ file' = file \o Payload(PayloadLen) /\ payload' = PayloadLen
      /\ UNCHANGED <<job, first, last, runs>>
  BY DEF Pack
<1>2. Coherent(file')
  BY <1>1, PayloadCells, Packed DEF RepatchInv, FileInv
<1>3. file'[1] = file[1]
  <2>1. Coherent(file) /\ Len(file) \in Nat /\ Len(file) >= 1
    BY CoherentCells DEF RepatchInv, FileInv
  <2>2. \A i \in 1 .. Len(file) : file'[i] = file[i]
    BY <1>1, <2>1, PayloadCells, ParseJoined
  <2> QED
    BY <2>1, <2>2
<1>4. FileInv'
  BY <1>1, <1>2, <1>3 DEF RepatchInv, FileInv, Sectioned
<1>5. LedAstray => LedAstray'
  BY <1>1, <1>3 DEF LedAstray, Sure, Sectioned, Dangling
<1> QED
  BY <1>1, <1>4, <1>5 DEF RepatchInv, RunInv

(* Every step keeps it.                                                    *)
LEMMA RepatchInductive ==
  RepatchInv /\ [Next]_vars => RepatchInv'
<1> SUFFICES ASSUME RepatchInv, [Next]_vars PROVE RepatchInv'
  OBVIOUS
<1>1. CASE \E ops \in job.invocations, nc \in job.noClobbers : Formatelf(ops, nc)
  BY <1>1, FormatelfStep
<1>2. CASE Pack
  BY <1>2, PackStep
<1>3. CASE UNCHANGED vars
  BY <1>3 DEF vars, RepatchInv, RunInv, FileInv, LedAstray, Sure, Sectioned, Dangling
<1> QED
  BY <1>1, <1>2, <1>3 DEF Next

(* A coherent file begins with a file header.                              *)
LEMMA CoherentTypes ==
  ASSUME NEW f, Coherent(f)
  PROVE  Len(f) > 0 /\ f[1].k = "ehdr"
BY DEF Coherent, TablesFit

(* It implies what the runs check.                                         *)
LEMMA InvImplies ==
  RepatchInv => TypeOK /\ FileUsable /\ OutputSound /\ WriterAccepts
<1> SUFFICES ASSUME RepatchInv PROVE TypeOK /\ FileUsable /\ OutputSound /\ WriterAccepts
  OBVIOUS
<1>1. TypeOK
  BY CoherentTypes DEF RepatchInv, RunInv, FileInv, Refusals, LedAstray, TypeOK
<1>2. FileUsable /\ OutputSound
  <2>1. Coherent(file) /\ (Sectioned(first) => Sectioned(file))
    BY DEF RepatchInv, FileInv
  <2>2. Sure(file, first) => ~Dangling(file)
    BY <2>1 DEF Sure, Sectioned, Dangling
  <2>3. Sure(file, first) => Usable(file)
    BY <2>1, <2>2, CoherentUsable
  <2> QED
    BY <2>1, <2>3 DEF FileUsable, OutputSound, Usable
<1>3. WriterAccepts
  BY DEF RepatchInv, RunInv, Refusals, WriterAccepts
<1> QED
  BY <1>1, <1>2, <1>3

(* The inductive invariant is one: whatever the linker made, whatever      *)
(* operations the runs of formatelf apply, whichever layout they take and  *)
(* whoever appends a payload in between, the file stays one that formatelf *)
(* can edit and lay out again, and read unless e_shoff leads the parser to *)
(* a section header that a file without any does not have.                 *)
THEOREM RepatchInvariant == Spec => []RepatchInv
<1> QED
  BY InitRepatch, RepatchInductive, PTL DEF Spec

(* The types, for every linker, every width of the strings, every page     *)
(* size and every number of runs.                                          *)
THEOREM RepatchTypeCorrect == Spec => []TypeOK
<1> QED
  BY RepatchInvariant, InvImplies, PTL

(* A file that has section headers is never left so that the next run      *)
(* could trip over it: it parses and passes the tool's checks, its cells   *)
(* are well formed, no two of its parts share a cell, it has at most one   *)
(* dynamic section.  A file without section headers keeps all of that but  *)
(* parsing, and parses as long as e_shoff is 0, as its linker left it:     *)
(* relayout (layout.rs) sets e_shoff in any file.                          *)
THEOREM OutputStaysUsable == Spec => []FileUsable
<1> QED
  BY RepatchInvariant, InvImplies, PTL

(* Every file written parses and passes the checks of verify.rs when it is *)
(* read back, unless the first file had no section headers and a layout    *)
(* gave it an e_shoff: what the serializer copies and what it writes add   *)
(* up to the image that was verified.                                      *)
THEOREM OutputStaysSound == Spec => []OutputSound
<1> QED
  BY RepatchInvariant, InvImplies, PTL

(* write_to_shifted never refuses what a layout gives it: no two spans     *)
(* overlap and none reaches past the end, so those errors of serialize.rs  *)
(* are never reported.  The parser refuses no file a run left, but one     *)
(* without section headers to which a layout gave an e_shoff.              *)
THEOREM SpanWriterAccepts == Spec => []WriterAccepts
<1> QED
  BY RepatchInvariant, InvImplies, PTL

-----------------------------------------------------------------------------
(* What no part of the file owns, and the payload among it.                *)

(* Staying is reflexive and transitive.                                    *)
LEMMA KeptSame ==
  ASSUME NEW f
  PROVE  Kept(f, f)
BY DEF Kept

(* So what a run keeps of the file it keeps of any earlier one.            *)
LEMMA KeptChain ==
  ASSUME NEW f, NEW g, NEW h, Kept(f, g), Kept(g, h)
  PROVE  Kept(f, h)
<1> SUFFICES ASSUME NEW a \in Nat, NEW n \in Nat, Idle(f, a, n)
             PROVE  \E b \in Nat : Idle(h, b, n) /\ Slice(h, b, n) = Slice(f, a, n)
  BY DEF Kept
<1>1. PICK b \in Nat : Idle(g, b, n) /\ Slice(g, b, n) = Slice(f, a, n)
  BY DEF Kept
<1>2. PICK c \in Nat : Idle(h, c, n) /\ Slice(h, c, n) = Slice(g, b, n)
  BY <1>1 DEF Kept
<1> QED
  BY <1>1, <1>2

(* A payload no part owns stays one.                                       *)
LEMMA OverlayKept ==
  ASSUME NEW f, NEW g, Len(g) \in Nat, NEW n \in Nat, Overlaid(f, n), Kept(f, g)
  PROVE  Overlaid(g, n)
<1> SUFFICES ASSUME n > 0
             PROVE  \E b \in 0 .. Len(g) : Idle(g, b, n) /\ Slice(g, b, n) = Payload(n)
  BY DEF Overlaid
<1>1. PICK a \in 0 .. Len(f) : Idle(f, a, n) /\ Slice(f, a, n) = Payload(n)
  BY DEF Overlaid
<1>2. a \in Nat
  OBVIOUS
<1>3. PICK b \in Nat : Idle(g, b, n) /\ Slice(g, b, n) = Slice(f, a, n)
  BY <1>1, <1>2 DEF Kept
<1>4. b + n <= Len(g)
  BY <1>3 DEF Idle, Aside
<1>5. b \in 0 .. Len(g)
  BY <1>4
<1> QED
  BY <1>1, <1>3, <1>5

(* And it is found in the file.                                            *)
LEMMA OverlayFound ==
  ASSUME NEW f, Len(f) \in Nat, NEW n \in Nat, Overlaid(f, n), n > 0
  PROVE  \E o \in 0 .. Len(f) - n : Slice(f, o, n) = Payload(n)
<1>1. PICK a \in 0 .. Len(f) : Idle(f, a, n) /\ Slice(f, a, n) = Payload(n)
  BY DEF Overlaid
<1>2. a + n <= Len(f)
  BY <1>1 DEF Idle, Aside
<1>3. a \in 0 .. Len(f) - n
  BY <1>2
<1> QED
  BY <1>1, <1>3

(* What is appended to a file leaves the file as it is ...                 *)
LEMMA PackKeeps ==
  ASSUME NEW f, Coherent(f), NEW t, CellList(t)
  PROVE  Kept(f, f \o t)
<1> DEFINE g == f \o t
<1>1. Len(g) = Len(f) + Len(t) /\ Parse(g) = Parse(f)
  BY ParseJoined
<1>2. IsList(f) /\ IsList(t) /\ Len(f) \in Nat /\ Len(t) \in Nat
  BY OldParts DEF CellList, IsList
<1>3. \A a, n \in Nat : a + n <= Len(f) => Slice(g, a, n) = Slice(f, a, n)
  BY <1>2, SliceJoined
<1> HIDE DEF g
<1> SUFFICES ASSUME NEW a \in Nat, NEW n \in Nat, Idle(f, a, n)
             PROVE  Idle(g, a, n) /\ Slice(g, a, n) = Slice(f, a, n)
  BY DEF g, Kept
<1>4. a + n <= Len(f) /\ a + n <= Len(g)
  BY <1>1, <1>2 DEF Idle, Aside
<1>5. Idle(g, a, n)
  BY <1>1, <1>4 DEF Idle, Aside
<1> QED
  BY <1>3, <1>4, <1>5

(* ... and is owned by no part of it: all of them end before.  It lies     *)
(* behind the region of an earlier run, if there is one.                   *)
LEMMA PackOverlays ==
  ASSUME NEW f, Coherent(f), PriorRegion(Parse(f)) = 0, NEW t, CellList(t)
  PROVE  Idle(f \o t, Len(f), Len(t)) /\ Slice(f \o t, Len(f), Len(t)) = t
<1> DEFINE g == f \o t
           x == Len(f)
           n == Len(t)
           img == Parse(f)
           y == Slice(g, x, n)
<1>1. Len(g) = x + n /\ Parse(g) = img
  BY ParseJoined
<1>2. /\ x \in Nat /\ x >= 1 /\ f[1].phoff \in Nat /\ f[1].shoff \in Nat
      /\ Len(Phdrs(f)) \in Nat /\ Len(Shdrs(f)) \in Nat
      /\ f[1].phoff + Len(Phdrs(f)) <= x
      /\ \A i \in DOMAIN Shdrs(f) :
           /\ Shdrs(f)[i].offset \in Nat /\ Shdrs(f)[i].size \in Nat
           /\ Shdrs(f)[i].type # "NOBITS" => Shdrs(f)[i].offset + Shdrs(f)[i].size <= x
  BY OldParts DEF ShdrCell
<1>3. f[1].shoff + Len(Shdrs(f)) <= x
  <2>1. f[1].shoff + f[1].shnum <= x
    BY DEF Coherent, TablesFit, InFile
  <2> QED
    BY <2>1, OldParts
<1>4. n \in Nat /\ IsList(t) /\ IsList(f) /\ DOMAIN t = 1 .. n
  BY CoherentCells DEF CellList, IsList
<1>5. img.ehdr = f[1] /\ img.phdrs = Phdrs(f) /\ img.shdrs = Shdrs(f)
  BY DEF Parse
<1>6. IsJoin(g, f, t)
  BY <1>4, ListConcat
<1> HIDE DEF g, img
<1>7. y = t
  <2>1. IsList(y) /\ Len(y) = n /\ \A k \in 1 .. n : y[k] = g[x + k]
    <3> HIDE DEF x, n
    <3>1. x \in Nat /\ n \in Nat
      BY <1>2, <1>4
    <3>2. /\ IsList(Slice(g, x, n)) /\ Len(Slice(g, x, n)) = n
          /\ \A k \in 1 .. n : Slice(g, x, n)[k] = g[x + k]
      BY <3>1, SliceList
    <3> QED
      BY <3>2
  <2> HIDE DEF y
  <2>2. \A k \in 1 .. n : g[x + k] = t[k]
    <3>1. \A k \in 1 .. n : g[k + x] = t[k]
      BY <1>4, <1>6 DEF IsJoin
    <3>2. \A k \in 1 .. n : k + x = x + k
      BY <1>2
    <3> QED
      BY <3>1, <3>2
  <2>3. \A k \in 1 .. n : y[k] = t[k]
    BY <2>1, <2>2
  <2> QED
    BY <1>4, <2>1, <2>3 DEF IsList
<1> HIDE DEF y
<1>8. \A a, m \in Nat : a + m <= x => Clear(a, m, x, n)
  BY DEF Clear
<1> HIDE DEF x, n
<1>9. Clear(0, 1, x, n) /\ Clear(f[1].phoff, Len(Phdrs(f)), x, n)
      /\ Clear(f[1].shoff, Len(Shdrs(f)), x, n)
  <2>1. 0 + 1 <= x
    BY <1>2
  <2> QED
    BY <1>2, <1>3, <1>8, <2>1
<1>10. \A i \in Solid(img) : Clear(img.shdrs[i].offset, img.shdrs[i].size, x, n)
  BY <1>2, <1>5, <1>8 DEF Solid
<1>11. PriorRegion(img) = 0
  BY DEF img
<1>12. Aside(img, Len(g), x, n)
  <2>1. x + n <= Len(g)
    BY <1>1, <1>2, <1>4
  <2> QED
    BY <1>5, <1>9, <1>10, <1>11, <2>1 DEF Aside
<1>13. Idle(g, x, n)
  BY <1>1, <1>12 DEF Idle
<1> QED
  BY <1>7, <1>13 DEF g, x, n, y

(* A run of formatelf keeps what no part of the file owns.                 *)
LEMMA FormatelfKeeps ==
  ASSUME RepatchInv, NEW ops \in job.invocations, NEW noClobber \in job.noClobbers,
         Formatelf(ops, noClobber)
  PROVE  Kept(file, file')
<1>1. PICK r \in {Run(ops, noClobber)} : Patch(r, ops, noClobber) \/ Reject(r, ops, noClobber)
  BY DEF Formatelf
<1>2. Answer(r, file) \/ (r.err = "parse" /\ Dangling(file))
  BY <1>1, Ran DEF RepatchInv, RunInv, FileInv
<1>3. CASE Patch(r, ops, noClobber)
  <2>1. r.err = "none" /\ file' = r.file
    BY <1>3 DEF Patch
  <2> QED
    BY <1>2, <2>1 DEF Answer
<1>4. CASE Reject(r, ops, noClobber)
  <2>1. file' = file
    BY <1>4 DEF Reject
  <2> QED
    BY <2>1, KeptSame
<1> QED
  BY <1>1, <1>3, <1>4

(* Every step keeps it.                                                    *)
LEMMA NextKeeps ==
  ASSUME RepatchInv, [Next]_vars
  PROVE  Kept(file, file')
<1>1. CASE \E ops \in job.invocations, nc \in job.noClobbers : Formatelf(ops, nc)
  BY <1>1, FormatelfKeeps
<1>2. CASE Pack
  <2>1. file' = file \o Payload(PayloadLen)
    BY <1>2 DEF Pack
  <2> QED
    BY <2>1, PayloadCells, PackKeeps DEF RepatchInv, FileInv
<1>3. CASE UNCHANGED vars
  <2>1. file' = file
    BY <1>3 DEF vars
  <2> QED
    BY <2>1, KeptSame
<1> QED
  BY <1>1, <1>2, <1>3 DEF Next

(* What is in the first file and no part of it owns is in every later one. *)
UnownedKept == Kept(first, file)

(* Every step keeps what is left of the first file.                        *)
LEMMA UnownedStep ==
  ASSUME RepatchInv, UnownedKept, [Next]_vars
  PROVE  UnownedKept'
<1>1. first' = first
  BY DEF Next, Formatelf, Patch, Reject, Pack, vars
<1>2. Kept(first, file')
  BY NextKeeps, KeptChain DEF UnownedKept
<1> QED
  BY <1>1, <1>2 DEF UnownedKept

(* The payload is in the file, and no part of the file owns it.            *)
OverlayInv == Overlaid(file, payload)

(* It is in the linker's output.                                           *)
LEMMA InitOverlay ==
  ASSUME Init
  PROVE  OverlayInv
<1>1. PICK c \in job.inputs : file = Link(c) /\ payload = c.overlay
  BY DEF Init
<1>2. job \in Jobs
  BY DEF Init
<1>3. Overlaid(Link(c), c.overlay)
  BY <1>2, OverlayAssumption
<1> QED
  BY <1>1, <1>3 DEF OverlayInv

(* The packers append to files that have no region of an earlier run: one  *)
(* takes the payload for its own and drops it (README, payload_clobbered). *)
PacksBeforeRegion == Pack => PriorRegion(Parse(file)) = 0

(* With such packers every step keeps the payload.                         *)
LEMMA OverlayStep ==
  ASSUME RepatchInv, OverlayInv, [Next]_vars, [PacksBeforeRegion]_vars
  PROVE  OverlayInv'
<1>1. Kept(file, file')
  BY NextKeeps
<1>2. Len(file') \in Nat
  BY RepatchInductive DEF RepatchInv, FileInv, Coherent
<1>3. payload \in Nat /\ Overlaid(file, payload)
  BY DEF RepatchInv, RunInv, PayloadLen, OverlayInv
<1>4. CASE payload' = payload
  <2>1. Overlaid(file', payload)
    BY <1>1, <1>2, <1>3, OverlayKept
  <2> QED
    BY <1>4, <2>1 DEF OverlayInv
<1>5. CASE Pack /\ payload' # payload
  <2> DEFINE t == Payload(PayloadLen)
  <2>1. PriorRegion(Parse(file)) = 0
    BY <1>5 DEF PacksBeforeRegion, vars
  <2>2. file' = file \o t /\ payload' = PayloadLen
    BY <1>5 DEF Pack
  <2>3. CellList(t) /\ Len(t) = PayloadLen
    <3> DEFINE p == [i \in 1 .. 2 |-> Byte("payload", i)]
    <3>1. IsList(p) /\ Len(p) = 2
      BY FunctionList
    <3>2. t = Tuple(p)
      BY DEF Payload, PayloadLen
    <3> HIDE DEF p
    <3>3. Len(t) = 2
      BY <3>1, <3>2, TupleSame
    <3> QED
      BY <3>3, PayloadCells DEF PayloadLen
  <2>4. Coherent(file) /\ Len(file) \in Nat
    BY DEF RepatchInv, FileInv, Coherent
  <2> HIDE DEF t
  <2>5. Idle(file', Len(file), PayloadLen) /\ Slice(file', Len(file), PayloadLen) = t
    BY <2>1, <2>2, <2>3, <2>4, PackOverlays
  <2>6. Len(file) + PayloadLen <= Len(file')
    BY <2>5 DEF Idle, Aside
  <2>7. Len(file) \in 0 .. Len(file')
    BY <1>2, <2>4, <2>6 DEF PayloadLen
  <2>8. Overlaid(file', PayloadLen)
    BY <2>5, <2>7 DEF Overlaid, t
  <2> QED
    BY <2>2, <2>8 DEF OverlayInv
<1>6. CASE ~Pack
  BY <1>4, <1>6 DEF Next, Formatelf, Patch, Reject, vars
<1> QED
  BY <1>4, <1>5, <1>6

(* Whatever runs, every stretch of the first file that no part of it owns  *)
(* and no region of an earlier run precedes is somewhere in the file,      *)
(* unowned and unbroken: no layout writes over what it does not know of    *)
(* (layout.rs module comment).                                             *)
THEOREM UnownedStays == Spec => []UnownedKept
<1>1. Init => UnownedKept
  BY KeptSame DEF Init, UnownedKept
<1> QED
  BY <1>1, RepatchInvariant, UnownedStep, PTL DEF Spec

(* A payload stays readable in the file, in any order of runs and layouts, *)
(* provided no packer appends it behind the region of an earlier run       *)
(* (layout.rs finalize; the exception is the finding of the run            *)
(* payload_clobbered).                                                     *)
THEOREM PayloadStays == Spec /\ [][PacksBeforeRegion]_vars => []PayloadKept
<1>1. RepatchInv /\ OverlayInv => PayloadKept
  <2> SUFFICES ASSUME RepatchInv, OverlayInv, payload > 0
               PROVE  \E o \in 0 .. Len(file) - payload : Slice(file, o, payload) = Payload(payload)
    BY DEF PayloadKept
  <2>1. payload \in Nat /\ Len(file) \in Nat /\ Overlaid(file, payload)
    BY DEF RepatchInv, RunInv, FileInv, Coherent, PayloadLen, OverlayInv
  <2> QED
    BY <2>1, OverlayFound
<1> QED
  BY <1>1, RepatchInvariant, InitOverlay, OverlayStep, PTL DEF Spec
================================================================================
