--------------------------- MODULE SpanWriterProofs ---------------------------
(***************************************************************************)
(* Proofs about SpanWriter: for every input, shift, output length and      *)
(* sorted span list, the single pass writes the file module Serialize      *)
(* asks for, and rejects exactly the lists it should.                      *)
(***************************************************************************)
EXTENDS SpanWriter, TLAPS

LEMMA LeastFacts ==
  ASSUME NEW a \in Nat, NEW b \in Nat
  PROVE  Least(a, b) \in Nat /\ Least(a, b) <= a /\ Least(a, b) <= b
         /\ (Least(a, b) = a \/ Least(a, b) = b)
BY DEF Least

LEMMA MonusFacts ==
  ASSUME NEW a \in Nat, NEW b \in Nat
  PROVE  Monus(a, b) \in Nat /\ (a >= b => Monus(a, b) = a - b)
         /\ (a <= b => Monus(a, b) = 0)
BY DEF Monus

(* fill yields len cells of the shifted input, its zeros included.         *)
LEMMA FillCorrect ==
  ASSUME NEW at \in Nat, NEW len \in Nat
  PROVE  /\ Fill(at, len) \in Seq(Cell)
         /\ Len(Fill(at, len)) = len
         /\ \A j \in 1..len : Fill(at, len)[j] = GapCell(Original, Shift, at + j - 1)
<1> DEFINE l == Lead(at, len)
           s == Start(at, len)
           a == Avail(at, len)
           z == len - l - a
           mid == SubSeq(Original, s + 1, s + a)
           head == Zeros(l) \o mid
<1>1. /\ Shift \in Nat /\ Original \in Seq(Cell) /\ Zero \in Cell
      /\ Len(Original) \in Nat
  BY SpanWriterAssumption
<1>2. /\ l \in Nat /\ l <= len
      /\ at + l <= Shift \/ l = 0
      /\ at + l >= Shift \/ l = len
  <2>1. l = Least(Monus(Shift, at), len)
    BY DEF Lead
  <2>2. /\ Monus(Shift, at) \in Nat
        /\ Shift >= at => Monus(Shift, at) = Shift - at
        /\ Shift <= at => Monus(Shift, at) = 0
    BY <1>1, MonusFacts
  <2>3. /\ l \in Nat /\ l <= Monus(Shift, at) /\ l <= len
        /\ l = Monus(Shift, at) \/ l = len
    BY <2>1, <2>2, LeastFacts
  <2> HIDE DEF l
  <2> QED  BY <2>2, <2>3, <1>1
<1>3. /\ s \in Nat /\ s <= Len(Original)
      /\ at + l <= Shift => s = 0
      /\ at + l >= Shift => s <= (at + l) - Shift /\ (s = (at + l) - Shift \/ s = Len(Original))
  <2>1. s = Least(Monus(at + l, Shift), Len(Original))
    BY DEF Start
  <2> HIDE DEF l
  <2>2. /\ Monus(at + l, Shift) \in Nat
        /\ at + l >= Shift => Monus(at + l, Shift) = (at + l) - Shift
        /\ at + l <= Shift => Monus(at + l, Shift) = 0
    <3> DEFINE x == at + l
    <3>1. x \in Nat /\ Shift \in Nat
      BY <1>1, <1>2
    <3> HIDE DEF x
    <3>2. /\ Monus(x, Shift) \in Nat
          /\ x >= Shift => Monus(x, Shift) = x - Shift
          /\ x <= Shift => Monus(x, Shift) = 0
      BY <3>1, MonusFacts
    <3> QED  BY <3>2 DEF x
  <2>3. /\ s \in Nat /\ s <= Monus(at + l, Shift) /\ s <= Len(Original)
        /\ s = Monus(at + l, Shift) \/ s = Len(Original)
    <3>1. Monus(at + l, Shift) \in Nat /\ Len(Original) \in Nat
      BY <2>2, <1>1
    <3> QED  BY <2>1, <3>1, LeastFacts
  <2> HIDE DEF s
  <2> QED  BY <2>2, <2>3, <1>1, <1>2
<1>4. /\ a \in Nat /\ s + a <= Len(Original) /\ l + a <= len
      /\ s + a = Len(Original) \/ l + a = len
  <2>1. a = Least(Len(Original) - s, len - l)
    BY DEF Avail
  <2> HIDE DEF l, s
  <2>2. Len(Original) - s \in Nat /\ len - l \in Nat
    BY <1>1, <1>2, <1>3
  <2>3. /\ a \in Nat /\ a <= Len(Original) - s /\ a <= len - l
        /\ a = Len(Original) - s \/ a = len - l
    BY <2>1, <2>2, LeastFacts
  <2> HIDE DEF a
  <2> QED  BY <2>3, <1>1, <1>2, <1>3
<1>5. z \in Nat
  BY <1>2, <1>4
<1> HIDE DEF l, s, a, z
<1>6. /\ mid \in Seq(Cell) /\ Len(mid) = a
      /\ \A j \in 1..a : mid[j] = Original[s + j]
  <2> HIDE DEF s, a
  <2> QED  BY <1>1, <1>3, <1>4
<1>7. /\ Zeros(l) \in Seq(Cell) /\ Len(Zeros(l)) = l /\ \A j \in 1..l : Zeros(l)[j] = Zero
      /\ Zeros(z) \in Seq(Cell) /\ Len(Zeros(z)) = z /\ \A j \in 1..z : Zeros(z)[j] = Zero
  BY <1>1, <1>2, <1>5 DEF Zeros
<1>8. Fill(at, len) = head \o Zeros(z)
  BY DEF Fill, l, s, a, z
<1> HIDE DEF mid
<1>9. /\ head \in Seq(Cell) /\ Len(head) = l + a
      /\ \A j \in 1 .. l + a : head[j]
                                = IF j <= l THEN Zero ELSE Original[s + (j - l)]
  <2>1. head \in Seq(Cell) /\ Len(head) = l + a
    <3>1. Zeros(l) \in Seq(Cell) /\ Len(Zeros(l)) = l /\ mid \in Seq(Cell) /\ Len(mid) = a
      BY <1>6, <1>7
    <3> HIDE DEF head
    <3> QED  BY <3>1, SMTT(30) DEF head
  <2>2. ASSUME NEW j \in 1 .. l + a
        PROVE  head[j] = (IF j <= l THEN Zero ELSE Original[s + (j - l)])
    <3>1. CASE j <= l
      BY <3>1, <1>2, <1>4, <1>6, <1>7
    <3>2. CASE ~(j <= l)
      <4>1. j - l \in 1..a
        BY <3>2, <1>2, <1>4
      <4>2. head[j] = mid[j - l]
        BY <4>1, <3>2, <1>2, <1>4, <1>6, <1>7
      <4> QED  BY <4>1, <4>2, <3>2, <1>2, <1>6
    <3> QED  BY <3>1, <3>2
  <2> QED  BY <2>1, <2>2
<1> HIDE DEF head
<1>10. l + a + z = len
  BY <1>2, <1>4 DEF z
<1>11. Fill(at, len) \in Seq(Cell) /\ Len(Fill(at, len)) = len
  <2> DEFINE tail == Zeros(z)
  <2>0. head \in Seq(Cell) /\ tail \in Seq(Cell)
    BY <1>7, <1>9
  <2> HIDE DEF tail
  <2>1. head \o tail \in Seq(Cell) /\ Len(head \o tail) = Len(head) + Len(tail)
    BY <2>0
  <2> USE DEF tail
  <2>2. Len(head) + Len(Zeros(z)) = len
    BY <1>7, <1>9, <1>10
  <2> QED  BY <2>1, <2>2, <1>8
<1>12. ASSUME NEW j \in 1..len
       PROVE  Fill(at, len)[j] = GapCell(Original, Shift, at + j - 1)
  <2>1. CASE j <= l
    <3>1. Fill(at, len)[j] = head[j]
      BY <2>1, <1>2, <1>4, <1>5, <1>7, <1>8, <1>9
    <3>2. Fill(at, len)[j] = Zero
      BY <2>1, <3>1, <1>2, <1>4, <1>9
    <3>3. at + j - 1 < Shift
      BY <2>1, <1>1, <1>2
    <3> QED  BY <3>2, <3>3, <1>1 DEF GapCell
  <2>2. CASE l < j /\ j <= l + a
    <3>1. Fill(at, len)[j] = head[j]
      BY <2>2, <1>2, <1>4, <1>5, <1>7, <1>8, <1>9
    <3>2. Fill(at, len)[j] = Original[s + (j - l)]
      BY <2>2, <3>1, <1>2, <1>4, <1>9
    <3>3. at + l >= Shift /\ s = at + l - Shift
      BY <2>2, <1>1, <1>2, <1>3, <1>4
    <3>4. at + j - 1 >= Shift /\ s + (j - l) = at + j - 1 - Shift + 1
      BY <2>2, <3>3, <1>1, <1>2
    <3>5. at + j - 1 - Shift < Len(Original)
      BY <2>2, <3>3, <1>1, <1>2, <1>4
    <3> QED  BY <3>2, <3>4, <3>5, <1>1 DEF GapCell
  <2>3. CASE l + a < j
    <3>1. j - (l + a) \in 1..z
      BY <2>3, <1>2, <1>4, <1>5, <1>10
    <3>2. Fill(at, len)[j] = Zeros(z)[j - (l + a)]
      BY <3>1, <2>3, <1>2, <1>4, <1>5, <1>7, <1>8, <1>9
    <3>3. Fill(at, len)[j] = Zero
      BY <3>1, <3>2, <1>7
    <3>4. s + a = Len(Original) /\ at + l >= Shift /\ s <= at + l - Shift
      BY <2>3, <1>1, <1>2, <1>3, <1>4
    <3>5. at + j - 1 - Shift >= Len(Original)
      BY <3>4, <2>3, <1>1, <1>2, <1>3, <1>4
    <3> QED  BY <3>3, <3>5, <1>1 DEF GapCell
  <2> QED  BY <2>1, <2>2, <2>3, <1>2, <1>4
<1> QED  BY <1>11, <1>12

-----------------------------------------------------------------------------
(* The inductive invariant: the first next-1 spans lie one after another   *)
(* below cur, and the cells written so far are theirs or the gap copy's.   *)
Covered(i, o) == spans[i].at <= o /\ o < SpanEnd(spans[i])

Reached ==
  /\ Len(out) = IF status = "done" THEN Size ELSE cur
  /\ status = "done" => next = Len(spans) + 1
  /\ next = 1 => cur = 0
  /\ next > 1 => cur = SpanEnd(spans[next - 1])
InOrder ==
  /\ \A i \in 1 .. next - 1 : SpanEnd(spans[i]) <= cur
  /\ \A i, j \in 1 .. next - 1 : i < j => SpanEnd(spans[i]) <= spans[j].at
Placed ==
  \A i \in 1 .. next - 1 : \A c \in 1 .. Len(spans[i].cells) :
    out[spans[i].at + c] = spans[i].cells[c]
Gaps ==
  \A o \in 0 .. Len(out) - 1 :
    (\A i \in 1 .. next - 1 : ~Covered(i, o)) => out[o + 1] = GapCell(Original, Shift, o)
Blamed ==
  /\ status = "overlap" => Overlap(spans)
  /\ status = "past_end" => PastEnd(spans, Size)

IInv == TypeOK /\ Reached /\ InOrder /\ Placed /\ Gaps /\ Blamed

LEMMA SpanFacts ==
  ASSUME spans \in SpanLists
  PROVE  /\ Len(spans) \in Nat
         /\ DOMAIN spans = 1 .. Len(spans)
         /\ \A i \in 1 .. Len(spans) :
              /\ spans[i].at \in Nat /\ spans[i].cells \in Seq(Cell)
              /\ Len(spans[i].cells) \in Nat /\ Len(spans[i].cells) > 0
              /\ SpanEnd(spans[i]) = spans[i].at + Len(spans[i].cells)
              /\ SpanEnd(spans[i]) \in Nat
         /\ \A i, j \in 1 .. Len(spans) : i < j => spans[i].at <= spans[j].at
<1> DEFINE Rec == [at : Nat, cells : Seq(Cell)]
<1>1. spans \in Seq(Rec) /\ Sorted(spans)
  BY SpanWriterAssumption
<1>0. \A i \in DOMAIN spans : Len(spans[i].cells) > 0
  BY SpanWriterAssumption
<1> HIDE DEF Rec
<1>2. /\ Len(spans) \in Nat /\ DOMAIN spans = 1 .. Len(spans)
      /\ \A i \in 1 .. Len(spans) : spans[i] \in Rec
  BY <1>1
<1>3. ASSUME NEW i \in 1 .. Len(spans)
      PROVE  /\ spans[i].at \in Nat /\ spans[i].cells \in Seq(Cell)
             /\ Len(spans[i].cells) \in Nat /\ Len(spans[i].cells) > 0
             /\ SpanEnd(spans[i]) = spans[i].at + Len(spans[i].cells)
             /\ SpanEnd(spans[i]) \in Nat
  <2>1. spans[i] \in [at : Nat, cells : Seq(Cell)]
    BY <1>2 DEF Rec
  <2>2. spans[i].at \in Nat /\ spans[i].cells \in Seq(Cell)
    BY <2>1
  <2>3. Len(spans[i].cells) \in Nat /\ Len(spans[i].cells) > 0
    BY <1>0, <1>2, <2>2
  <2> QED  BY <2>2, <2>3 DEF SpanEnd
<1>4. \A i, j \in 1 .. Len(spans) : i < j => spans[i].at <= spans[j].at
  BY <1>1, <1>2 DEF Sorted
<1> QED  BY <1>2, <1>3, <1>4

LEMMA InitInv == Init => IInv
<1> SUFFICES ASSUME Init PROVE IInv
  OBVIOUS
<1>1. Len(spans) \in Nat
  BY SpanFacts DEF Init
<1>2. TypeOK
  BY <1>1, SpanWriterAssumption DEF Init, TypeOK
<1> QED  BY <1>1, <1>2, SpanWriterAssumption
         DEF Init, IInv, Reached, InOrder, Placed, Gaps, Blamed

(* What PutSpan appends, cell by cell.                                     *)
LEMMA PutCells ==
  ASSUME IInv, PutSpan
  PROVE  LET s == spans[next]
         IN /\ out' \in Seq(Cell) /\ Len(out') = SpanEnd(s)
            /\ \A o \in 0 .. cur - 1 : out'[o + 1] = out[o + 1]
            /\ \A o \in cur .. s.at - 1 : out'[o + 1] = GapCell(Original, Shift, o)
            /\ \A c \in 1 .. Len(s.cells) : out'[s.at + c] = s.cells[c]
<1> DEFINE s == spans[next]
           f == Fill(cur, s.at - cur)
           h == out \o f
<1>1. /\ next \in 1 .. Len(spans) /\ cur \in Nat /\ out \in Seq(Cell) /\ Len(out) = cur
      /\ spans \in SpanLists /\ cur <= s.at
  BY DEF IInv, TypeOK, Reached, PutSpan, Writing
<1>2. /\ s.at \in Nat /\ s.cells \in Seq(Cell) /\ Len(s.cells) \in Nat
      /\ SpanEnd(s) = s.at + Len(s.cells)
  BY <1>1, SpanFacts
<1>3. s.at - cur \in Nat
  BY <1>1, <1>2
<1>4. /\ f \in Seq(Cell) /\ Len(f) = s.at - cur
      /\ \A j \in 1 .. s.at - cur : f[j] = GapCell(Original, Shift, cur + j - 1)
  BY <1>1, <1>3, FillCorrect
<1>5. out' = h \o s.cells
  BY DEF PutSpan
<1> HIDE DEF s, f
<1>6. /\ h \in Seq(Cell) /\ Len(h) = s.at
      /\ \A p \in 1 .. cur : h[p] = out[p]
      /\ \A p \in cur + 1 .. s.at : h[p] = f[p - cur]
  <2>0. out \in Seq(Cell) /\ f \in Seq(Cell)
    BY <1>1, <1>4
  <2>1. h \in Seq(Cell) /\ Len(h) = Len(out) + Len(f)
    BY <2>0
  <2>2. Len(out) + Len(f) = s.at
    BY <1>1, <1>2, <1>4
  <2>3. ASSUME NEW p \in 1 .. cur PROVE h[p] = out[p]
    BY <1>1, <1>2, <1>4, SMTT(30)
  <2>4. ASSUME NEW p \in cur + 1 .. s.at PROVE h[p] = f[p - cur]
    BY <1>1, <1>2, <1>4, SMTT(30)
  <2> QED  BY <2>1, <2>2, <2>3, <2>4
<1> HIDE DEF h
<1>7. out' \in Seq(Cell) /\ Len(out') = SpanEnd(s)
  BY <1>2, <1>5, <1>6
<1>8. ASSUME NEW o \in 0 .. cur - 1 PROVE out'[o + 1] = out[o + 1]
  <2>1. o + 1 \in 1 .. cur /\ o + 1 \in 1 .. s.at
    BY <1>1, <1>2
  <2>2. out'[o + 1] = h[o + 1]
    BY <2>1, <1>2, <1>5, <1>6
  <2> QED  BY <2>1, <2>2, <1>6
<1>9. ASSUME NEW o \in cur .. s.at - 1 PROVE out'[o + 1] = GapCell(Original, Shift, o)
  <2>1. /\ o + 1 \in cur + 1 .. s.at /\ o + 1 \in 1 .. s.at
        /\ o + 1 - cur \in 1 .. s.at - cur /\ cur + (o + 1 - cur) - 1 = o
    BY <1>1, <1>2
  <2>2. out'[o + 1] = h[o + 1]
    BY <2>1, <1>2, <1>5, <1>6
  <2>3. h[o + 1] = f[o + 1 - cur]
    BY <2>1, <1>1, <1>2, <1>6
  <2> QED  BY <2>1, <2>2, <2>3, <1>4
<1>10. ASSUME NEW c \in 1 .. Len(s.cells) PROVE out'[s.at + c] = s.cells[c]
  BY <1>2, <1>5, <1>6, SMTT(30)
<1> QED  BY <1>7, <1>8, <1>9, <1>10 DEF s

LEMMA PutInv == ASSUME IInv, PutSpan PROVE IInv'
<1> DEFINE s == spans[next]
<1>1. /\ next \in 1 .. Len(spans) /\ cur \in Nat /\ Len(out) = cur /\ spans \in SpanLists
      /\ s.at >= cur /\ SpanEnd(s) <= Size /\ status = "writing"
  BY DEF IInv, TypeOK, Reached, PutSpan, Writing
<1>2. cur' = SpanEnd(s) /\ next' = next + 1 /\ spans' = spans /\ status' = status
  BY DEF PutSpan
<1>3. /\ Len(spans) \in Nat
      /\ \A i \in 1 .. Len(spans) :
           /\ spans[i].at \in Nat /\ Len(spans[i].cells) \in Nat /\ Len(spans[i].cells) > 0
           /\ SpanEnd(spans[i]) = spans[i].at + Len(spans[i].cells)
           /\ SpanEnd(spans[i]) \in Nat
  BY <1>1, SpanFacts
<1>4. /\ out' \in Seq(Cell) /\ Len(out') = SpanEnd(s)
      /\ \A o \in 0 .. cur - 1 : out'[o + 1] = out[o + 1]
      /\ \A o \in cur .. s.at - 1 : out'[o + 1] = GapCell(Original, Shift, o)
      /\ \A c \in 1 .. Len(s.cells) : out'[s.at + c] = s.cells[c]
  BY PutCells
<1>0. cur \in Nat /\ cur' \in Nat /\ cur <= cur'
  BY <1>1, <1>2, <1>3
<1>5. TypeOK'
  BY <1>1, <1>2, <1>3, <1>4, SpanWriterAssumption, SMTT(30) DEF TypeOK
<1>6. Reached'
  BY <1>1, <1>2, <1>3, <1>4 DEF Reached
<1>7. InOrder'
  <2>1. ASSUME NEW i \in 1 .. next' - 1 PROVE SpanEnd(spans[i]) <= cur'
    <3>1. CASE i = next
      BY <3>1, <1>1, <1>2, <1>3
    <3>2. CASE i # next
      <4>1. i \in 1 .. next - 1 /\ i \in 1 .. Len(spans)
        BY <3>2, <2>1, <1>1, <1>2, <1>3
      <4>2. SpanEnd(spans[i]) <= cur
        BY <4>1 DEF IInv, InOrder
      <4>3. SpanEnd(spans[i]) \in Nat
        BY <4>1, <1>3
      <4> HIDE DEF s
      <4> QED  BY <4>2, <4>3, <1>0
    <3> QED  BY <3>1, <3>2
  <2>2. ASSUME NEW i \in 1 .. next' - 1, NEW j \in 1 .. next' - 1, i < j
        PROVE  SpanEnd(spans[i]) <= spans[j].at
    <3>1. i \in 1 .. next - 1 /\ i \in 1 .. Len(spans)
      BY <2>2, <1>1, <1>2, <1>3
    <3>2. CASE j = next
      <4>1. SpanEnd(spans[i]) <= cur
        BY <3>1 DEF IInv, InOrder
      <4> QED  BY <4>1, <3>1, <3>2, <1>1, <1>3
    <3>3. CASE j # next
      <4>1. j \in 1 .. next - 1
        BY <3>3, <2>2, <1>1, <1>2
      <4> QED  BY <4>1, <3>1, <2>2 DEF IInv, InOrder
    <3> QED  BY <3>2, <3>3
  <2> QED  BY <2>1, <2>2, <1>2 DEF InOrder
<1>8. Placed'
  <2>1. ASSUME NEW i \in 1 .. next' - 1, NEW c \in 1 .. Len(spans[i].cells)
        PROVE  out'[spans[i].at + c] = spans[i].cells[c]
    <3>1. CASE i = next
      BY <3>1, <1>4
    <3>2. CASE i # next
      <4>1. i \in 1 .. next - 1 /\ i \in 1 .. Len(spans)
        BY <3>2, <2>1, <1>1, <1>2, <1>3
      <4>2. SpanEnd(spans[i]) <= cur /\ out[spans[i].at + c] = spans[i].cells[c]
        BY <4>1, <2>1 DEF IInv, InOrder, Placed
      <4> DEFINE o == spans[i].at + c - 1
      <4>5. /\ spans[i].at \in Nat /\ Len(spans[i].cells) \in Nat
            /\ SpanEnd(spans[i]) = spans[i].at + Len(spans[i].cells)
            /\ c \in Nat /\ c >= 1 /\ c <= Len(spans[i].cells)
        BY <4>1, <1>3
      <4>3. o \in 0 .. cur - 1 /\ o + 1 = spans[i].at + c
        BY <4>2, <4>5, <1>1, SMTT(30)
      <4>4. out'[o + 1] = out[o + 1]
        BY <4>3, <1>4
      <4> QED  BY <4>2, <4>3, <4>4
    <3> QED  BY <3>1, <3>2
  <2> QED  BY <2>1, <1>2 DEF Placed
<1>9. Gaps'
  <2>1. ASSUME NEW o \in 0 .. Len(out') - 1,
               \A i \in 1 .. next' - 1 : ~Covered(i, o)
        PROVE  out'[o + 1] = GapCell(Original, Shift, o)
    <3>1. CASE o < cur
      <4>1. o \in 0 .. cur - 1
        BY <3>1, <2>1, <1>1, <1>3, <1>4
      <4>2. \A i \in 1 .. next - 1 : ~Covered(i, o)
        BY <2>1, <1>1, <1>2
      <4>3. out[o + 1] = GapCell(Original, Shift, o)
        BY <4>1, <4>2, <1>1 DEF IInv, Gaps
      <4> QED  BY <4>1, <4>3, <1>4
    <3>2. CASE cur <= o /\ o < s.at
      <4>1. o \in cur .. s.at - 1
        BY <3>2, <2>1, <1>1, <1>3, <1>4
      <4> QED  BY <4>1, <1>4
    <3>3. CASE s.at <= o
      <4>1. o < SpanEnd(s)
        BY <2>1, <1>1, <1>3, <1>4
      <4>2. Covered(next, o) /\ next \in 1 .. next' - 1
        BY <4>1, <3>3, <1>1, <1>2 DEF Covered
      <4> QED  BY <4>2, <2>1
    <3> QED  BY <3>1, <3>2, <3>3, <2>1, <1>1, <1>3, <1>4
  <2>2. \A i, o : Covered(i, o)' <=> (spans[i].at <= o /\ o < SpanEnd(spans[i]))
    BY <1>2 DEF Covered
  <2> QED  BY <2>1, <2>2, <1>2 DEF Gaps, Covered
<1>10. Blamed'
  BY <1>1, <1>2 DEF Blamed
<1> QED  BY <1>5, <1>6, <1>7, <1>8, <1>9, <1>10 DEF IInv

LEMMA RejectInv == ASSUME IInv, RejectSpan PROVE IInv'
<1>1. /\ next \in 1 .. Len(spans) /\ cur \in Nat /\ spans \in SpanLists
      /\ status = "writing" /\ Size \in Nat
  BY SpanWriterAssumption DEF IInv, TypeOK, RejectSpan, Writing
<1>2. UNCHANGED <<spans, next, cur, out>>
  BY DEF RejectSpan
<1>3. /\ Len(spans) \in Nat /\ DOMAIN spans = 1 .. Len(spans)
      /\ \A i \in 1 .. Len(spans) :
           /\ spans[i].at \in Nat /\ Len(spans[i].cells) \in Nat /\ Len(spans[i].cells) > 0
           /\ SpanEnd(spans[i]) = spans[i].at + Len(spans[i].cells)
      /\ \A i, j \in 1 .. Len(spans) : i < j => spans[i].at <= spans[j].at
  BY <1>1, SpanFacts
<1>4. CASE spans[next].at < cur
  <2>1. status' = "overlap"
    BY <1>4 DEF RejectSpan
  <2>2. next > 1 /\ cur = SpanEnd(spans[next - 1])
    BY <1>1, <1>3, <1>4 DEF IInv, Reached
  <2>3. next - 1 \in 1 .. Len(spans) /\ spans[next - 1].at <= spans[next].at
    BY <2>2, <1>1, <1>3
  <2>4. spans[next].at < spans[next - 1].at + Len(spans[next - 1].cells)
    <3>1. SpanEnd(spans[next - 1]) = spans[next - 1].at + Len(spans[next - 1].cells)
      BY <2>3, <1>3
    <3> QED  BY <3>1, <2>2, <1>4
  <2>5. Overlap(spans)
    BY <2>3, <2>4, <1>1, <1>3, SMTT(30) DEF Overlap
  <2> QED  BY <2>1, <2>5, <1>1, <1>2
           DEF IInv, TypeOK, Reached, InOrder, Placed, Gaps, Covered, Blamed
<1>5. CASE ~(spans[next].at < cur)
  <2>1. status' = "past_end" /\ SpanEnd(spans[next]) > Size
    BY <1>5 DEF RejectSpan
  <2>2. PastEnd(spans, Size)
    BY <2>1, <1>1, <1>3 DEF PastEnd, SpanEnd
  <2> QED  BY <2>1, <2>2, <1>1, <1>2
           DEF IInv, TypeOK, Reached, InOrder, Placed, Gaps, Covered, Blamed
<1> QED  BY <1>4, <1>5

LEMMA TailInv == ASSUME IInv, PutTail PROVE IInv'
<1> DEFINE f == Fill(cur, Size - cur)
<1>1. /\ next = Len(spans) + 1 /\ cur \in Nat /\ cur <= Size /\ Size \in Nat
      /\ out \in Seq(Cell) /\ Len(out) = cur /\ status = "writing" /\ Size - cur \in Nat
      /\ Len(spans) \in Nat
  BY SpanWriterAssumption, SpanFacts DEF IInv, TypeOK, Reached, PutTail
<1>2. /\ UNCHANGED <<spans, next, cur>> /\ status' = "done"
      /\ out' = IF Size > cur THEN out \o f ELSE out
  BY DEF PutTail
<1>3. /\ f \in Seq(Cell) /\ Len(f) = Size - cur
      /\ \A j \in 1 .. Size - cur : f[j] = GapCell(Original, Shift, cur + j - 1)
  BY <1>1, FillCorrect
<1> HIDE DEF f
<1>4. /\ out' \in Seq(Cell) /\ Len(out') = Size
      /\ \A o \in 0 .. cur - 1 : out'[o + 1] = out[o + 1]
      /\ \A o \in cur .. Size - 1 : out'[o + 1] = GapCell(Original, Shift, o)
  <2>1. CASE Size > cur
    <3>0. out' = out \o f /\ f \in Seq(Cell)
      BY <2>1, <1>2, <1>3
    <3>1. out' \in Seq(Cell) /\ Len(out') = Len(out) + Len(f)
      <4>1. out \in Seq(Cell) /\ f \in Seq(Cell)
        BY <1>1, <3>0
      <4>2. out \o f \in Seq(Cell) /\ Len(out \o f) = Len(out) + Len(f)
        BY <4>1
      <4> QED  BY <4>2, <3>0
    <3>2. Len(out) + Len(f) = Size
      BY <1>1, <1>3
    <3>3. ASSUME NEW o \in 0 .. cur - 1 PROVE out'[o + 1] = out[o + 1]
      BY <3>0, <1>1, <1>3
    <3>4. ASSUME NEW o \in cur .. Size - 1
          PROVE  out'[o + 1] = GapCell(Original, Shift, o)
      <4>1. o + 1 - cur \in 1 .. Size - cur /\ cur + (o + 1 - cur) - 1 = o
        BY <1>1
      <4>2. out'[o + 1] = f[o + 1 - cur]
        BY <4>1, <3>0, <1>1, <1>3
      <4> QED  BY <4>1, <4>2, <1>3
    <3> QED  BY <3>1, <3>2, <3>3, <3>4
  <2>2. CASE ~(Size > cur)
    BY <2>2, <1>1, <1>2
  <2> QED  BY <2>1, <2>2
<1>5. TypeOK' /\ Reached' /\ InOrder' /\ Blamed'
  BY <1>1, <1>2, <1>4 DEF IInv, TypeOK, Reached, InOrder, Blamed
<1>6. Placed'
  <2>1. ASSUME NEW i \in 1 .. next - 1, NEW c \in 1 .. Len(spans[i].cells)
        PROVE  out'[spans[i].at + c] = spans[i].cells[c]
    <3>1. /\ spans[i].at \in Nat /\ Len(spans[i].cells) \in Nat
          /\ SpanEnd(spans[i]) = spans[i].at + Len(spans[i].cells)
          /\ c \in Nat /\ c >= 1 /\ c <= Len(spans[i].cells)
      BY <1>1, SpanFacts DEF IInv, TypeOK
    <3>2. SpanEnd(spans[i]) <= cur /\ out[spans[i].at + c] = spans[i].cells[c]
      BY DEF IInv, InOrder, Placed
    <3> DEFINE o == spans[i].at + c - 1
    <3>3. o \in 0 .. cur - 1 /\ o + 1 = spans[i].at + c
      BY <3>1, <3>2, <1>1, SMTT(30)
    <3>4. out'[o + 1] = out[o + 1]
      BY <3>3, <1>4
    <3> QED  BY <3>2, <3>3, <3>4
  <2> QED  BY <2>1, <1>2 DEF Placed
<1>7. Gaps'
  <2>1. ASSUME NEW o \in 0 .. Size - 1, \A i \in 1 .. next - 1 : ~Covered(i, o)
        PROVE  out'[o + 1] = GapCell(Original, Shift, o)
    <3>1. CASE o < cur
      <4>1. o \in 0 .. cur - 1
        BY <3>1, <1>1
      <4> QED  BY <4>1, <2>1, <1>1, <1>4 DEF IInv, Gaps
    <3>2. CASE ~(o < cur)
      <4>1. o \in cur .. Size - 1
        BY <3>2, <1>1
      <4> QED  BY <4>1, <1>4
    <3> QED  BY <3>1, <3>2
  <2> QED  BY <2>1, <1>2, <1>4 DEF Gaps, Covered
<1> QED  BY <1>5, <1>6, <1>7 DEF IInv

LEMMA NextInv == IInv /\ [Next]_wvars => IInv'
<1> SUFFICES ASSUME IInv, [Next]_wvars PROVE IInv'
  OBVIOUS
<1>1. CASE PutSpan
  BY <1>1, PutInv
<1>2. CASE RejectSpan
  BY <1>2, RejectInv
<1>3. CASE PutTail
  BY <1>3, TailInv
<1>4. CASE IoError
  BY <1>4 DEF IoError, IInv, TypeOK, Reached, InOrder, Placed, Gaps, Covered, Blamed
<1>5. CASE UNCHANGED wvars
  BY <1>5 DEF wvars, IInv, TypeOK, Reached, InOrder, Placed, Gaps, Covered, Blamed
<1> QED  BY <1>1, <1>2, <1>3, <1>4, <1>5 DEF Next

LEMMA Inductive == Spec => []IInv
<1>1. Init => IInv
  BY InitInv
<1>2. IInv /\ [Next]_wvars => IInv'
  BY NextInv
<1> QED  BY <1>1, <1>2, PTL DEF Spec

-----------------------------------------------------------------------------
(* TypeOK for every instance: the offset reached never passes the total,   *)
(* and what write_to_shifted wrote is always a sequence of cells.          *)
THEOREM WriterTypeCorrect == Spec => []TypeOK
<1>1. IInv => TypeOK
  BY DEF IInv
<1> QED  BY <1>1, Inductive, PTL

LEMMA InvFaithful == IInv => Faithful
<1> SUFFICES ASSUME IInv, status = "done" PROVE Faithful
  BY DEF Faithful
<1>1. /\ next = Len(spans) + 1 /\ Len(out) = Size /\ Size \in Nat /\ Len(spans) \in Nat
      /\ spans \in SpanLists
  BY SpanFacts, SpanWriterAssumption DEF IInv, TypeOK, Reached
<1>2. /\ next - 1 = Len(spans) /\ DOMAIN spans = 1 .. Len(spans)
      /\ \A i \in 1 .. Len(spans) :
           /\ spans[i].at \in Nat /\ Len(spans[i].cells) \in Nat
           /\ SpanEnd(spans[i]) = spans[i].at + Len(spans[i].cells)
  BY <1>1, SpanFacts
<1>3. ASSUME NEW o \in 0 .. Size - 1
      PROVE  out[o + 1] = CellAt(spans, Original, Shift, o)
  <2>1. \A i \in 1 .. Len(spans) : i \in SpansAt(spans, o) <=> Covered(i, o)
    BY <1>2 DEF SpansAt, Covered
  <2>2. SpansAt(spans, o) \subseteq 1 .. Len(spans)
    BY <1>2 DEF SpansAt
  <2>3. CASE SpansAt(spans, o) = {}
    <3>1. \A i \in 1 .. next - 1 : ~Covered(i, o)
      BY <2>1, <2>3, <1>2
    <3>2. out[o + 1] = GapCell(Original, Shift, o)
      BY <3>1, <1>1 DEF IInv, Gaps
    <3> QED  BY <3>2, <2>3 DEF CellAt
  <2>4. CASE SpansAt(spans, o) # {}
    <3> DEFINE i == CHOOSE k \in SpansAt(spans, o) : TRUE
               c == o - spans[i].at + 1
    <3>1. i \in SpansAt(spans, o)
      BY <2>4
    <3>2. CellAt(spans, Original, Shift, o) = spans[i].cells[c]
      BY <2>4 DEF CellAt
    <3> HIDE DEF i
    <3>3. i \in 1 .. Len(spans) /\ Covered(i, o)
      BY <3>1, <2>1, <2>2
    <3>6. /\ spans[i].at \in Nat /\ Len(spans[i].cells) \in Nat /\ o \in Nat
          /\ spans[i].at <= o /\ o < spans[i].at + Len(spans[i].cells)
      BY <3>3, <1>1, <1>2 DEF Covered
    <3>4. c \in 1 .. Len(spans[i].cells) /\ spans[i].at + c = o + 1
      BY <3>6
    <3> HIDE DEF c
    <3>5. out[spans[i].at + c] = spans[i].cells[c]
      BY <3>3, <3>4, <1>2 DEF IInv, Placed
    <3> QED  BY <3>2, <3>4, <3>5
  <2> QED  BY <2>3, <2>4
<1> QED  BY <1>1, <1>3 DEF Faithful

LEMMA InvOverlap == IInv => OverlapDetected
<1> SUFFICES ASSUME IInv PROVE OverlapDetected
  OBVIOUS
<1>1. status = "overlap" => Overlap(spans)
  BY DEF IInv, Blamed
<1>2. status = "past_end" => PastEnd(spans, Size)
  BY DEF IInv, Blamed
<1>3. ASSUME status = "done" PROVE ~Overlap(spans) /\ ~PastEnd(spans, Size)
  <2>1. /\ next = Len(spans) + 1 /\ Len(spans) \in Nat /\ spans \in SpanLists
        /\ cur \in Nat /\ cur <= Size /\ Size \in Nat
    BY <1>3, SpanFacts, SpanWriterAssumption DEF IInv, TypeOK, Reached
  <2>2. /\ next - 1 = Len(spans) /\ DOMAIN spans = 1 .. Len(spans)
        /\ \A i \in 1 .. Len(spans) :
             /\ spans[i].at \in Nat /\ Len(spans[i].cells) \in Nat
             /\ Len(spans[i].cells) > 0
             /\ SpanEnd(spans[i]) = spans[i].at + Len(spans[i].cells)
    BY <2>1, SpanFacts
  <2>3. /\ \A i \in 1 .. Len(spans) : SpanEnd(spans[i]) <= cur
        /\ \A i, j \in 1 .. Len(spans) : i < j => SpanEnd(spans[i]) <= spans[j].at
    BY <2>2 DEF IInv, InOrder
  <2>4. ASSUME NEW i \in 1 .. Len(spans), NEW j \in 1 .. Len(spans), i # j,
               spans[i].at <= spans[j].at,
               spans[j].at < spans[i].at + Len(spans[i].cells)
        PROVE  FALSE
    <3>1. CASE i < j
      BY <3>1, <2>2, <2>3, <2>4
    <3>2. CASE j < i
      BY <3>2, <2>2, <2>3, <2>4
    <3> QED  BY <3>1, <3>2, <2>4
  <2>5. ~Overlap(spans)
    BY <2>4, <2>2 DEF Overlap
  <2>6. ~PastEnd(spans, Size)
    BY <2>1, <2>2, <2>3 DEF PastEnd
  <2> QED  BY <2>5, <2>6
<1> QED  BY <1>1, <1>2, <1>3 DEF OverlapDetected

(* Faithful for every instance: whatever the input, the shift, the length  *)
(* and the sorted changed spans, a finished write_to_shifted has put every *)
(* span in place and the shifted input or zeros everywhere else.           *)
THEOREM WriterFaithful == Spec => []Faithful
BY Inductive, InvFaithful, PTL

(* OverlapDetected for every instance: the one comparison per span in      *)
(* write_to_shifted rejects every list with an overlap or a span past the  *)
(* end, and no other.                                                      *)
THEOREM WriterRejectsOverlap == Spec => []OverlapDetected
BY Inductive, InvOverlap, PTL
=============================================================================
