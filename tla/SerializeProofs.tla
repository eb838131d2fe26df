---------------------------- MODULE SerializeProofs ----------------------------
(***************************************************************************)
(* What a layout must establish for the writer (Laid), and what the file that*)
(* write_to_shifted returns then holds: every span at its place, the gaps of*)
(* the original between them, hence a usable file again (Written).  Then what*)
(* the fixups of a layout leave, and when a layout is laid out (LaidFrom). *)
(***************************************************************************)
EXTENDS OpsProofs

-----------------------------------------------------------------------------
(* Spans that share no cell are all found in the file written from them.   *)
Spans(all) ==
  \A i \in DOMAIN all : all[i].at \in Nat /\ IsList(all[i].cells)

(* The writer on spans that do not meet and lie in the file: it accepts    *)
(* them, every cell of a span is at its place, and what no span owns is    *)
(* the original's.                                                         *)
LEMMA SpansWritten ==
  ASSUME NEW all, Spans(all), Apart(all),
         NEW original, Len(original) \in Nat, NEW shift \in Nat, NEW total \in Nat,
         \A i \in DOMAIN all : all[i].cells # <<>> => Until(all[i]) <= total
  PROVE  LET owned == Owned(all, original, shift)
         IN /\ ~Overlap(owned) /\ ~PastEnd(owned, total)
            /\ \A i \in DOMAIN all : \A k \in DOMAIN all[i].cells :
                 CellAt(owned, original, shift, all[i].at + k - 1) = all[i].cells[k]
            /\ \A o \in Nat :
                 \/ CellAt(owned, original, shift, o) = GapCell(original, shift, o)
                 \/ \E i \in DOMAIN all : \E k \in DOMAIN all[i].cells :
                      /\ o = all[i].at + k - 1
                      /\ CellAt(owned, original, shift, o) = all[i].cells[k]
<1> DEFINE owned == Owned(all, original, shift)
<1>1. \A i \in DOMAIN all :
        /\ all[i].at \in Nat /\ Len(all[i].cells) \in Nat
        /\ DOMAIN all[i].cells = 1 .. Len(all[i].cells)
        /\ all[i].cells # <<>> <=> Len(all[i].cells) > 0
  BY ListSeq, NotEmpty DEF Spans, IsList
<1>2. /\ DOMAIN owned \subseteq DOMAIN all
      /\ \A i \in DOMAIN owned : owned[i] = all[i] /\ all[i].cells # <<>>
      /\ \A i \in DOMAIN all : (i \notin DOMAIN owned /\ all[i].cells # <<>>)
           => Unchanged(all[i], original, shift)
  BY DEF Owned
<1> HIDE DEF owned
<1>3. \A i, j \in DOMAIN all :
        (i # j /\ all[i].cells # <<>> /\ all[j].cells # <<>>)
          => \/ all[i].at + Len(all[i].cells) <= all[j].at
             \/ all[j].at + Len(all[j].cells) <= all[i].at
  BY DEF Apart, Until
<1>4. ~Overlap(owned)
  <2> SUFFICES ASSUME NEW i \in DOMAIN owned, NEW j \in DOMAIN owned, i # j,
                      owned[i].at <= owned[j].at,
                      owned[j].at < owned[i].at + Len(owned[i].cells)
               PROVE  FALSE
    BY DEF Overlap
  <2>1. i \in DOMAIN all /\ j \in DOMAIN all /\ owned[i] = all[i] /\ owned[j] = all[j]
        /\ all[i].cells # <<>> /\ all[j].cells # <<>>
    BY <1>2
  <2> QED
    BY <1>1, <1>3, <2>1
<1>5. ~PastEnd(owned, total)
  <2> SUFFICES ASSUME NEW i \in DOMAIN owned PROVE ~(owned[i].at + Len(owned[i].cells) > total)
    BY DEF PastEnd
  <2>1. i \in DOMAIN all /\ owned[i] = all[i] /\ all[i].cells # <<>>
    BY <1>2
  <2> QED
    BY <1>1, <2>1 DEF Until
<1>6. ASSUME NEW i \in DOMAIN all, NEW k \in DOMAIN all[i].cells
      PROVE  CellAt(owned, original, shift, all[i].at + k - 1) = all[i].cells[k]
  <2> DEFINE o == all[i].at + k - 1
             here == SpansAt(owned, o)
  <2>1. /\ o \in Nat /\ k \in 1 .. Len(all[i].cells) /\ all[i].cells # <<>>
        /\ all[i].at <= o /\ o < all[i].at + Len(all[i].cells) /\ o - all[i].at + 1 = k
    BY <1>1
  <2> HIDE DEF o
  <2>2. \A j \in here : j \in DOMAIN owned /\ owned[j].at <= o /\ o < owned[j].at + Len(owned[j].cells)
    BY DEF SpansAt
  <2>3. \A j \in here : j = i
    <3> SUFFICES ASSUME NEW j \in here, j # i PROVE FALSE
      OBVIOUS
    <3>1. /\ j \in DOMAIN all /\ owned[j] = all[j] /\ all[j].cells # <<>>
          /\ all[j].at <= o /\ o < all[j].at + Len(all[j].cells)
      BY <1>2, <2>2
    <3>2. /\ all[j].at \in Nat /\ Len(all[j].cells) \in Nat
          /\ all[i].at \in Nat /\ Len(all[i].cells) \in Nat
      BY <1>1, <3>1
    <3>3. \/ all[i].at + Len(all[i].cells) <= all[j].at
          \/ all[j].at + Len(all[j].cells) <= all[i].at
      BY <1>3, <2>1, <3>1
    <3>4. \A a, m, b, n \in Nat :
            (a <= o /\ o < a + m /\ b <= o /\ o < b + n) => ~(a + m <= b \/ b + n <= a)
      BY <2>1
    <3> QED
      BY <2>1, <3>1, <3>2, <3>3, <3>4
  <2>4. CASE i \in DOMAIN owned
    <3>1. i \in here
      BY <1>2, <2>1, <2>4 DEF SpansAt
    <3>2. here = {i}
      BY <2>3, <3>1
    <3>3. (CHOOSE j \in here : TRUE) = i
      BY <3>2
    <3>4. CellAt(owned, original, shift, o) = owned[i].cells[o - owned[i].at + 1]
      BY <3>2, <3>3 DEF CellAt
    <3> QED
      BY <1>2, <2>1, <2>4, <3>4 DEF o
  <2>5. CASE i \notin DOMAIN owned
    <3>1. here = {}
      BY <2>2, <2>3, <2>5
    <3>2. CellAt(owned, original, shift, o) = GapCell(original, shift, o)
      BY <3>1 DEF CellAt
    <3>3. /\ all[i].at >= shift /\ all[i].at - shift + Len(all[i].cells) <= Len(original)
          /\ Slice(original, all[i].at - shift, Len(all[i].cells)) = all[i].cells
      BY <1>2, <2>1, <2>5 DEF Unchanged
    <3>4. all[i].at - shift \in Nat /\ Len(all[i].cells) \in Nat /\ all[i].at \in Nat
      BY <1>1, <3>3
    <3>5. all[i].cells[k] = original[all[i].at - shift + k]
      <4>1. \A off, len \in Nat : \A j \in 1 .. len : Slice(original, off, len)[j] = original[off + j]
        BY SliceList
      <4>2. Slice(original, all[i].at - shift, Len(all[i].cells))[k] = original[all[i].at - shift + k]
        BY <2>1, <3>4, <4>1
      <4> QED
        BY <3>3, <4>2
    <3>6. GapCell(original, shift, o) = original[o - shift + 1]
      <4>1. o >= shift /\ o - shift < Len(original)
        <5>1. \A a, m, l \in Nat : (a >= shift /\ a <= o /\ o < a + m /\ a - shift + m <= l) =>
                o >= shift /\ o - shift < l
          BY <2>1
        <5> QED
          BY <2>1, <3>3, <3>4, <5>1
      <4> QED
        BY <4>1 DEF GapCell
    <3>7. o - shift + 1 = all[i].at - shift + k
      BY <2>1, <3>4
    <3> QED
      BY <3>2, <3>5, <3>6, <3>7 DEF o
  <2> QED
    BY <2>4, <2>5
<1>7. ASSUME NEW o \in Nat, CellAt(owned, original, shift, o) # GapCell(original, shift, o)
      PROVE  \E i \in DOMAIN all : \E k \in DOMAIN all[i].cells :
               o = all[i].at + k - 1 /\ CellAt(owned, original, shift, o) = all[i].cells[k]
  <2>1. PICK i : i \in SpansAt(owned, o)
    BY <1>7 DEF CellAt
  <2>2. i \in DOMAIN owned /\ owned[i].at <= o /\ o < owned[i].at + Len(owned[i].cells)
    BY <2>1 DEF SpansAt
  <2>3. i \in DOMAIN all /\ all[i].at <= o /\ o < all[i].at + Len(all[i].cells)
    BY <1>2, <2>2
  <2> DEFINE k == o - all[i].at + 1
  <2>4. k \in DOMAIN all[i].cells /\ o = all[i].at + k - 1
    BY <1>1, <2>3
  <2>5. CellAt(owned, original, shift, all[i].at + k - 1) = all[i].cells[k]
    <3> HIDE DEF k
    <3> QED
      BY <1>6, <2>3, <2>4
  <2> QED
    BY <2>3, <2>4, <2>5
<1> QED
  BY <1>4, <1>5, <1>6, <1>7 DEF owned

-----------------------------------------------------------------------------
(* The file header as the writer encodes it, with the counts of the        *)
(* tables.                                                                 *)
Counted(img) == [img.ehdr EXCEPT !.phnum = Len(img.phdrs), !.shnum = Len(img.shdrs)]
(* The cells a section has in the file.                                    *)
CellsOf(img, i) == IF img.shdrs[i].type = "NOBITS" THEN <<>> ELSE img.data[i]

(* No cells at all.                                                        *)
LEMMA EmptyCells == CellList(<<>>)
<1>1. \A x : x = <<>> => Len(x) = 0 /\ DOMAIN x = {} /\ x \in Seq({})
  OBVIOUS
<1> QED
  BY <1>1, SeqList DEF CellList

(* The spans of an image: header, tables, sections.                        *)
LEMMA SpanList ==
  ASSUME NEW img, IsImage(img)
  PROVE  LET all == AllSpans(img)
             n == Len(img.shdrs)
         IN /\ n \in Nat /\ DOMAIN all = 1 .. n + 3 /\ Len(all) = n + 3
            /\ all[1] = [at |-> 0, cells |-> <<Counted(img)>>]
            /\ all[2] = [at |-> img.ehdr.phoff, cells |-> img.phdrs]
            /\ all[3] = [at |-> img.ehdr.shoff, cells |-> img.shdrs]
            /\ \A i \in 1 .. n : all[i + 3] = [at |-> img.shdrs[i].offset, cells |-> CellsOf(img, i)]
<1> DEFINE n == Len(img.shdrs)
           a == [at |-> 0, cells |-> <<Counted(img)>>]
           b == [at |-> img.ehdr.phoff, cells |-> img.phdrs]
           c == [at |-> img.ehdr.shoff, cells |-> img.shdrs]
           s == [i \in DOMAIN img.shdrs |-> [at |-> img.shdrs[i].offset, cells |-> CellsOf(img, i)]]
           all == <<a, b, c>> \o Tuple(s)
<1>1. n \in Nat /\ DOMAIN img.shdrs = 1 .. n /\ IsList(img.shdrs)
  BY SeqList DEF IsImage
<1>2. AllSpans(img) = all
  BY DEF AllSpans, Counted, CellsOf
<1>3. DOMAIN s = DOMAIN img.shdrs /\ s = [i \in DOMAIN img.shdrs |-> s[i]]
      /\ \A i \in DOMAIN img.shdrs : s[i] = [at |-> img.shdrs[i].offset, cells |-> CellsOf(img, i)]
  OBVIOUS
<1> HIDE DEF s, a, b, c
<1>4. IsList(s) /\ Len(s) = n /\ Tuple(s) = s /\ DOMAIN s = 1 .. n
  BY <1>1, <1>3, ListMap
<1>5. /\ IsList(<<a, b, c>>) /\ Len(<<a, b, c>>) = 3 /\ DOMAIN <<a, b, c>> = 1 .. 3
      /\ <<a, b, c>>[1] = a /\ <<a, b, c>>[2] = b /\ <<a, b, c>>[3] = c
  <2>1. \A x, y, z : /\ <<x, y, z>> \in Seq({x, y, z}) /\ Len(<<x, y, z>>) = 3
                     /\ DOMAIN <<x, y, z>> = 1 .. 3
                     /\ <<x, y, z>>[1] = x /\ <<x, y, z>>[2] = y /\ <<x, y, z>>[3] = z
    OBVIOUS
  <2>2. \A x, y, z : IsList(<<x, y, z>>)
    BY <2>1, SeqList
  <2> QED
    BY <2>1, <2>2
<1>6. IsList(all) /\ IsJoin(all, <<a, b, c>>, s)
  BY <1>4, <1>5, ListConcat
<1> HIDE DEF all
<1>7. Len(all) = n + 3 /\ DOMAIN all = 1 .. n + 3
  BY <1>1, <1>4, <1>5, <1>6, ListSeq DEF IsJoin
<1>8. all[1] = a /\ all[2] = b /\ all[3] = c
  BY <1>5, <1>6 DEF IsJoin
<1>9. \A i \in 1 .. n : all[i + 3] = s[i]
  BY <1>4, <1>5, <1>6 DEF IsJoin
<1> QED
  BY <1>1, <1>2, <1>3, <1>7, <1>8, <1>9 DEF a, b, c

(* Every span begins at an offset and holds cells.                         *)
LEMMA SpanCells ==
  ASSUME NEW img, IsImage(img), NEW i \in DOMAIN AllSpans(img)
  PROVE  AllSpans(img)[i].at \in Nat /\ CellList(AllSpans(img)[i].cells)
<1> DEFINE all == AllSpans(img)
           n == Len(img.shdrs)
<1>1. /\ n \in Nat /\ i \in 1 .. n + 3
      /\ all[1] = [at |-> 0, cells |-> <<Counted(img)>>]
      /\ all[2] = [at |-> img.ehdr.phoff, cells |-> img.phdrs]
      /\ all[3] = [at |-> img.ehdr.shoff, cells |-> img.shdrs]
      /\ \A j \in 1 .. n : all[j + 3] = [at |-> img.shdrs[j].offset, cells |-> CellsOf(img, j)]
  BY SpanList
<1>2. /\ img.ehdr \in EhdrCell /\ img.phdrs \in Seq(PhdrCell) /\ img.shdrs \in Seq(ShdrCell)
      /\ DOMAIN img.shdrs = 1 .. n /\ Len(img.phdrs) \in Nat
  BY DEF IsImage
<1> HIDE DEF all
<1>3. CASE i = 1
  <2>1. Counted(img) \in EhdrCell
    BY <1>1, <1>2 DEF Counted, EhdrCell
  <2>2. Formed(Counted(img))
    BY <2>1 DEF Formed, EhdrCell
  <2>3. \A c : IsList(<<c>>) /\ DOMAIN <<c>> = {1} /\ <<c>>[1] = c
    <3> TAKE c
    <3>1. <<c>> \in Seq({c}) /\ DOMAIN <<c>> = {1} /\ <<c>>[1] = c
      OBVIOUS
    <3> QED
      BY <3>1, SeqList
  <2> QED
    BY <1>1, <1>3, <2>2, <2>3 DEF CellList, all
<1>4. CASE i = 2
  <2>1. \A c \in PhdrCell : Formed(c)
    BY DEF Formed, PhdrCell
  <2>2. CellList(img.phdrs)
    BY <1>2, <2>1, SeqList DEF CellList
  <2>3. img.ehdr.phoff \in Nat
    BY <1>2 DEF EhdrCell
  <2> QED
    BY <1>1, <1>4, <2>2, <2>3 DEF all
<1>5. CASE i = 3
  <2>1. \A c \in ShdrCell : Formed(c)
    BY DEF Formed, ShdrCell
  <2>2. CellList(img.shdrs)
    BY <1>2, <2>1, SeqList DEF CellList
  <2>3. img.ehdr.shoff \in Nat
    BY <1>2 DEF EhdrCell
  <2> QED
    BY <1>1, <1>5, <2>2, <2>3 DEF all
<1>6. CASE i > 3
  <2> DEFINE j == i - 3
  <2>1. j \in 1 .. n /\ j + 3 = i
    BY <1>1, <1>6
  <2> HIDE DEF j
  <2>2. all[i] = [at |-> img.shdrs[j].offset, cells |-> CellsOf(img, j)]
    BY <1>1, <2>1
  <2>3. img.shdrs[j] \in ShdrCell /\ CellList(img.data[j])
    BY <1>2, <2>1 DEF IsImage
  <2>4. img.shdrs[j].offset \in Nat
    BY <2>3 DEF ShdrCell
  <2>5. CellList(CellsOf(img, j))
    BY <2>3, EmptyCells DEF CellsOf
  <2> QED
    BY <2>2, <2>4, <2>5 DEF all
<1> QED
  BY <1>1, <1>3, <1>4, <1>5, <1>6

-----------------------------------------------------------------------------
(* Two images that differ in their counts and their dynamic arrays only.   *)
Alike(a, b) ==
  /\ a.phdrs = b.phdrs /\ a.shdrs = b.shdrs
  /\ a.ehdr.phoff = b.ehdr.phoff /\ a.ehdr.shoff = b.ehdr.shoff
  /\ a.ehdr.entry = b.ehdr.entry /\ a.ehdr.etype = b.ehdr.etype
  /\ a.ehdr.shstrndx = b.ehdr.shstrndx
  /\ \A i \in DOMAIN a.shdrs : CellsOf(a, i) = CellsOf(b, i)

(* Images alike in their headers answer alike about sections.              *)
LEMMA AlikeSections ==
  ASSUME NEW a, NEW b, IsImage(a), IsImage(b), Alike(a, b), Regular(a)
  PROVE  /\ DynIdx(a) = DynIdx(b) /\ PriorRegion(a) = PriorRegion(b)
         /\ \A name : FindSection(a, name) = FindSection(b, name)
         /\ Regular(b) /\ (SegmentsClear(a) <=> SegmentsClear(b))
<1>1. DOMAIN a.data = DOMAIN a.shdrs /\ DOMAIN b.data = DOMAIN b.shdrs /\ a.shdrs = b.shdrs
      /\ a.ehdr.shstrndx = b.ehdr.shstrndx /\ a.phdrs = b.phdrs /\ a.ehdr.phoff = b.ehdr.phoff
  BY ImageDomains DEF Alike
<1>2. DynIdx(a) = DynIdx(b) /\ PriorRegion(a) = PriorRegion(b)
  BY <1>1 DEF DynIdx, PriorRegion
<1>3. a.ehdr.shstrndx \in DOMAIN a.data =>
        a.data[a.ehdr.shstrndx] = b.data[b.ehdr.shstrndx]
  BY <1>1 DEF Alike, Regular, CellsOf
<1>4. \A i \in DOMAIN a.shdrs : SectionName(a, i) = SectionName(b, i)
  BY <1>1, <1>3 DEF SectionName
<1>5. ASSUME NEW name PROVE FindSection(a, name) = FindSection(b, name)
  <2>1. {i \in DOMAIN a.shdrs : SectionName(a, i) = name}
          = {i \in DOMAIN b.shdrs : SectionName(b, i) = name}
    BY <1>1, <1>4
  <2> QED
    BY <2>1 DEF FindSection
<1>6. Regular(b)
  BY <1>1, <1>2 DEF Regular
<1>7. SegmentsClear(a) <=> SegmentsClear(b)
  BY <1>1, <1>2 DEF SegmentsClear
<1> QED
  BY <1>2, <1>5, <1>6, <1>7

(* The checks of verify.rs that do not look at the dynamic entries.        *)
StaticChecks(img, total) ==
  /\ LoadsSound(img) /\ LoadsDisjoint(img) /\ PhtCovered(img) /\ PhdrAnchor(img)
  /\ FileBounds(img, total) /\ InterpFramed(img) /\ EntryExecutable(img)

(* Images alike in their headers pass the same checks.                     *)
LEMMA AlikeChecks ==
  ASSUME NEW a, NEW b, IsImage(a), IsImage(b), Alike(a, b), Regular(a), NEW total,
         StaticChecks(a, total)
  PROVE  StaticChecks(b, total)
<1>1. /\ a.phdrs = b.phdrs /\ a.shdrs = b.shdrs
      /\ a.ehdr.phoff = b.ehdr.phoff /\ a.ehdr.shoff = b.ehdr.shoff
      /\ a.ehdr.entry = b.ehdr.entry /\ a.ehdr.etype = b.ehdr.etype
      /\ FindSection(a, Interp) = FindSection(b, Interp)
  BY AlikeSections DEF Alike
<1>2. LoadsSound(b) /\ LoadsDisjoint(b)
  BY <1>1 DEF StaticChecks, LoadsSound, LoadsDisjoint
<1>3. PhtCovered(b) /\ PhdrAnchor(b)
  BY <1>1 DEF StaticChecks, PhtCovered, PhdrAnchor, HasSeg, Seg
<1>4. FileBounds(b, total) /\ EntryExecutable(b)
  BY <1>1 DEF StaticChecks, FileBounds, EntryExecutable
<1>5. InterpFramed(b)
  BY <1>1 DEF StaticChecks, InterpFramed, HasSeg, Seg
<1> QED
  BY <1>2, <1>3, <1>4, <1>5 DEF StaticChecks

-----------------------------------------------------------------------------
(* The dynamic array as its section holds it, and what is read back: up to *)
(* an entry that is not a terminator, the array that was written.          *)
Encoded(dynamic, n) ==
  Tuple([j \in 1 .. n |-> IF j <= Len(dynamic) THEN WriteDyn(dynamic[j]) ELSE Zero])

(* Reading back the entries of a dynamic section, up to its NULL.          *)
Reads(read, dynamic) ==
  \A i \in DOMAIN read : read[i].tag # "NULL" =>
    \A j \in 1 .. i : j \in DOMAIN dynamic /\ j \in DOMAIN read /\ read[j] = dynamic[j]

(* What the writer encodes into .dynamic is what the parser reads from it. *)
LEMMA EncodedReads ==
  ASSUME NEW dynamic \in Seq(DynCell), NEW n \in Nat, n >= Len(dynamic)
  PROVE  LET cells == Encoded(dynamic, n)
         IN /\ CellList(cells) /\ Len(cells) = n
            /\ \A j \in DOMAIN cells : cells[j].k \in {"dyn", "zero"}
            /\ Reads(ReadDynArray(cells), dynamic)
<1> DEFINE c == [j \in 1 .. n |-> IF j <= Len(dynamic) THEN WriteDyn(dynamic[j]) ELSE Zero]
           e == [i \in DOMAIN c |-> ReadDyn(c[i])]
           entries == Tuple(e)
           N == {i \in 1 .. Len(entries) : entries[i].tag = "NULL"}
           null == IF N # {} THEN Min(N) ELSE 0
           read == ReadDynArray(c)
<1>1. Len(dynamic) \in Nat /\ DOMAIN dynamic = 1 .. Len(dynamic)
      /\ \A j \in 1 .. Len(dynamic) : dynamic[j] \in DynCell
  OBVIOUS
<1>2. ASSUME NEW d \in DynCell
      PROVE  /\ WriteDyn(d).k \in {"dyn", "zero"} /\ Formed(WriteDyn(d))
             /\ ReadDyn(WriteDyn(d)) = d
  <2>1. d.k = "dyn" /\ d # Zero
    BY DEF DynCell, Zero
  <2>2. Formed(d) /\ Formed(Zero)
    BY <2>1 DEF Formed, Zero
  <2>3. CASE d = Dyn("NULL", 0)
    <3>1. WriteDyn(d) = Zero /\ Zero.k = "zero" /\ ReadDyn(Zero) = Dyn("NULL", 0)
      BY <2>3 DEF WriteDyn, Zero, ReadDyn
    <3> QED
      BY <2>2, <2>3, <3>1
  <2>4. CASE d # Dyn("NULL", 0)
    <3>1. WriteDyn(d) = d /\ ReadDyn(d) = d
      BY <2>1, <2>4 DEF WriteDyn, ReadDyn
    <3> QED
      BY <2>1, <2>2, <3>1
  <2> QED
    BY <2>3, <2>4
<1>3. /\ Zero.k = "zero" /\ Formed(Zero) /\ ReadDyn(Zero).tag = "NULL"
  BY DEF Zero, Formed, ReadDyn, Dyn
<1>4. /\ DOMAIN c = 1 .. n /\ c = [j \in 1 .. n |-> c[j]]
      /\ \A j \in 1 .. n : j <= Len(dynamic) => c[j] = WriteDyn(dynamic[j])
      /\ \A j \in 1 .. n : ~(j <= Len(dynamic)) => c[j] = Zero
  OBVIOUS
<1> HIDE DEF c
<1>5. IsList(c) /\ Len(c) = n
  BY <1>4, FunctionList
<1>6. Encoded(dynamic, n) = c
  BY <1>5, TupleSame DEF Encoded, c
<1>7. \A j \in 1 .. n : /\ c[j].k \in {"dyn", "zero"} /\ Formed(c[j])
                        /\ j <= Len(dynamic) => ReadDyn(c[j]) = dynamic[j]
                        /\ ~(j <= Len(dynamic)) => ReadDyn(c[j]).tag = "NULL"
  BY <1>1, <1>2, <1>3, <1>4
<1>8. CellList(c)
  BY <1>4, <1>5, <1>7 DEF CellList
<1>9. DOMAIN e = DOMAIN c /\ e = [i \in DOMAIN c |-> e[i]]
      /\ \A j \in 1 .. n : e[j] = ReadDyn(c[j])
  BY <1>4
<1>10. read = IF null = 0 THEN entries ELSE SubSeq(entries, 1, null)
  BY DEF ReadDynArray, SelectInSeq
<1> HIDE DEF e
<1>11. IsList(e) /\ entries = e /\ Len(e) = n /\ DOMAIN e = 1 .. n
  BY <1>4, <1>5, <1>9, ListMap
<1>12. /\ null = 0 => \A j \in 1 .. n : e[j].tag # "NULL"
       /\ null # 0 => null \in 1 .. n /\ e[null].tag = "NULL"
                      /\ \A j \in 1 .. n : e[j].tag = "NULL" => null <= j
  <2>1. N \subseteq 1 .. n /\ \A j \in 1 .. n : j \in N <=> e[j].tag = "NULL"
    BY <1>11
  <2> HIDE DEF N
  <2>2. N # {} => Min(N) \in N /\ \A j \in N : Min(N) <= j
    BY <2>1, LeastIndex
  <2>3. N # {} => null = Min(N) /\ null \in 1 .. n
    BY <2>1, <2>2
  <2> QED
    BY <2>1, <2>2, <2>3
<1> HIDE DEF null, entries, read
<1>13. /\ DOMAIN read \subseteq 1 .. n /\ \A i \in DOMAIN read : 1 .. i \subseteq DOMAIN read
       /\ \A i \in DOMAIN read : read[i] = e[i]
       /\ null # 0 => \A i \in DOMAIN read : i <= null
  <2>1. CASE null = 0
    BY <1>10, <1>11, <2>1
  <2>2. CASE null # 0
    <3>1. read = SubSeq(e, 1, null) /\ null \in 1 .. n
      BY <1>10, <1>11, <1>12, <2>2
    <3>2. /\ DOMAIN SubSeq(e, 1, null) = 1 .. null
          /\ \A i \in 1 .. null : SubSeq(e, 1, null)[i] = e[i]
      <4>1. 1 \in Int /\ null \in Int /\ 1 <= null /\ null - 1 + 1 = null
            /\ \A i \in 1 .. null : 1 + i - 1 = i
        BY <3>1
      <4>2. LET l == IF 1 <= null THEN null - 1 + 1 ELSE 0
            IN /\ DOMAIN SubSeq(e, 1, null) = 1 .. l
               /\ \A i \in 1 .. l : SubSeq(e, 1, null)[i] = e[1 + i - 1]
        BY <4>1, ListSub
      <4> QED
        BY <4>1, <4>2
    <3> QED
      BY <3>1, <3>2
  <2> QED
    BY <2>1, <2>2
<1>14. Reads(read, dynamic)
  <2> SUFFICES ASSUME NEW i \in DOMAIN read, read[i].tag # "NULL", NEW j \in 1 .. i
               PROVE  j \in DOMAIN dynamic /\ j \in DOMAIN read /\ read[j] = dynamic[j]
    BY DEF Reads
  <2>1. i \in 1 .. n /\ j \in 1 .. n /\ j \in DOMAIN read /\ j <= i /\ e[i].tag # "NULL"
    BY <1>13
  <2>2. j <= Len(dynamic)
    <3> SUFFICES ASSUME ~(j <= Len(dynamic)) PROVE FALSE
      OBVIOUS
    <3>1. ~(i <= Len(dynamic))
      BY <1>1, <2>1
    <3> QED
      BY <1>7, <1>9, <2>1, <3>1
  <2>3. j \in 1 .. Len(dynamic)
    BY <1>1, <2>1, <2>2
  <2> QED
    BY <1>1, <1>7, <1>9, <1>13, <2>1, <2>2, <2>3
<1> QED
  BY <1>4, <1>5, <1>6, <1>7, <1>8, <1>14 DEF read

(* The checks of the dynamic array hold of what is read back.              *)
LEMMA ReadChecks ==
  ASSUME NEW a, NEW b, IsImage(a), IsImage(b), Alike(a, b), Regular(a),
         Reads(b.dynamic, a.dynamic),
         DynamicConsistent(a), DynamicMapped(a)
  PROVE  DynamicConsistent(b) /\ DynamicMapped(b)
<1>1. /\ a.phdrs = b.phdrs /\ a.shdrs = b.shdrs /\ DynIdx(a) = DynIdx(b)
      /\ FindSection(a, Dynstr) = FindSection(b, Dynstr)
      /\ \A type : HasSeg(a, type) <=> HasSeg(b, type)
      /\ \A type : Seg(a, type) = Seg(b, type)
  BY AlikeSections DEF Alike, HasSeg, Seg
<1>2. /\ DOMAIN b.dynamic = 1 .. Len(b.dynamic) /\ Len(b.dynamic) \in Nat
      /\ DOMAIN a.dynamic = 1 .. Len(a.dynamic) /\ Len(a.dynamic) \in Nat
  BY ImageDomains
<1>3. ASSUME NEW tag, tag # "NULL", HasTag(b, tag)
      PROVE  HasTag(a, tag) /\ DVal(a, tag) = DVal(b, tag)
  <2> DEFINE A == {i \in 1 .. Len(a.dynamic) : a.dynamic[i].tag = tag}
             B == {i \in 1 .. Len(b.dynamic) : b.dynamic[i].tag = tag}
  <2>1. B # {}
    BY <1>2, <1>3 DEF HasTag
  <2>2. B \subseteq 1 .. Len(b.dynamic) /\ A \subseteq 1 .. Len(a.dynamic)
    OBVIOUS
  <2>3. Min(B) \in B /\ \A y \in B : Min(B) <= y
    <3> HIDE DEF B
    <3> QED
      BY <1>2, <2>1, <2>2, LeastIndex
  <2>4. \A j \in 1 .. Min(B) : j \in DOMAIN a.dynamic /\ j \in DOMAIN b.dynamic
                               /\ b.dynamic[j] = a.dynamic[j]
    <3>1. Min(B) \in DOMAIN b.dynamic /\ b.dynamic[Min(B)].tag = tag
      BY <1>2, <2>3
    <3> HIDE DEF B
    <3> QED
      BY <1>3, <3>1 DEF Reads
  <2>5. Min(B) \in 1 .. Min(B)
    <3>1. Min(B) \in 1 .. Len(b.dynamic)
      BY <2>3
    <3> QED
      BY <3>1
  <2>6. Min(B) \in A
    <3>1. b.dynamic[Min(B)].tag = tag
      BY <2>3
    <3> QED
      BY <1>2, <2>4, <2>5, <3>1
  <2>7. Min(A) \in A /\ \A y \in A : Min(A) <= y
    <3> HIDE DEF A
    <3> QED
      BY <1>2, <2>2, <2>6, LeastIndex
  <2>8. Min(A) = Min(B)
    <3>1. Min(A) <= Min(B) /\ Min(A) \in 1 .. Len(a.dynamic) /\ a.dynamic[Min(A)].tag = tag
      BY <2>6, <2>7
    <3>2. Min(B) \in 1 .. Len(b.dynamic)
      BY <2>3
    <3>3. Min(A) \in 1 .. Min(B)
      BY <3>1, <3>2
    <3>4. Min(A) \in B
      BY <1>2, <2>4, <3>1, <3>3
    <3>5. Min(B) <= Min(A)
      BY <2>3, <3>4
    <3> QED
      BY <1>2, <3>1, <3>2, <3>5
  <2>9. DVal(a, tag) = a.dynamic[Min(A)].val /\ DVal(b, tag) = b.dynamic[Min(B)].val
    BY <2>1, <2>6 DEF DVal, SelectInSeq
  <2>10. HasTag(a, tag)
    BY <1>2, <2>6 DEF HasTag
  <2> QED
    BY <2>4, <2>5, <2>8, <2>9, <2>10
<1>4. \A i \in DOMAIN b.dynamic : b.dynamic[i].tag # "NULL" =>
        i \in DOMAIN a.dynamic /\ a.dynamic[i] = b.dynamic[i]
  <2> SUFFICES ASSUME NEW i \in DOMAIN b.dynamic, b.dynamic[i].tag # "NULL"
               PROVE  i \in DOMAIN a.dynamic /\ a.dynamic[i] = b.dynamic[i]
    OBVIOUS
  <2>1. i \in 1 .. i
    BY <1>2
  <2> QED
    BY <2>1 DEF Reads
<1>5. "NULL" \notin StrTags /\ "NULL" \notin AddrTags /\ "STRTAB" # "NULL" /\ "STRSZ" # "NULL"
  BY DEF StrTags, AddrTags
<1>6. DynamicMapped(b)
  BY <1>1, <1>4, <1>5 DEF DynamicMapped
<1>7. HasTag(b, "STRTAB") => HasTag(a, "STRTAB") /\ DVal(a, "STRTAB") = DVal(b, "STRTAB")
  BY <1>3, <1>5
<1>8. HasTag(b, "STRSZ") => HasTag(a, "STRSZ") /\ DVal(a, "STRSZ") = DVal(b, "STRSZ")
  BY <1>3, <1>5
<1>9. HasTag(b, "STRSZ") =>
        \A i \in DOMAIN b.dynamic :
          b.dynamic[i].tag \in StrTags => b.dynamic[i].val < DVal(b, "STRSZ")
  BY <1>4, <1>5, <1>8 DEF DynamicConsistent
<1>10. DynamicConsistent(b)
  BY <1>1, <1>7, <1>8, <1>9 DEF DynamicConsistent
<1> QED
  BY <1>6, <1>10

-----------------------------------------------------------------------------
(* What the layout engine hands to the writer: sections as long as their   *)
(* headers say, nothing on top of anything, the dynamic array encoded in   *)
(* its section or, without sections, where f has it.                       *)
Anchors(img, f, shift) ==
  /\ Addressed(ReadDynamic(f)) \subseteq Range(img.dynamic)
  /\ Dynamics(img.phdrs) # {} => Shdrs(f) = <<>>
  /\ \A p \in Dynamics(img.phdrs) : \E q \in Dynamics(Phdrs(f)) :
       p.offset = q.offset + shift /\ p.filesz = q.filesz

(* What a layout has to establish so that the writer may write its image.  *)
Laid(img, f, shift) ==
  /\ IsImage(img) /\ SizesSynced(img) /\ Apart(AllSpans(img))
  /\ Regular(img) /\ SegmentsClear(img)
  /\ DynIdx(img) # 0 =>
       /\ Len(img.dynamic) <= img.shdrs[DynIdx(img)].size
       /\ img.data[DynIdx(img)] = Encoded(img.dynamic, img.shdrs[DynIdx(img)].size)
  /\ DynIdx(img) = 0 => Anchors(img, f, shift)
  /\ Sectioned(f) => img.shdrs # <<>>

(* The file that is written holds every span, and between them f.          *)
Holds(g, all, f, shift, total) ==
  /\ CellList(g) /\ Len(g) = total
  /\ \A i \in DOMAIN all : \A k \in DOMAIN all[i].cells :
       all[i].at + k \in DOMAIN g /\ g[all[i].at + k] = all[i].cells[k]
  /\ \A o \in 0 .. total - 1 :
       (\A i \in DOMAIN all : all[i].cells # <<>> => o < all[i].at \/ Until(all[i]) <= o)
         => g[o + 1] = GapCell(f, shift, o)

(* The writer accepts a laid-out image, and the file holds every span.     *)
LEMMA FileHolds ==
  ASSUME NEW img, NEW f, CellList(f), NEW shift \in Nat, NEW total \in Nat,
         IsImage(img), SizesSynced(img), Apart(AllSpans(img)),
         \A i \in DOMAIN AllSpans(img) :
           AllSpans(img)[i].cells # <<>> => Until(AllSpans(img)[i]) <= total
  PROVE  LET r == WriteShifted(img, f, shift, total)
         IN r.err = "none" /\ Holds(r.file, AllSpans(img), f, shift, total)
<1> DEFINE all == AllSpans(img)
           spans == Owned(all, f, shift)
           cells == [p \in 1 .. total |-> CellAt(spans, f, shift, p - 1)]
           r == WriteShifted(img, f, shift, total)
<1>1. Spans(all) /\ \A i \in DOMAIN all : CellList(all[i].cells)
  BY SpanCells DEF Spans, CellList
<1>2. \A i \in DOMAIN all : all[i].at \in Nat /\ IsList(all[i].cells)
        /\ Len(all[i].cells) \in Nat /\ DOMAIN all[i].cells = 1 .. Len(all[i].cells)
        /\ (all[i].cells # <<>> <=> Len(all[i].cells) > 0)
  BY <1>1, ListSeq, NotEmpty DEF Spans, IsList
<1>3. Len(f) \in Nat /\ DOMAIN f = 1 .. Len(f) /\ \A i \in 1 .. Len(f) : Formed(f[i])
  BY ListSeq DEF CellList, IsList
<1> HIDE DEF all
<1>4. /\ ~Overlap(spans) /\ ~PastEnd(spans, total)
      /\ \A i \in DOMAIN all : \A k \in DOMAIN all[i].cells :
           CellAt(spans, f, shift, all[i].at + k - 1) = all[i].cells[k]
      /\ \A o \in Nat :
           \/ CellAt(spans, f, shift, o) = GapCell(f, shift, o)
           \/ \E i \in DOMAIN all : \E k \in DOMAIN all[i].cells :
                o = all[i].at + k - 1 /\ CellAt(spans, f, shift, o) = all[i].cells[k]
  <2>1. Apart(all) /\ \A i \in DOMAIN all : all[i].cells # <<>> => Until(all[i]) <= total
    BY DEF all
  <2> HIDE DEF spans
  <2> QED
    BY <1>1, <1>3, <2>1, SpansWritten DEF spans
<1>5. r = [err |-> "none", file |-> Tuple(cells)]
  BY <1>4 DEF WriteShifted, OwnedSpans, all
<1> HIDE DEF spans
<1>6. /\ DOMAIN cells = 1 .. total /\ cells = [p \in 1 .. total |-> cells[p]]
      /\ \A p \in 1 .. total : cells[p] = CellAt(spans, f, shift, p - 1)
  OBVIOUS
<1> HIDE DEF cells, r
<1>7. IsList(cells) /\ Len(cells) = total /\ Tuple(cells) = cells
  BY <1>6, FunctionList, TupleSame
<1>8. ASSUME NEW o \in Nat PROVE Formed(GapCell(f, shift, o))
  <2>1. CASE o >= shift /\ o - shift < Len(f)
    <3>1. o - shift + 1 \in 1 .. Len(f)
      BY <1>3, <2>1
    <3> QED
      BY <1>3, <2>1, <3>1 DEF GapCell
  <2>2. CASE ~(o >= shift /\ o - shift < Len(f))
    BY <2>2 DEF GapCell, Zero, Formed
  <2> QED
    BY <2>1, <2>2
<1>9. \A p \in 1 .. total : Formed(cells[p])
  <2> SUFFICES ASSUME NEW p \in 1 .. total PROVE Formed(cells[p])
    OBVIOUS
  <2>1. p - 1 \in Nat
    OBVIOUS
  <2>2. CASE cells[p] = GapCell(f, shift, p - 1)
    BY <1>8, <2>1, <2>2
  <2>3. CASE \E i \in DOMAIN all : \E k \in DOMAIN all[i].cells : cells[p] = all[i].cells[k]
    BY <1>1, <2>3 DEF CellList
  <2> QED
    BY <1>4, <1>6, <2>1, <2>2, <2>3
<1>10. CellList(cells)
  BY <1>6, <1>7, <1>9 DEF CellList
<1>11. ASSUME NEW i \in DOMAIN all, NEW k \in DOMAIN all[i].cells
       PROVE  all[i].at + k \in DOMAIN cells /\ cells[all[i].at + k] = all[i].cells[k]
  <2>1. k \in 1 .. Len(all[i].cells) /\ all[i].at + Len(all[i].cells) <= total
    BY <1>2, <1>11 DEF all, Until
  <2>2. all[i].at + k \in 1 .. total /\ (all[i].at + k) - 1 = all[i].at + k - 1
    <3>1. \A a, m \in Nat : \A j \in 1 .. m : a + m <= total =>
            a + j \in 1 .. total /\ (a + j) - 1 = a + j - 1
      OBVIOUS
    <3> QED
      BY <1>2, <2>1, <3>1
  <2> QED
    BY <1>4, <1>6, <2>2
<1>12. ASSUME NEW o \in 0 .. total - 1,
              \A i \in DOMAIN all : all[i].cells # <<>> => o < all[i].at \/ Until(all[i]) <= o
       PROVE  cells[o + 1] = GapCell(f, shift, o)
  <2>1. o \in Nat /\ o + 1 \in 1 .. total /\ o + 1 - 1 = o
    OBVIOUS
  <2>2. ASSUME NEW i \in DOMAIN all, NEW k \in DOMAIN all[i].cells, o = all[i].at + k - 1 PROVE FALSE
    <3>1. k \in 1 .. Len(all[i].cells) /\ Len(all[i].cells) \in Nat /\ all[i].at \in Nat
          /\ all[i].cells # <<>>
      BY <1>2
    <3>2. o < all[i].at \/ all[i].at + Len(all[i].cells) <= o
      BY <1>12, <3>1 DEF Until
    <3> QED
      BY <2>2, <3>1, <3>2
  <2> QED
    BY <1>4, <1>6, <2>1, <2>2
<1>13. Holds(cells, all, f, shift, total)
  BY <1>7, <1>10, <1>11, <1>12 DEF Holds
<1>14. r.err = "none" /\ r.file = cells
  BY <1>5, <1>7
<1> QED
  BY <1>13, <1>14 DEF all, r

(* A window of the file that is one of its spans.                          *)
LEMMA WindowRead ==
  ASSUME NEW g, NEW at \in Nat, NEW cells, IsList(cells),
         \A k \in DOMAIN cells : g[at + k] = cells[k]
  PROVE  Slice(g, at, Len(cells)) = cells
<1>1. Len(cells) \in Nat /\ DOMAIN cells = 1 .. Len(cells)
  BY ListSeq DEF IsList
<1> DEFINE s == Slice(g, at, Len(cells))
<1>2. /\ IsList(s) /\ Len(s) = Len(cells) /\ DOMAIN s = 1 .. Len(cells)
      /\ \A i \in 1 .. Len(cells) : s[i] = g[at + i]
  BY <1>1, SliceList
<1> HIDE DEF s
<1>3. \A i \in 1 .. Len(cells) : s[i] = cells[i]
  BY <1>1, <1>2
<1>4. s = [i \in 1 .. Len(cells) |-> s[i]] /\ cells = [i \in 1 .. Len(cells) |-> cells[i]]
  BY <1>2 DEF IsList
<1>5. s = cells
  BY <1>3, <1>4
<1> QED
  BY <1>5 DEF s

(* The image is read back from the file, but for the counts and the        *)
(* dynamic array.                                                          *)
LEMMA ReadBack ==
  ASSUME NEW img, NEW f, NEW g, NEW shift, NEW total, IsImage(img), SizesSynced(img),
         Holds(g, AllSpans(img), f, shift, total)
  PROVE  /\ g[1] = Counted(img) /\ Phdrs(g) = img.phdrs /\ Shdrs(g) = img.shdrs
         /\ \A i \in DOMAIN img.shdrs :
              /\ img.shdrs[i].type # "NOBITS" =>
                   Slice(g, img.shdrs[i].offset, img.shdrs[i].size) = img.data[i]
              /\ ReadData(g)[i] = CellsOf(img, i)
<1> DEFINE all == AllSpans(img)
           n == Len(img.shdrs)
<1>1. /\ n \in Nat /\ DOMAIN all = 1 .. n + 3
      /\ all[1] = [at |-> 0, cells |-> <<Counted(img)>>]
      /\ all[2] = [at |-> img.ehdr.phoff, cells |-> img.phdrs]
      /\ all[3] = [at |-> img.ehdr.shoff, cells |-> img.shdrs]
      /\ \A i \in 1 .. n : all[i + 3] = [at |-> img.shdrs[i].offset, cells |-> CellsOf(img, i)]
  BY SpanList
<1>2. \A i \in DOMAIN all : \A k \in DOMAIN all[i].cells : g[all[i].at + k] = all[i].cells[k]
  BY DEF Holds
<1>3. /\ DOMAIN img.shdrs = 1 .. n /\ img.ehdr \in EhdrCell
      /\ IsList(img.phdrs) /\ IsList(img.shdrs) /\ Len(img.phdrs) \in Nat
  BY SeqList DEF IsImage
<1> HIDE DEF all
<1>4. 1 \in DOMAIN all /\ 2 \in DOMAIN all /\ 3 \in DOMAIN all
      /\ \A i \in 1 .. n : i + 3 \in DOMAIN all
  BY <1>1
<1>5. g[1] = Counted(img)
  <2>1. \A c : DOMAIN <<c>> = {1} /\ <<c>>[1] = c
    OBVIOUS
  <2>2. 0 + 1 = 1
    OBVIOUS
  <2> QED
    BY <1>1, <1>2, <1>4, <2>1, <2>2
<1>6. /\ g[1].phoff = img.ehdr.phoff /\ g[1].phnum = Len(img.phdrs)
      /\ g[1].shoff = img.ehdr.shoff /\ g[1].shnum = n
      /\ img.ehdr.phoff \in Nat /\ img.ehdr.shoff \in Nat
  BY <1>3, <1>5 DEF Counted, EhdrCell
<1>20. \A at \in Nat : \A cells :
         (IsList(cells) /\ \A k \in DOMAIN cells : g[at + k] = cells[k])
           => Slice(g, at, Len(cells)) = cells
  BY WindowRead
<1>7. Phdrs(g) = img.phdrs
  <2>1. \A k \in DOMAIN img.phdrs : g[img.ehdr.phoff + k] = img.phdrs[k]
    BY <1>1, <1>2, <1>4
  <2> QED
    BY <1>3, <1>6, <1>20, <2>1 DEF Phdrs
<1>8. Shdrs(g) = img.shdrs
  <2>1. \A k \in DOMAIN img.shdrs : g[img.ehdr.shoff + k] = img.shdrs[k]
    BY <1>1, <1>2, <1>4
  <2> QED
    BY <1>3, <1>6, <1>20, <2>1 DEF Shdrs
<1>9. ASSUME NEW i \in DOMAIN img.shdrs, img.shdrs[i].type # "NOBITS"
      PROVE  Slice(g, img.shdrs[i].offset, img.shdrs[i].size) = img.data[i]
  <2>1. all[i + 3].at = img.shdrs[i].offset /\ all[i + 3].cells = img.data[i] /\ i + 3 \in DOMAIN all
    <3>1. CellsOf(img, i) = img.data[i] /\ i \in 1 .. n
      BY <1>3, <1>9 DEF CellsOf
    <3>2. all[i + 3] = [at |-> img.shdrs[i].offset, cells |-> CellsOf(img, i)] /\ i + 3 \in DOMAIN all
      BY <1>1, <1>4, <3>1
    <3> QED
      BY <3>1, <3>2
  <2>2. \A k \in DOMAIN img.data[i] : g[img.shdrs[i].offset + k] = img.data[i][k]
    BY <1>2, <2>1
  <2>3. IsList(img.data[i]) /\ Len(img.data[i]) = img.shdrs[i].size
    BY <1>9 DEF IsImage, CellList, SizesSynced
  <2>4. img.shdrs[i].offset \in Nat
    <3>1. img.shdrs[i] \in ShdrCell
      BY ImageDomains
    <3> QED
      BY <3>1 DEF ShdrCell
  <2>5. Slice(g, img.shdrs[i].offset, img.shdrs[i].size) = img.data[i]
    <3>1. Slice(g, img.shdrs[i].offset, Len(img.data[i])) = img.data[i]
      BY <1>20, <2>2, <2>3, <2>4
    <3> QED
      BY <2>3, <3>1
  <2> QED
    BY <2>5
<1>10. \A i \in DOMAIN img.shdrs : ReadData(g)[i] = CellsOf(img, i)
  BY <1>8, <1>9 DEF ReadData, CellsOf
<1> QED
  BY <1>5, <1>7, <1>8, <1>9, <1>10

(* What verify bounds: no span reaches past the end of the file.           *)
LEMMA SpansFit ==
  ASSUME NEW img, NEW total \in Nat, IsImage(img), SizesSynced(img), Apart(AllSpans(img)),
         VerifyOK(img, total)
  PROVE  /\ total >= 1 /\ img.ehdr.shoff + Len(img.shdrs) <= total
         /\ \A i \in DOMAIN AllSpans(img) :
              AllSpans(img)[i].cells # <<>> => Until(AllSpans(img)[i]) <= total
<1> DEFINE all == AllSpans(img)
           n == Len(img.shdrs)
<1>1. /\ n \in Nat /\ DOMAIN all = 1 .. n + 3
      /\ all[1] = [at |-> 0, cells |-> <<Counted(img)>>]
      /\ all[2] = [at |-> img.ehdr.phoff, cells |-> img.phdrs]
      /\ all[3] = [at |-> img.ehdr.shoff, cells |-> img.shdrs]
      /\ \A i \in 1 .. n : all[i + 3] = [at |-> img.shdrs[i].offset, cells |-> CellsOf(img, i)]
  BY SpanList
<1>2. /\ DOMAIN img.shdrs = 1 .. n /\ Len(img.phdrs) \in Nat /\ DOMAIN img.phdrs = 1 .. Len(img.phdrs)
      /\ img.ehdr.phoff \in Nat /\ img.ehdr.shoff \in Nat
      /\ IsList(img.shdrs) /\ IsList(img.phdrs)
  BY SeqList DEF IsImage, EhdrCell
<1>3. FileBounds(img, total) /\ PhtCovered(img)
  BY DEF VerifyOK
<1>4. Len(img.phdrs) >= 1
  <2>1. Loads(img.phdrs) # {}
    BY <1>3 DEF PhtCovered
  <2>2. DOMAIN img.phdrs # {}
    BY <2>1 DEF Loads
  <2> QED
    BY <1>2, <2>2
<1>5. total >= 1 /\ img.ehdr.phoff + Len(img.phdrs) <= total
  BY <1>2, <1>3, <1>4 DEF FileBounds
<1>6. \A c : Len(<<c>>) = 1 /\ <<c>> # <<>>
  OBVIOUS
<1>7. img.shdrs # <<>> => img.ehdr.shoff # 0
  <2> SUFFICES ASSUME img.shdrs # <<>>, img.ehdr.shoff = 0 PROVE FALSE
    OBVIOUS
  <2>1. n >= 1 /\ 1 \in DOMAIN all /\ 3 \in DOMAIN all
    BY <1>1, <1>2, NotEmpty
  <2>2. \/ Until(all[1]) <= all[3].at \/ Until(all[3]) <= all[1].at
    <3>1. all[1].cells # <<>> /\ all[3].cells # <<>>
      BY <1>1, <1>6
    <3>2. Apart(all)
      OBVIOUS
    <3> HIDE DEF all
    <3> QED
      BY <2>1, <3>1, <3>2 DEF Apart
  <2>3. Until(all[1]) = 0 + 1 /\ Until(all[3]) = 0 + n /\ all[1].at = 0 /\ all[3].at = 0
    BY <1>1, <1>6 DEF Until
  <2> QED
    BY <2>1, <2>2, <2>3
<1>8. img.ehdr.shoff + n <= total
  <2>1. CASE img.ehdr.shoff # 0
    BY <1>3, <2>1 DEF FileBounds
  <2>2. CASE img.ehdr.shoff = 0
    <3>1. n = 0
      BY <1>1, <1>2, <1>7, <2>2, NotEmpty
    <3> QED
      BY <1>5, <2>2, <3>1
  <2> QED
    BY <2>1, <2>2
<1> HIDE DEF all
<1>9. ASSUME NEW i \in DOMAIN all, all[i].cells # <<>> PROVE Until(all[i]) <= total
  <2>1. CASE i = 1
    <3>1. Until(all[1]) = 0 + 1
      BY <1>1, <1>6 DEF Until
    <3> QED
      BY <1>5, <2>1, <3>1
  <2>2. CASE i = 2
    BY <1>1, <1>5, <2>2 DEF Until
  <2>3. CASE i = 3
    BY <1>1, <1>8, <2>3 DEF Until
  <2>4. CASE i > 3
    <3> DEFINE j == i - 3
    <3>1. j \in 1 .. n /\ j + 3 = i
      BY <1>1, <2>4
    <3> HIDE DEF j
    <3>2. all[i] = [at |-> img.shdrs[j].offset, cells |-> CellsOf(img, j)]
      BY <1>1, <3>1
    <3>3. img.shdrs[j].type # "NOBITS"
      BY <1>9, <3>2 DEF CellsOf
    <3>4. CellsOf(img, j) = img.data[j] /\ Len(img.data[j]) = img.shdrs[j].size
      BY <1>2, <3>1, <3>3 DEF CellsOf, SizesSynced
    <3>5. img.shdrs[j].offset + img.shdrs[j].size <= total
      BY <1>2, <1>3, <3>1, <3>3 DEF FileBounds
    <3> QED
      BY <3>2, <3>4, <3>5 DEF Until
  <2> QED
    BY <1>1, <2>1, <2>2, <2>3, <2>4
<1> QED
  BY <1>5, <1>8, <1>9 DEF all

(* The dynamic array of the new file: what was encoded, or that of f.      *)
LEMMA DynamicBack ==
  ASSUME NEW f, Coherent(f), NEW img, NEW shift \in Nat, NEW total \in Nat, Laid(img, f, shift),
         StaticChecks(img, total), NEW g, Holds(g, AllSpans(img), f, shift, total)
  PROVE  \/ Reads(ReadDynamic(g), img.dynamic)
         \/ DynIdx(img) = 0 /\ Shdrs(f) = <<>> /\ img.shdrs = <<>> /\ ReadDynamic(g) = ReadDynamic(f)
<1>1. IsImage(img) /\ SizesSynced(img)
  BY DEF Laid
<1>2. /\ g[1] = Counted(img) /\ Phdrs(g) = img.phdrs /\ Shdrs(g) = img.shdrs
      /\ \A i \in DOMAIN img.shdrs : img.shdrs[i].type # "NOBITS" =>
           Slice(g, img.shdrs[i].offset, img.shdrs[i].size) = img.data[i]
  BY <1>1, ReadBack
<1> DEFINE s == SelectInSeq(img.shdrs, LAMBDA x : x.type = "DYNAMIC")
           p == SelectInSeq(img.phdrs, LAMBDA x : x.type = "DYNAMIC")
<1>3. /\ s # 0 => ReadDynamic(g) = ReadDynArray(Slice(g, img.shdrs[s].offset, img.shdrs[s].size))
      /\ s = 0 /\ p # 0 => ReadDynamic(g)
           = ReadDynArray(Slice(g, img.phdrs[p].offset, img.phdrs[p].filesz))
      /\ s = 0 /\ p = 0 => ReadDynamic(g) = <<>>
  BY <1>2 DEF ReadDynamic
<1>4. s = DynIdx(img)
  BY DEF DynIdx
<1>5. p = 0 \/ (p \in DOMAIN img.phdrs /\ img.phdrs[p].type = "DYNAMIC")
  <2>1. IsList(img.phdrs)
    BY <1>1, SeqList DEF IsImage
  <2> QED
    BY <2>1, FirstOfType
<1> HIDE DEF s, p
<1>6. CASE s # 0
  <2>1. s \in DOMAIN img.shdrs /\ img.shdrs[s].type = "DYNAMIC"
    BY <1>1, <1>4, <1>6, DynIdxFirst
  <2>2. img.shdrs[s].size \in Nat /\ img.dynamic \in Seq(DynCell)
    BY <1>1, <2>1, ImageDomains DEF IsImage, ShdrCell
  <2>3. /\ Len(img.dynamic) <= img.shdrs[s].size
        /\ img.data[s] = Encoded(img.dynamic, img.shdrs[s].size)
    BY <1>4, <1>6 DEF Laid
  <2>4. ReadDynamic(g) = ReadDynArray(Encoded(img.dynamic, img.shdrs[s].size))
    BY <1>2, <1>3, <1>6, <2>1, <2>3
  <2>5. Reads(ReadDynArray(Encoded(img.dynamic, img.shdrs[s].size)), img.dynamic)
    <3>1. img.shdrs[s].size >= Len(img.dynamic)
      BY <2>2, <2>3
    <3> QED
      BY <2>2, <3>1, EncodedReads
  <2> QED
    BY <2>4, <2>5
<1>7. CASE s = 0 /\ p = 0
  <2>1. \A x : x = <<>> => DOMAIN x = {}
    OBVIOUS
  <2>2. Reads(<<>>, img.dynamic)
    BY <2>1 DEF Reads
  <2> QED
    BY <1>3, <1>7, <2>2
<1>8. CASE s = 0 /\ p # 0
  <2> DEFINE seg == img.phdrs[p]
  <2>1. seg \in Dynamics(img.phdrs) /\ p \in DOMAIN img.phdrs
    BY <1>5, <1>8 DEF Dynamics, Range
  <2>2. /\ img.shdrs = <<>> /\ seg.offset >= EhdrSize
        /\ End(seg) <= img.ehdr.phoff \/ img.ehdr.phoff + Len(img.phdrs) <= seg.offset
    BY <1>4, <1>8, <2>1 DEF Laid, SegmentsClear
  <2>3. Shdrs(f) = <<>> /\ \E q \in Dynamics(Phdrs(f)) :
          seg.offset = q.offset + shift /\ seg.filesz = q.filesz
    BY <1>4, <1>8, <2>1 DEF Laid, Anchors
  <2>4. PICK q \in Dynamics(Phdrs(f)) : seg.offset = q.offset + shift /\ seg.filesz = q.filesz
    BY <2>3
  <2>5. /\ CellList(f) /\ Len(f) \in Nat /\ f[1] \in EhdrCell /\ Phdrs(f) \in Seq(PhdrCell)
        /\ IsList(Phdrs(f))
    BY CoherentCells, SeqList
  <2>6. q \in Range(Phdrs(f)) /\ q.type = "DYNAMIC"
    BY DEF Dynamics
  <2>7. PICK m \in DOMAIN Phdrs(f) : Phdrs(f)[m] = q
    BY <2>6 DEF Range
  <2>8. q.offset \in Nat /\ q.filesz \in Nat
    <3>1. q \in PhdrCell
      BY <2>5, <2>7
    <3> QED
      BY <3>1 DEF PhdrCell
  <2>9. q.offset + q.filesz <= Len(f)
    <3>1. FileBounds(Parse(f), Len(f)) /\ Parse(f).phdrs = Phdrs(f)
      BY DEF Coherent, VerifyOK, Parse
    <3> QED
      BY <2>7, <3>1 DEF FileBounds, End
  <2>10. seg.offset + seg.filesz <= total
    BY <2>1 DEF StaticChecks, FileBounds, End
  <2>11. ReadDynamic(f) = ReadDynArray(Slice(f, q.offset, q.filesz))
    <3> DEFINE t == SelectInSeq(Shdrs(f), LAMBDA x : x.type = "DYNAMIC")
               u == SelectInSeq(Phdrs(f), LAMBDA x : x.type = "DYNAMIC")
    <3>1. t = 0
      <4>1. \A x : x = <<>> => Len(x) = 0 /\ DOMAIN x = {}
        OBVIOUS
      <4>2. IsList(Shdrs(f)) /\ DOMAIN Shdrs(f) = {}
        BY <2>3, <2>5, <4>1, TableLists
      <4>3. t = 0 \/ (t \in DOMAIN Shdrs(f) /\ Shdrs(f)[t].type = "DYNAMIC")
        BY <4>2, FirstOfType
      <4> HIDE DEF t
      <4> QED
        BY <4>2, <4>3
    <3>2. DynIdx(Parse(f)) = t /\ Parse(f).phdrs = Phdrs(f)
      BY DEF DynIdx, Parse
    <3>3. /\ u = 0 \/ (u \in DOMAIN Phdrs(f) /\ Phdrs(f)[u].type = "DYNAMIC")
          /\ u = 0 => \A j \in DOMAIN Phdrs(f) : Phdrs(f)[j].type # "DYNAMIC"
      BY <2>5, FirstOfType
    <3>4. ReadDynamic(f) = IF u # 0 THEN ReadDynArray(Slice(f, Phdrs(f)[u].offset, Phdrs(f)[u].filesz))
                           ELSE <<>>
      BY <3>1 DEF ReadDynamic
    <3> HIDE DEF t, u
    <3>5. u # 0 /\ u \in DOMAIN Phdrs(f) /\ Phdrs(f)[u].type = "DYNAMIC"
      BY <2>6, <2>7, <3>3
    <3>6. Phdrs(f)[u] \in Dynamics(Phdrs(f))
      BY <3>5 DEF Dynamics, Range
    <3>7. Dynamics(Phdrs(f)) = {q}
      BY <3>1, <3>2 DEF Coherent, SegmentsClear
    <3>8. Phdrs(f)[u] = q
      BY <3>6, <3>7
    <3> QED
      BY <3>4, <3>5, <3>8
  <2> DEFINE a == Slice(g, seg.offset, seg.filesz)
             b == Slice(f, q.offset, q.filesz)
  <2>12. /\ IsList(a) /\ IsList(b) /\ Len(a) = q.filesz /\ Len(b) = q.filesz
         /\ \A k \in 1 .. q.filesz : a[k] = g[seg.offset + k] /\ b[k] = f[q.offset + k]
    <3>1. seg.offset \in Nat /\ seg.filesz \in Nat
      BY <2>4, <2>8
    <3>2. \A h : \A off, len \in Nat :
            /\ IsList(Slice(h, off, len)) /\ Len(Slice(h, off, len)) = len
            /\ \A k \in 1 .. len : Slice(h, off, len)[k] = h[off + k]
      BY SliceList
    <3>3. seg.filesz = q.filesz
      BY <2>4
    <3> HIDE DEF seg
    <3>4. /\ IsList(a) /\ Len(a) = seg.filesz
          /\ \A k \in 1 .. seg.filesz : a[k] = g[seg.offset + k]
      BY <3>1, <3>2
    <3>5. /\ IsList(b) /\ Len(b) = q.filesz
          /\ \A k \in 1 .. q.filesz : b[k] = f[q.offset + k]
      BY <2>8, <3>2
    <3> HIDE DEF a, b
    <3> QED
      BY <3>3, <3>4, <3>5
  <2>13. ASSUME NEW k \in 1 .. q.filesz PROVE g[seg.offset + k] = f[q.offset + k]
    <3> DEFINE o == seg.offset + k - 1
               all == AllSpans(img)
    <3>1. o \in 0 .. total - 1 /\ o \in Nat /\ o + 1 = seg.offset + k /\ o >= seg.offset
          /\ o < End(seg) /\ o >= 1
      BY <2>2, <2>4, <2>8, <2>10, SMTT(20) DEF EhdrSize, End
    <3>2. o >= shift /\ o - shift < Len(f) /\ o - shift + 1 = q.offset + k
      BY <2>4, <2>8, <2>9
    <3> HIDE DEF o
    <3>3. GapCell(f, shift, o) = f[q.offset + k]
      BY <3>2 DEF GapCell
    <3>4. \A x : x = <<>> => Len(x) = 0
      OBVIOUS
    <3>5. /\ DOMAIN all = 1 .. 3
          /\ all[1] = [at |-> 0, cells |-> <<Counted(img)>>]
          /\ all[2] = [at |-> img.ehdr.phoff, cells |-> img.phdrs]
          /\ all[3] = [at |-> img.ehdr.shoff, cells |-> <<>>]
      <4>1. Len(img.shdrs) = 0 /\ 0 + 3 = 3
        BY <2>2, <3>4
      <4> QED
        BY <1>1, <2>2, <4>1, SpanList
    <3>6. \A c : Len(<<c>>) = 1
      OBVIOUS
    <3>7. img.ehdr.phoff \in Nat /\ Len(img.phdrs) \in Nat /\ seg.offset \in Nat /\ seg.filesz \in Nat
      <4>1. img.ehdr.phoff \in Nat /\ Len(img.phdrs) \in Nat
        BY <1>1 DEF IsImage, EhdrCell
      <4> QED
        BY <2>4, <2>8, <4>1
    <3> HIDE DEF all, seg
    <3>8. ASSUME NEW i \in DOMAIN all, all[i].cells # <<>>
          PROVE  o < all[i].at \/ Until(all[i]) <= o
      <4>1. CASE i = 1
        <5>1. Until(all[1]) = 0 + 1
          BY <3>5, <3>6 DEF Until
        <5> QED
          BY <3>1, <4>1, <5>1
      <4>2. CASE i = 2
        <5>1. Until(all[2]) = img.ehdr.phoff + Len(img.phdrs) /\ all[2].at = img.ehdr.phoff
          BY <3>5 DEF Until
        <5>2. CASE End(seg) <= img.ehdr.phoff
          BY <3>1, <3>7, <4>2, <5>1, <5>2, SMTT(20) DEF End
        <5>3. CASE img.ehdr.phoff + Len(img.phdrs) <= seg.offset
          BY <3>1, <3>7, <4>2, <5>1, <5>3, SMTT(20)
        <5> QED
          BY <2>2, <5>2, <5>3
      <4>3. CASE i = 3
        BY <3>5, <3>8, <4>3
      <4> QED
        BY <3>5, <4>1, <4>2, <4>3
    <3>9. g[o + 1] = GapCell(f, shift, o)
      BY <3>1, <3>8 DEF Holds, all
    <3> QED
      BY <3>1, <3>3, <3>9
  <2> HIDE DEF a, b
  <2>14. a = b
    <3>1. a = [k \in 1 .. q.filesz |-> a[k]] /\ b = [k \in 1 .. q.filesz |-> b[k]]
      BY <2>12 DEF IsList
    <3>2. \A k \in 1 .. q.filesz : a[k] = b[k]
      BY <2>12, <2>13
    <3> QED
      BY <3>1, <3>2
  <2>15. ReadDynamic(g) = ReadDynArray(a)
    BY <1>3, <1>8 DEF a
  <2> QED
    BY <1>4, <1>8, <2>2, <2>3, <2>11, <2>14, <2>15 DEF b
<1> QED
  BY <1>6, <1>7, <1>8

(* The file written from a laid-out image that verify accepts is usable    *)
(* again.                                                                  *)
LEMMA Written ==
  ASSUME NEW f, Coherent(f), NEW img, NEW shift \in Nat, NEW total \in Nat, Laid(img, f, shift),
         VerifyOK(img, total)
  PROVE  LET r == WriteShifted(img, f, shift, total)
         IN /\ r.err = "none" /\ Coherent(r.file)
            /\ Holds(r.file, AllSpans(img), f, shift, total)
            /\ IsImage(Parse(r.file)) /\ Alike(img, Parse(r.file))
<1> DEFINE r == WriteShifted(img, f, shift, total)
           g == r.file
           new == Parse(g)
<1>1. /\ IsImage(img) /\ SizesSynced(img) /\ Apart(AllSpans(img))
      /\ Regular(img) /\ SegmentsClear(img)
  BY DEF Laid
<1>2. /\ CellList(f) /\ Len(f) \in Nat
  BY CoherentCells
<1>3. /\ total >= 1 /\ img.ehdr.shoff + Len(img.shdrs) <= total
      /\ \A i \in DOMAIN AllSpans(img) :
           AllSpans(img)[i].cells # <<>> => Until(AllSpans(img)[i]) <= total
  BY <1>1, SpansFit
<1>4. r.err = "none" /\ Holds(g, AllSpans(img), f, shift, total)
  BY <1>1, <1>2, <1>3, FileHolds
<1> HIDE DEF r, g
<1>5. CellList(g) /\ Len(g) = total /\ DOMAIN g = 1 .. total
  BY <1>4, ListSeq DEF Holds, CellList
<1>6. /\ g[1] = Counted(img) /\ Phdrs(g) = img.phdrs /\ Shdrs(g) = img.shdrs
      /\ \A i \in DOMAIN img.shdrs :
           /\ img.shdrs[i].type # "NOBITS" =>
                Slice(g, img.shdrs[i].offset, img.shdrs[i].size) = img.data[i]
           /\ ReadData(g)[i] = CellsOf(img, i)
  BY <1>1, <1>4, ReadBack
<1>7. /\ img.ehdr \in EhdrCell /\ img.phdrs \in Seq(PhdrCell) /\ img.shdrs \in Seq(ShdrCell)
      /\ Len(img.phdrs) \in Nat /\ Len(img.shdrs) \in Nat
      /\ img.ehdr.phoff \in Nat /\ img.ehdr.shoff \in Nat
      /\ DOMAIN img.shdrs = 1 .. Len(img.shdrs)
  <2>1. /\ img.ehdr \in EhdrCell /\ img.phdrs \in Seq(PhdrCell) /\ img.shdrs \in Seq(ShdrCell)
    BY <1>1 DEF IsImage
  <2>2. img.ehdr.phoff \in Nat /\ img.ehdr.shoff \in Nat
    BY <2>1 DEF EhdrCell
  <2> QED
    BY <2>1, <2>2
<1>8. /\ g[1] \in EhdrCell /\ g[1].k = "ehdr"
      /\ g[1].phoff = img.ehdr.phoff /\ g[1].phnum = Len(img.phdrs)
      /\ g[1].shoff = img.ehdr.shoff /\ g[1].shnum = Len(img.shdrs)
      /\ g[1].shstrndx = img.ehdr.shstrndx /\ g[1].entry = img.ehdr.entry
      /\ g[1].etype = img.ehdr.etype
  BY <1>6, <1>7 DEF Counted, EhdrCell
<1>9. Fields(new, g[1], Phdrs(g), Shdrs(g), ReadData(g), ReadDynamic(g), "none")
      /\ IsList(ReadData(g)) /\ Len(ReadData(g)) = Len(Shdrs(g))
  BY <1>5, <1>8, ParseFields
<1>10. /\ new.ehdr = g[1] /\ new.phdrs = img.phdrs /\ new.shdrs = img.shdrs
       /\ new.data = ReadData(g) /\ new.dynamic = ReadDynamic(g)
       /\ new = Image(new.ehdr, new.phdrs, new.shdrs, new.data, new.dynamic, new.err)
  BY <1>6, <1>9 DEF Fields
<1> HIDE DEF new
<1>11. StaticChecks(img, total) /\ DynamicConsistent(img) /\ DynamicMapped(img)
  BY DEF VerifyOK, StaticChecks
<1>12. \/ Reads(ReadDynamic(g), img.dynamic)
       \/ /\ DynIdx(img) = 0 /\ Shdrs(f) = <<>> /\ img.shdrs = <<>>
          /\ ReadDynamic(g) = ReadDynamic(f)
  BY <1>4, <1>11, DynamicBack
<1>13. \A i \in DOMAIN img.shdrs : CellList(CellsOf(img, i)) /\ CellsOf(new, i) = CellsOf(img, i)
  <2> SUFFICES ASSUME NEW i \in DOMAIN img.shdrs
               PROVE  CellList(CellsOf(img, i)) /\ CellsOf(new, i) = CellsOf(img, i)
    OBVIOUS
  <2>1. CellList(CellsOf(img, i))
    BY <1>1, EmptyCells DEF CellsOf, IsImage
  <2>2. CellsOf(new, i) = CellsOf(img, i)
    BY <1>6, <1>10 DEF CellsOf
  <2> QED
    BY <2>1, <2>2
<1>14. TablesFit(g)
  <2>1. Len(g) > 0 /\ g[1].k = "ehdr"
    BY <1>3, <1>5, <1>8
  <2>2. InFile(g, g[1].phoff, g[1].phnum) /\ InFile(g, g[1].shoff, g[1].shnum)
    BY <1>3, <1>5, <1>7, <1>8, <1>11 DEF InFile, StaticChecks, FileBounds
  <2>3. KindIs(Phdrs(g), "phdr") /\ KindIs(Shdrs(g), "shdr")
    <3>1. /\ \A i \in DOMAIN img.phdrs : img.phdrs[i] \in PhdrCell
          /\ \A i \in DOMAIN img.shdrs : img.shdrs[i] \in ShdrCell
      BY <1>1, ImageDomains
    <3>2. (\A c \in PhdrCell : c.k = "phdr") /\ (\A c \in ShdrCell : c.k = "shdr")
      BY DEF PhdrCell, ShdrCell
    <3> QED
      BY <1>6, <3>1, <3>2 DEF KindIs
  <2>4. ASSUME NEW i \in DOMAIN Shdrs(g)
        PROVE  /\ Shdrs(g)[i].type # "NOBITS" => InFile(g, Shdrs(g)[i].offset, Shdrs(g)[i].size)
               /\ Shdrs(g)[i].type = "DYNAMIC" =>
                    \A j \in 1 .. Shdrs(g)[i].size : g[Shdrs(g)[i].offset + j].k \in {"dyn", "zero"}
    <3> DEFINE s == img.shdrs[i]
    <3>1. Shdrs(g)[i] = s /\ i \in DOMAIN img.shdrs /\ s \in ShdrCell /\ s.offset \in Nat
          /\ s.size \in Nat
      <4>1. i \in DOMAIN img.shdrs /\ img.shdrs[i] \in ShdrCell
        BY <1>1, <1>6, ImageDomains
      <4>2. \A c \in ShdrCell : c.offset \in Nat /\ c.size \in Nat
        BY DEF ShdrCell
      <4> QED
        BY <1>6, <4>1, <4>2
    <3>2. s.type # "NOBITS" => InFile(g, s.offset, s.size)
      BY <1>5, <1>11, <3>1 DEF InFile, StaticChecks, FileBounds
    <3>3. ASSUME s.type = "DYNAMIC", NEW j \in 1 .. s.size
          PROVE  g[s.offset + j].k \in {"dyn", "zero"}
      <4>1. i = DynIdx(img) /\ i # 0 /\ s.type # "NOBITS"
        BY <1>1, <1>7, <3>1, <3>3 DEF Regular
      <4>2. img.data[i] = Encoded(img.dynamic, s.size) /\ Len(img.dynamic) <= s.size
        BY <4>1 DEF Laid
      <4>3. /\ Len(Encoded(img.dynamic, s.size)) = s.size
            /\ CellList(Encoded(img.dynamic, s.size))
            /\ \A m \in DOMAIN Encoded(img.dynamic, s.size) :
                 Encoded(img.dynamic, s.size)[m].k \in {"dyn", "zero"}
        <5>1. img.dynamic \in Seq(DynCell) /\ s.size \in Nat /\ s.size >= Len(img.dynamic)
          BY <1>1, <3>1, <4>2 DEF IsImage
        <5> HIDE DEF s
        <5> QED
          BY <5>1, EncodedReads
      <4>4. j \in DOMAIN img.data[i] /\ img.data[i][j].k \in {"dyn", "zero"}
        <5>1. DOMAIN Encoded(img.dynamic, s.size) = 1 .. s.size
          <6> HIDE DEF s
          <6> QED
            BY <4>3, ListSeq DEF CellList
        <5> HIDE DEF s
        <5> QED
          BY <3>3, <4>2, <4>3, <5>1
      <4>5. Slice(g, s.offset, s.size) = img.data[i]
        BY <1>6, <3>1, <4>1
      <4>6. Slice(g, s.offset, s.size)[j] = g[s.offset + j]
        <5>1. \A off, len \in Nat : \A k \in 1 .. len : Slice(g, off, len)[k] = g[off + k]
          BY SliceList
        <5> HIDE DEF s
        <5> QED
          BY <3>1, <3>3, <5>1
      <4> QED
        BY <4>4, <4>5, <4>6
    <3> QED
      BY <3>1, <3>2, <3>3
  <2> QED
    BY <2>1, <2>2, <2>3, <2>4 DEF TablesFit
<1>15. ReadDynamic(g) \in Seq(DynCell)
  <2> DEFINE s == SelectInSeq(img.shdrs, LAMBDA x : x.type = "DYNAMIC")
             p == SelectInSeq(img.phdrs, LAMBDA x : x.type = "DYNAMIC")
  <2>1. /\ s # 0 => ReadDynamic(g) = ReadDynArray(Slice(g, img.shdrs[s].offset, img.shdrs[s].size))
        /\ s = 0 /\ p # 0 => ReadDynamic(g)
             = ReadDynArray(Slice(g, img.phdrs[p].offset, img.phdrs[p].filesz))
        /\ s = 0 /\ p = 0 => ReadDynamic(g) = <<>>
    BY <1>6 DEF ReadDynamic
  <2>2. /\ s = 0 \/ (s \in DOMAIN img.shdrs /\ img.shdrs[s].type = "DYNAMIC")
        /\ p = 0 \/ (p \in DOMAIN img.phdrs /\ img.phdrs[p].type = "DYNAMIC")
    <3>1. IsList(img.phdrs) /\ IsList(img.shdrs)
      BY <1>7, SeqList
    <3> QED
      BY <3>1, FirstOfType
  <2> HIDE DEF s, p
  <2>3. CASE s # 0
    <3>1. Slice(g, img.shdrs[s].offset, img.shdrs[s].size) = img.data[s] /\ CellList(img.data[s])
      BY <1>1, <1>6, <2>2, <2>3 DEF IsImage
    <3> QED
      BY <2>1, <2>3, <3>1, DynArrayTyped
  <2>4. CASE s = 0 /\ p # 0
    <3>1. img.phdrs[p] \in PhdrCell
      BY <1>7, <2>2, <2>4
    <3>2. img.phdrs[p].offset \in Nat /\ img.phdrs[p].filesz \in Nat
      BY <3>1 DEF PhdrCell
    <3>3. img.phdrs[p].offset + img.phdrs[p].filesz <= Len(g)
      BY <1>5, <1>11, <2>2, <2>4 DEF StaticChecks, FileBounds, End
    <3>4. CellList(Slice(g, img.phdrs[p].offset, img.phdrs[p].filesz))
      BY <1>5, <3>2, <3>3, SliceCells
    <3> QED
      BY <2>1, <2>4, <3>4, DynArrayTyped
  <2>5. CASE s = 0 /\ p = 0
    <3>1. <<>> \in Seq(DynCell)
      OBVIOUS
    <3> QED
      BY <2>1, <2>5, <3>1
  <2> QED
    BY <2>3, <2>4, <2>5
<1>16. IsImage(new)
  BY <1>6, <1>7, <1>8, <1>9, <1>10, <1>13, <1>15 DEF IsImage
<1>17. Alike(img, new)
  BY <1>8, <1>10, <1>13 DEF Alike
<1>18. StaticChecks(new, total)
  BY <1>1, <1>11, <1>16, <1>17, AlikeChecks
<1>19. DynamicConsistent(new) /\ DynamicMapped(new)
  <2>1. CASE Reads(ReadDynamic(g), img.dynamic)
    BY <1>1, <1>10, <1>11, <1>16, <1>17, <2>1, ReadChecks
  <2>2. CASE DynIdx(img) = 0 /\ Shdrs(f) = <<>> /\ img.shdrs = <<>> /\ ReadDynamic(g) = ReadDynamic(f)
    <3> DEFINE old == Parse(f)
    <3>1. /\ DynamicConsistent(old) /\ old.shdrs = Shdrs(f) /\ old.dynamic = ReadDynamic(f)
      BY DEF Coherent, VerifyOK, Parse
    <3> HIDE DEF old
    <3>2. \A x : x = <<>> => DOMAIN x = {}
      OBVIOUS
    <3>3. FindSection(old, Dynstr) = 0 /\ FindSection(new, Dynstr) = 0
      BY <1>10, <2>2, <3>1, <3>2 DEF FindSection
    <3>4. DynIdx(new) = 0
      BY <1>10, <2>2 DEF DynIdx
    <3>5. old.dynamic = new.dynamic
      BY <1>10, <2>2, <3>1
    <3>6. DynamicConsistent(new)
      BY <3>1, <3>3, <3>4, <3>5 DEF DynamicConsistent, HasTag, DVal
    <3>7. DynamicMapped(new)
      <4> SUFFICES ASSUME Loads(new.phdrs) # {}, NEW i \in DOMAIN new.dynamic,
                          new.dynamic[i].tag \in AddrTags, new.dynamic[i].val # 0
                   PROVE  \E p \in Loads(new.phdrs) : Covers(p, new.dynamic[i].val)
        BY DEF DynamicMapped
      <4>1. new.dynamic[i] \in Addressed(ReadDynamic(f))
        BY <1>10, <2>2 DEF Addressed, Range
      <4>2. Addressed(ReadDynamic(f)) \subseteq Range(img.dynamic)
        BY <2>2 DEF Laid, Anchors
      <4>3. PICK j \in DOMAIN img.dynamic : img.dynamic[j] = new.dynamic[i]
        BY <4>1, <4>2 DEF Range
      <4> QED
        BY <1>10, <1>11, <4>3 DEF DynamicMapped
    <3> QED
      BY <3>6, <3>7
  <2> QED
    BY <1>12, <2>1, <2>2
<1>20. VerifyOK(new, Len(g))
  BY <1>5, <1>18, <1>19 DEF VerifyOK, StaticChecks
<1>21. Apart(AllSpans(new))
  <2> DEFINE a == AllSpans(img)
             b == AllSpans(new)
             n == Len(img.shdrs)
  <2>1. Counted(new) = Counted(img)
    <3>1. Counted(new) = [Counted(img) EXCEPT !.phnum = Len(img.phdrs), !.shnum = Len(img.shdrs)]
      BY <1>6, <1>10 DEF Counted
    <3>2. Counted(img) \in EhdrCell /\ Counted(img).phnum = Len(img.phdrs)
          /\ Counted(img).shnum = Len(img.shdrs)
      BY <1>6, <1>8
    <3>3. \A c \in EhdrCell : [c EXCEPT !.phnum = c.phnum, !.shnum = c.shnum] = c
      BY DEF EhdrCell
    <3> QED
      BY <3>1, <3>2, <3>3
  <2>2. /\ n \in Nat /\ DOMAIN a = 1 .. n + 3
        /\ a[1] = [at |-> 0, cells |-> <<Counted(img)>>]
        /\ a[2] = [at |-> img.ehdr.phoff, cells |-> img.phdrs]
        /\ a[3] = [at |-> img.ehdr.shoff, cells |-> img.shdrs]
        /\ \A i \in 1 .. n : a[i + 3] = [at |-> img.shdrs[i].offset, cells |-> CellsOf(img, i)]
    BY <1>1, SpanList
  <2>3. /\ DOMAIN b = 1 .. Len(new.shdrs) + 3
        /\ b[1] = [at |-> 0, cells |-> <<Counted(new)>>]
        /\ b[2] = [at |-> new.ehdr.phoff, cells |-> new.phdrs]
        /\ b[3] = [at |-> new.ehdr.shoff, cells |-> new.shdrs]
        /\ \A i \in 1 .. Len(new.shdrs) :
             b[i + 3] = [at |-> new.shdrs[i].offset, cells |-> CellsOf(new, i)]
    BY <1>16, SpanList
  <2> HIDE DEF a, b
  <2>4. /\ DOMAIN b = 1 .. n + 3 /\ b[1] = a[1] /\ b[2] = a[2] /\ b[3] = a[3]
        /\ \A i \in 1 .. n : b[i + 3] = a[i + 3]
    <3>1. /\ new.shdrs = img.shdrs /\ new.phdrs = img.phdrs
          /\ new.ehdr.phoff = img.ehdr.phoff /\ new.ehdr.shoff = img.ehdr.shoff
      BY <1>8, <1>10
    <3>2. DOMAIN b = 1 .. n + 3 /\ b[1] = a[1] /\ b[2] = a[2] /\ b[3] = a[3]
      BY <2>1, <2>2, <2>3, <3>1
    <3>3. ASSUME NEW i \in 1 .. n PROVE b[i + 3] = a[i + 3]
      BY <1>7, <1>13, <2>2, <2>3, <3>1
    <3> QED
      BY <3>2, <3>3
  <2>5. ASSUME NEW i \in DOMAIN a PROVE a[i] = b[i]
    <3>1. CASE i \in {1, 2, 3}
      BY <2>4, <3>1
    <3>2. CASE i > 3
      <4>1. i - 3 \in 1 .. n /\ (i - 3) + 3 = i
        BY <2>2, <3>2
      <4> QED
        BY <2>4, <4>1
    <3> QED
      BY <2>2, <3>1, <3>2
  <2>6. Apart(b)
    <3>1. Apart(a) /\ DOMAIN a = DOMAIN b
      BY <1>1, <2>2, <2>4 DEF a
    <3> QED
      BY <2>5, <3>1 DEF Apart
  <2> QED
    BY <2>6 DEF b
<1>22. Regular(new) /\ SegmentsClear(new)
  BY <1>1, <1>16, <1>17, AlikeSections
<1>23. Coherent(g)
  <2>1. Len(g) \in Nat /\ g = [i \in 1 .. Len(g) |-> g[i]] /\ \A i \in DOMAIN g : Formed(g[i])
    BY <1>5 DEF CellList, IsList
  <2> QED
    BY <1>14, <1>20, <1>21, <1>22, <2>1 DEF Coherent, new
<1>24. IsImage(Parse(g)) /\ Alike(img, Parse(g))
  BY <1>16, <1>17 DEF new
<1> QED
  BY <1>4, <1>23, <1>24 DEF g, r

-----------------------------------------------------------------------------
(* The parts of an image, as the places they take in the file.             *)
(* Header, tables and sections have no cell in common.                     *)
Tidy(img) ==
  LET pht == Len(img.phdrs)
      sht == Len(img.shdrs)
  IN /\ Clear(0, 1, img.ehdr.phoff, pht) /\ Clear(0, 1, img.ehdr.shoff, sht)
     /\ Clear(img.ehdr.phoff, pht, img.ehdr.shoff, sht)
     /\ \A i \in Solid(img) :
          LET s == img.shdrs[i]
          IN /\ Clear(0, 1, s.offset, s.size)
             /\ Clear(img.ehdr.phoff, pht, s.offset, s.size)
             /\ Clear(img.ehdr.shoff, sht, s.offset, s.size)
     /\ \A i, j \in Solid(img) :
          i # j => Clear(img.shdrs[i].offset, img.shdrs[i].size,
                         img.shdrs[j].offset, img.shdrs[j].size)

(* The spans with their lengths.                                           *)
LEMMA SpanLengths ==
  ASSUME NEW img, IsImage(img), SizesSynced(img)
  PROVE  LET all == AllSpans(img)
             n == Len(img.shdrs)
         IN /\ n \in Nat /\ DOMAIN all = 1 .. n + 3 /\ DOMAIN img.shdrs = 1 .. n
            /\ Len(img.phdrs) \in Nat /\ img.ehdr.phoff \in Nat /\ img.ehdr.shoff \in Nat
            /\ all[1].at = 0 /\ Until(all[1]) = 1 /\ all[1].cells # <<>>
            /\ all[2].at = img.ehdr.phoff /\ Until(all[2]) = img.ehdr.phoff + Len(img.phdrs)
            /\ all[2].cells = <<>> <=> Len(img.phdrs) = 0
            /\ all[3].at = img.ehdr.shoff /\ Until(all[3]) = img.ehdr.shoff + n
            /\ all[3].cells = <<>> <=> n = 0
            /\ \A i \in 1 .. n : i \notin Solid(img) => all[i + 3].cells = <<>>
            /\ \A i \in Solid(img) :
                 /\ i \in 1 .. n /\ img.shdrs[i].offset \in Nat /\ img.shdrs[i].size \in Nat
                 /\ all[i + 3].at = img.shdrs[i].offset
                 /\ Until(all[i + 3]) = img.shdrs[i].offset + img.shdrs[i].size
                 /\ all[i + 3].cells = <<>> <=> img.shdrs[i].size = 0
<1> DEFINE all == AllSpans(img)
           n == Len(img.shdrs)
<1>1. /\ n \in Nat /\ DOMAIN all = 1 .. n + 3
      /\ all[1] = [at |-> 0, cells |-> <<Counted(img)>>]
      /\ all[2] = [at |-> img.ehdr.phoff, cells |-> img.phdrs]
      /\ all[3] = [at |-> img.ehdr.shoff, cells |-> img.shdrs]
      /\ \A i \in 1 .. n : all[i + 3] = [at |-> img.shdrs[i].offset, cells |-> CellsOf(img, i)]
  BY SpanList
<1>2. /\ DOMAIN img.shdrs = 1 .. n /\ Len(img.phdrs) \in Nat
      /\ img.ehdr.phoff \in Nat /\ img.ehdr.shoff \in Nat
      /\ IsList(img.shdrs) /\ IsList(img.phdrs)
  BY SeqList DEF IsImage, EhdrCell
<1> HIDE DEF all
<1>3. \A c : Len(<<c>>) = 1 /\ <<c>> # <<>>
  OBVIOUS
<1>4. all[1].at = 0 /\ Until(all[1]) = 1 /\ all[1].cells # <<>>
  BY <1>1, <1>3 DEF Until
<1>5. /\ all[2].at = img.ehdr.phoff /\ Until(all[2]) = img.ehdr.phoff + Len(img.phdrs)
      /\ all[2].cells = <<>> <=> Len(img.phdrs) = 0
  BY <1>1, <1>2, NotEmpty DEF Until
<1>6. /\ all[3].at = img.ehdr.shoff /\ Until(all[3]) = img.ehdr.shoff + n
      /\ all[3].cells = <<>> <=> n = 0
  BY <1>1, <1>2, NotEmpty DEF Until
<1>7. \A i \in 1 .. n : i \notin Solid(img) => all[i + 3].cells = <<>>
  <2> SUFFICES ASSUME NEW i \in 1 .. n, i \notin Solid(img) PROVE all[i + 3].cells = <<>>
    OBVIOUS
  <2>1. CellsOf(img, i) = <<>>
    BY <1>2 DEF Solid, CellsOf
  <2>2. all[i + 3] = [at |-> img.shdrs[i].offset, cells |-> CellsOf(img, i)]
    BY <1>1
  <2> QED
    BY <2>1, <2>2
<1>8. ASSUME NEW i \in Solid(img)
      PROVE  /\ i \in 1 .. n /\ img.shdrs[i].offset \in Nat /\ img.shdrs[i].size \in Nat
             /\ all[i + 3].at = img.shdrs[i].offset
             /\ Until(all[i + 3]) = img.shdrs[i].offset + img.shdrs[i].size
             /\ all[i + 3].cells = <<>> <=> img.shdrs[i].size = 0
  <2>1. i \in 1 .. n /\ CellsOf(img, i) = img.data[i] /\ i \in DOMAIN img.shdrs
        /\ Len(img.data[i]) = img.shdrs[i].size /\ IsList(img.data[i])
    BY <1>2 DEF Solid, CellsOf, SizesSynced, IsImage, CellList
  <2>2. img.shdrs[i].offset \in Nat /\ img.shdrs[i].size \in Nat
    BY <2>1, ImageDomains DEF ShdrCell
  <2>3. img.data[i] = <<>> <=> img.shdrs[i].size = 0
    BY <2>1, <2>2, NotEmpty
  <2>4. all[i + 3] = [at |-> img.shdrs[i].offset, cells |-> CellsOf(img, i)]
    BY <1>1, <2>1
  <2> QED
    BY <2>1, <2>2, <2>3, <2>4 DEF Until
<1> QED
  BY <1>1, <1>2, <1>4, <1>5, <1>6, <1>7, <1>8 DEF all

-----------------------------------------------------------------------------
(* What no part of a file owns stays in the file that is written from it,  *)
(* if the layout puts no part over it.                                     *)
Kept(f, g) ==
  \A a, n \in Nat : Idle(f, a, n) =>
    \E b \in Nat : Idle(g, b, n) /\ Slice(g, b, n) = Slice(f, a, n)
(* The layout of an image leaves free, moved by shift, what was free in f. *)
Skirts(img, f, shift, total) ==
  \A a, n \in Nat : Idle(f, a, n) => Aside(img, total, a + shift, n)

(* A stretch of a file that a written layout leaves free, moved from a to  *)
(* b.                                                                      *)
Spares(f, img, shift, total, g, a, b, n) ==
  /\ CellList(f) /\ IsImage(img) /\ SizesSynced(img) /\ Holds(g, AllSpans(img), f, shift, total)
  /\ shift \in Nat /\ total \in Nat /\ a \in Nat /\ b \in Nat /\ n \in Nat
  /\ a + n <= Len(f) /\ b = a + shift /\ Aside(img, total, b, n)

(* A cell the spans leave alone is the cell of the original.               *)
LEMMA GapCopied ==
  ASSUME NEW f, NEW img, NEW shift, NEW total, NEW g, NEW a, NEW b, NEW n,
         Spares(f, img, shift, total, g, a, b, n)
  PROVE  Slice(g, b, n) = Slice(f, a, n)
<1>0. /\ CellList(f) /\ IsImage(img) /\ SizesSynced(img)
      /\ Holds(g, AllSpans(img), f, shift, total)
      /\ shift \in Nat /\ total \in Nat /\ a \in Nat /\ b \in Nat /\ n \in Nat
      /\ a + n <= Len(f) /\ b = a + shift /\ Aside(img, total, b, n)
  BY DEF Spares
<1>1. ASSUME NEW k \in 1 .. n PROVE g[b + k] = f[a + k]
  <2> USE <1>0
  <2> DEFINE all == AllSpans(img)
             o == b + k - 1
  <2>1. o \in 0 .. total - 1 /\ o >= b /\ o < b + n
        /\ n # 0 /\ o + 1 = b + k
    BY DEF Aside
  <2>2. \A at, m \in Nat : (Clear(at, m, b, n) /\ m # 0) => o < at \/ at + m <= o
    BY <2>1 DEF Clear
  <2> HIDE DEF o
  <2>3. ASSUME NEW i \in DOMAIN all, all[i].cells # <<>>
        PROVE  o < all[i].at \/ Until(all[i]) <= o
    <3>1. /\ Len(img.shdrs) \in Nat /\ DOMAIN all = 1 .. Len(img.shdrs) + 3
          /\ Len(img.phdrs) \in Nat /\ img.ehdr.phoff \in Nat /\ img.ehdr.shoff \in Nat
          /\ all[1].at = 0 /\ Until(all[1]) = 1
          /\ all[2].at = img.ehdr.phoff /\ Until(all[2]) = img.ehdr.phoff + Len(img.phdrs)
          /\ all[2].cells = <<>> <=> Len(img.phdrs) = 0
          /\ all[3].at = img.ehdr.shoff /\ Until(all[3]) = img.ehdr.shoff + Len(img.shdrs)
          /\ all[3].cells = <<>> <=> Len(img.shdrs) = 0
      BY SpanLengths
    <3>2. /\ \A j \in 1 .. Len(img.shdrs) : j \notin Solid(img) => all[j + 3].cells = <<>>
          /\ \A j \in Solid(img) :
               /\ j \in 1 .. Len(img.shdrs)
               /\ img.shdrs[j].offset \in Nat /\ img.shdrs[j].size \in Nat
               /\ all[j + 3].at = img.shdrs[j].offset
               /\ Until(all[j + 3]) = img.shdrs[j].offset + img.shdrs[j].size
               /\ all[j + 3].cells = <<>> <=> img.shdrs[j].size = 0
      BY SpanLengths
    <3> HIDE DEF all
    <3>3. CASE i = 1
      BY <2>2, <3>1, <3>3 DEF Aside
    <3>4. CASE i = 2
      BY <2>2, <2>3, <3>1, <3>4 DEF Aside
    <3>5. CASE i = 3
      BY <2>2, <2>3, <3>1, <3>5 DEF Aside
    <3>6. CASE i > 3
      <4>1. PICK j \in 1 .. Len(img.shdrs) : i = j + 3
        <5>1. \A m \in Nat : \A q \in 1 .. m + 3 : q > 3 => q - 3 \in 1 .. m /\ q = (q - 3) + 3
          OBVIOUS
        <5>2. Len(img.shdrs) \in Nat /\ i \in 1 .. Len(img.shdrs) + 3
          BY <2>3, <3>1 DEF all
        <5>3. i - 3 \in 1 .. Len(img.shdrs) /\ i = (i - 3) + 3
          BY <3>6, <5>1, <5>2
        <5> QED
          BY <5>3
      <4>2. j \in Solid(img)
        BY <2>3, <3>2, <4>1
      <4>3. Clear(img.shdrs[j].offset, img.shdrs[j].size, b, n)
        BY <4>2 DEF Aside
      <4>4. /\ all[i].at = img.shdrs[j].offset
            /\ Until(all[i]) = img.shdrs[j].offset + img.shdrs[j].size
            /\ img.shdrs[j].size # 0 /\ img.shdrs[j].offset \in Nat /\ img.shdrs[j].size \in Nat
        BY <2>3, <3>2, <4>1, <4>2
      <4> QED
        BY <2>2, <4>3, <4>4
    <3>7. i = 1 \/ i = 2 \/ i = 3 \/ i > 3
      <4>1. \A m \in Nat : \A q \in 1 .. m + 3 : q = 1 \/ q = 2 \/ q = 3 \/ q > 3
        OBVIOUS
      <4> QED
        BY <2>3, <3>1, <4>1 DEF all
    <3> QED
      BY <3>3, <3>4, <3>5, <3>6, <3>7
  <2>4. g[o + 1] = GapCell(f, shift, o)
    BY <2>1, <2>3 DEF Holds
  <2>5. o >= shift /\ o - shift < Len(f) /\ o - shift + 1 = a + k
    <3>1. Len(f) \in Nat
      BY DEF CellList, IsList
    <3> HIDE <1>0
    <3>2. b = a + shift /\ a \in Nat /\ n \in Nat /\ shift \in Nat /\ a + n <= Len(f)
      BY <1>0
    <3> QED
      BY <3>1, <3>2 DEF o
  <2> QED
    BY <2>1, <2>4, <2>5 DEF GapCell
<1>2. /\ IsList(Slice(g, b, n)) /\ Len(Slice(g, b, n)) = n
      /\ \A k \in 1 .. n : Slice(g, b, n)[k] = g[b + k]
  <2>1. b \in Nat /\ n \in Nat
    BY <1>0
  <2> QED
    BY <2>1, SliceList
<1>3. /\ IsList(Slice(f, a, n)) /\ Len(Slice(f, a, n)) = n
      /\ \A k \in 1 .. n : Slice(f, a, n)[k] = f[a + k]
  <2>1. a \in Nat /\ n \in Nat
    BY <1>0
  <2> QED
    BY <2>1, SliceList
<1> DEFINE x == Slice(g, b, n)
           y == Slice(f, a, n)
<1> HIDE DEF x, y
<1>4. \A k \in 1 .. n : x[k] = y[k]
  BY <1>1, <1>2, <1>3 DEF x, y
<1>5. x = y
  BY <1>2, <1>3, <1>4 DEF IsList, x, y
<1> QED
  BY <1>5 DEF x, y

(* So the free stretches of a file are in the file written from a layout   *)
(* that leaves them free.                                                  *)
LEMMA Spared ==
  ASSUME NEW f, Coherent(f), NEW img, NEW shift \in Nat, NEW total \in Nat, Laid(img, f, shift),
         VerifyOK(img, total), Skirts(img, f, shift, total)
  PROVE  Kept(f, WriteShifted(img, f, shift, total).file)
<1> DEFINE g == WriteShifted(img, f, shift, total).file
           new == Parse(g)
<1>1. /\ Holds(g, AllSpans(img), f, shift, total)
      /\ IsImage(new) /\ Alike(img, new)
  BY Written
<1>2. IsImage(img) /\ SizesSynced(img) /\ Regular(img) /\ CellList(f)
  BY CoherentCells DEF Laid
<1> HIDE DEF g
<1> SUFFICES ASSUME NEW a \in Nat, NEW n \in Nat, Idle(f, a, n)
             PROVE  \E b \in Nat : Idle(g, b, n) /\ Slice(g, b, n) = Slice(f, a, n)
  BY DEF g, Kept
<1>3. Aside(img, total, a + shift, n) /\ a + shift \in Nat /\ a + n <= Len(f)
  BY DEF Skirts, Idle, Aside
<1>4. Len(g) = total
  BY <1>1 DEF Holds
<1>5. Idle(g, a + shift, n)
  <2>1. PriorRegion(img) = PriorRegion(new)
    BY <1>1, <1>2, AlikeSections
  <2> HIDE DEF new
  <2>2. Solid(img) = Solid(new) /\ img.shdrs = new.shdrs /\ img.phdrs = new.phdrs
        /\ img.ehdr.phoff = new.ehdr.phoff /\ img.ehdr.shoff = new.ehdr.shoff
    BY <1>1 DEF Alike, Solid
  <2>3. Aside(new, Len(g), a + shift, n)
    BY <1>3, <1>4, <2>1, <2>2 DEF Aside
  <2> QED
    BY <2>3 DEF Idle, new
<1>6. Slice(g, a + shift, n) = Slice(f, a, n)
  <2>1. Spares(f, img, shift, total, g, a, a + shift, n)
    BY <1>1, <1>2, <1>3 DEF Spares
  <2> QED
    BY <2>1, GapCopied
<1> QED
  BY <1>3, <1>5, <1>6

(* Parts that have no cell in common are spans that do not meet.           *)
LEMMA TidyApart ==
  ASSUME NEW img, IsImage(img), SizesSynced(img), Tidy(img)
  PROVE  Apart(AllSpans(img))
<1> DEFINE all == AllSpans(img)
           n == Len(img.shdrs)
<1>1. /\ n \in Nat /\ DOMAIN all = 1 .. n + 3
      /\ Len(img.phdrs) \in Nat /\ img.ehdr.phoff \in Nat /\ img.ehdr.shoff \in Nat
      /\ all[1].at = 0 /\ Until(all[1]) = 1 /\ all[1].cells # <<>>
      /\ all[2].at = img.ehdr.phoff /\ Until(all[2]) = img.ehdr.phoff + Len(img.phdrs)
      /\ all[2].cells = <<>> <=> Len(img.phdrs) = 0
      /\ all[3].at = img.ehdr.shoff /\ Until(all[3]) = img.ehdr.shoff + n
      /\ all[3].cells = <<>> <=> n = 0
      /\ \A i \in 1 .. n : i \notin Solid(img) => all[i + 3].cells = <<>>
      /\ \A i \in Solid(img) :
           /\ i \in 1 .. n /\ img.shdrs[i].offset \in Nat /\ img.shdrs[i].size \in Nat
           /\ all[i + 3].at = img.shdrs[i].offset
           /\ Until(all[i + 3]) = img.shdrs[i].offset + img.shdrs[i].size
           /\ all[i + 3].cells = <<>> <=> img.shdrs[i].size = 0
  BY SpanLengths
<1> HIDE DEF all
<1> DEFINE Far(x, y) == all[x].cells = <<>> \/ all[y].cells = <<>>
                        \/ Until(all[x]) <= all[y].at \/ Until(all[y]) <= all[x].at
<1>2. \A i \in DOMAIN all : i \in {1, 2, 3} \/ (i - 3 \in 1 .. n /\ (i - 3) + 3 = i)
  BY <1>1
<1>3. Far(1, 2) /\ Far(1, 3) /\ Far(2, 3)
  BY <1>1 DEF Tidy, Clear
<1>4. ASSUME NEW i \in 1 .. n PROVE Far(1, i + 3) /\ Far(2, i + 3) /\ Far(3, i + 3)
  <2>1. CASE i \notin Solid(img)
    BY <1>1, <2>1
  <2>2. CASE i \in Solid(img)
    <3>1. /\ Clear(0, 1, img.shdrs[i].offset, img.shdrs[i].size)
          /\ Clear(img.ehdr.phoff, Len(img.phdrs), img.shdrs[i].offset, img.shdrs[i].size)
          /\ Clear(img.ehdr.shoff, n, img.shdrs[i].offset, img.shdrs[i].size)
      BY <2>2 DEF Tidy
    <3> QED
      BY <1>1, <2>2, <3>1 DEF Clear
  <2> QED
    BY <2>1, <2>2
<1>5. ASSUME NEW i \in 1 .. n, NEW j \in 1 .. n, i # j PROVE Far(i + 3, j + 3)
  <2>1. CASE i \notin Solid(img) \/ j \notin Solid(img)
    BY <1>1, <2>1
  <2>2. CASE i \in Solid(img) /\ j \in Solid(img)
    <3>1. Clear(img.shdrs[i].offset, img.shdrs[i].size, img.shdrs[j].offset, img.shdrs[j].size)
      BY <1>5, <2>2 DEF Tidy
    <3> QED
      BY <1>1, <2>2, <3>1 DEF Clear
  <2> QED
    BY <2>1, <2>2
<1>6. \A x, y : Far(x, y) <=> Far(y, x)
  OBVIOUS
<1>7. ASSUME NEW i \in DOMAIN all, NEW j \in DOMAIN all, i # j PROVE Far(i, j)
  <2> HIDE DEF Far
  <2>1. CASE i \in {1, 2, 3} /\ j \in {1, 2, 3}
    BY <1>3, <1>6, <1>7, <2>1
  <2>2. CASE i \in {1, 2, 3} /\ j \notin {1, 2, 3}
    <3>1. j - 3 \in 1 .. n /\ (j - 3) + 3 = j
      BY <1>2, <2>2
    <3>2. Far(1, (j - 3) + 3) /\ Far(2, (j - 3) + 3) /\ Far(3, (j - 3) + 3)
      BY <1>4, <3>1
    <3> QED
      BY <2>2, <3>1, <3>2
  <2>3. CASE i \notin {1, 2, 3} /\ j \in {1, 2, 3}
    <3>1. i - 3 \in 1 .. n /\ (i - 3) + 3 = i
      BY <1>2, <2>3
    <3>2. Far(1, (i - 3) + 3) /\ Far(2, (i - 3) + 3) /\ Far(3, (i - 3) + 3)
      BY <1>4, <3>1
    <3> QED
      BY <1>6, <2>3, <3>1, <3>2
  <2>4. CASE i \notin {1, 2, 3} /\ j \notin {1, 2, 3}
    <3>1. i - 3 \in 1 .. n /\ (i - 3) + 3 = i /\ j - 3 \in 1 .. n /\ (j - 3) + 3 = j /\ i - 3 # j - 3
      BY <1>1, <1>2, <1>7, <2>4
    <3>2. Far((i - 3) + 3, (j - 3) + 3)
      BY <1>5, <3>1
    <3> QED
      BY <3>1, <3>2
  <2> QED
    BY <2>1, <2>2, <2>3, <2>4
<1> QED
  BY <1>7 DEF Apart, all

(* And the other way round.                                                *)
LEMMA ApartTidy ==
  ASSUME NEW img, IsImage(img), SizesSynced(img), Apart(AllSpans(img))
  PROVE  Tidy(img)
<1> DEFINE all == AllSpans(img)
           n == Len(img.shdrs)
<1>1. /\ n \in Nat /\ DOMAIN all = 1 .. n + 3
      /\ Len(img.phdrs) \in Nat /\ img.ehdr.phoff \in Nat /\ img.ehdr.shoff \in Nat
      /\ all[1].at = 0 /\ Until(all[1]) = 1 /\ all[1].cells # <<>>
      /\ all[2].at = img.ehdr.phoff /\ Until(all[2]) = img.ehdr.phoff + Len(img.phdrs)
      /\ all[2].cells = <<>> <=> Len(img.phdrs) = 0
      /\ all[3].at = img.ehdr.shoff /\ Until(all[3]) = img.ehdr.shoff + n
      /\ all[3].cells = <<>> <=> n = 0
      /\ \A i \in Solid(img) :
           /\ i \in 1 .. n /\ img.shdrs[i].offset \in Nat /\ img.shdrs[i].size \in Nat
           /\ all[i + 3].at = img.shdrs[i].offset
           /\ Until(all[i + 3]) = img.shdrs[i].offset + img.shdrs[i].size
           /\ all[i + 3].cells = <<>> <=> img.shdrs[i].size = 0
  BY SpanLengths
<1> DEFINE Far(x, y) == all[x].cells = <<>> \/ all[y].cells = <<>>
                        \/ Until(all[x]) <= all[y].at \/ Until(all[y]) <= all[x].at
<1>2. \A x, y \in DOMAIN all : x # y => Far(x, y)
  BY DEF Apart
<1> HIDE DEF all
<1>3. 1 \in DOMAIN all /\ 2 \in DOMAIN all /\ 3 \in DOMAIN all
      /\ \A i \in 1 .. n : i + 3 \in DOMAIN all /\ i + 3 \notin {1, 2, 3}
  BY <1>1
<1>4. /\ Far(1, 2) /\ Far(1, 3) /\ Far(2, 3)
      /\ \A i \in 1 .. n : Far(1, i + 3) /\ Far(2, i + 3) /\ Far(3, i + 3)
      /\ \A i, j \in 1 .. n : i # j => Far(i + 3, j + 3)
  <2> HIDE DEF Far
  <2>1. Far(1, 2) /\ Far(1, 3) /\ Far(2, 3)
    BY <1>2, <1>3
  <2>2. \A i \in 1 .. n : Far(1, i + 3) /\ Far(2, i + 3) /\ Far(3, i + 3)
    BY <1>2, <1>3
  <2>3. ASSUME NEW i \in 1 .. n, NEW j \in 1 .. n, i # j PROVE Far(i + 3, j + 3)
    <3>1. i + 3 # j + 3
      BY <1>1, <2>3
    <3> QED
      BY <1>2, <1>3, <3>1
  <2> QED
    BY <2>1, <2>2, <2>3
<1>5. /\ Clear(0, 1, img.ehdr.phoff, Len(img.phdrs)) /\ Clear(0, 1, img.ehdr.shoff, n)
      /\ Clear(img.ehdr.phoff, Len(img.phdrs), img.ehdr.shoff, n)
  BY <1>1, <1>4 DEF Clear
<1>6. ASSUME NEW i \in Solid(img)
      PROVE  /\ Clear(0, 1, img.shdrs[i].offset, img.shdrs[i].size)
             /\ Clear(img.ehdr.phoff, Len(img.phdrs), img.shdrs[i].offset, img.shdrs[i].size)
             /\ Clear(img.ehdr.shoff, n, img.shdrs[i].offset, img.shdrs[i].size)
  <2>1. i \in 1 .. n
    BY <1>1
  <2>2. Far(1, i + 3) /\ Far(2, i + 3) /\ Far(3, i + 3)
    <3> HIDE DEF Far
    <3> QED
      BY <1>4, <2>1
  <2>3. /\ img.shdrs[i].offset \in Nat /\ img.shdrs[i].size \in Nat
        /\ all[i + 3].at = img.shdrs[i].offset
        /\ Until(all[i + 3]) = img.shdrs[i].offset + img.shdrs[i].size
        /\ all[i + 3].cells = <<>> <=> img.shdrs[i].size = 0
    BY <1>1
  <2>4. Clear(0, 1, img.shdrs[i].offset, img.shdrs[i].size)
    BY <1>1, <2>2, <2>3 DEF Clear
  <2>5. Clear(img.ehdr.phoff, Len(img.phdrs), img.shdrs[i].offset, img.shdrs[i].size)
    BY <1>1, <2>2, <2>3 DEF Clear
  <2>6. Clear(img.ehdr.shoff, n, img.shdrs[i].offset, img.shdrs[i].size)
    BY <1>1, <2>2, <2>3 DEF Clear
  <2> QED
    BY <2>4, <2>5, <2>6
<1>7. ASSUME NEW i \in Solid(img), NEW j \in Solid(img), i # j
      PROVE  Clear(img.shdrs[i].offset, img.shdrs[i].size, img.shdrs[j].offset, img.shdrs[j].size)
  <2>1. i \in 1 .. n /\ j \in 1 .. n
    BY <1>1
  <2>2. Far(i + 3, j + 3)
    <3> HIDE DEF Far
    <3> QED
      BY <1>4, <1>7, <2>1
  <2> QED
    BY <1>1, <2>2 DEF Clear
<1> QED
  BY <1>5, <1>6, <1>7 DEF Tidy

-----------------------------------------------------------------------------
(* The dynamic array rewritten entry by entry; the rest is as it was.      *)
Rewritten(img, r) ==
  /\ IsImage(r) /\ r.ehdr = img.ehdr /\ r.phdrs = img.phdrs /\ r.shdrs = img.shdrs
  /\ r.data = img.data /\ DOMAIN r.dynamic = DOMAIN img.dynamic /\ Len(r.dynamic) = Len(img.dynamic)

(* Rewriting dynamic entries in place leaves the rest of the image alone.  *)
LEMMA DynamicRewritten ==
  ASSUME NEW img, IsImage(img), NEW d,
         DOMAIN d = DOMAIN img.dynamic, d = [i \in DOMAIN img.dynamic |-> d[i]],
         \A i \in DOMAIN img.dynamic : d[i] \in DynCell
  PROVE  LET r == [img EXCEPT !.dynamic = Tuple(d)]
         IN Rewritten(img, r) /\ r.dynamic = d
<1> DEFINE r == [img EXCEPT !.dynamic = Tuple(d)]
<1>1. IsList(img.dynamic) /\ DOMAIN img.dynamic = 1 .. Len(img.dynamic)
  BY SeqList DEF IsImage
<1>2. IsList(d) /\ Len(d) = Len(img.dynamic) /\ Tuple(d) = d
  BY <1>1, ListMap
<1>3. d \in Seq(DynCell)
  BY <1>2, ListTyped
<1>4. Fields(r, img.ehdr, img.phdrs, img.shdrs, img.data, Tuple(d), img.err)
  BY ImageWith
<1> HIDE DEF r
<1>5. /\ r.ehdr = img.ehdr /\ r.phdrs = img.phdrs /\ r.shdrs = img.shdrs
      /\ r.data = img.data /\ r.dynamic = d
      /\ r = Image(r.ehdr, r.phdrs, r.shdrs, r.data, r.dynamic, r.err)
  BY <1>2, <1>4 DEF Fields
<1>6. IsImage(r)
  BY <1>3, <1>5 DEF IsImage
<1> QED
  BY <1>2, <1>5, <1>6 DEF Rewritten, r

(* fixup_mips_rld_map_rel rewrites no entry that holds a section's         *)
(* address.                                                                *)
LEMMA RldMapRewritten ==
  ASSUME NEW img, IsImage(img)
  PROVE  LET r == FixupRldMapRel(img)
         IN /\ Rewritten(img, r)
            /\ \A i \in DOMAIN img.dynamic :
                 img.dynamic[i].tag \in AddrTags => r.dynamic[i] = img.dynamic[i]
<1> DEFINE s == DynIdx(img)
           m == FindSection(img, RldMap)
           dynAddr == IF s = 0 THEN 0 ELSE img.shdrs[s].addr
           V(i) == IF m = 0 THEN 0 ELSE img.shdrs[m].addr - (i - 1) - dynAddr
           d == [i \in DOMAIN img.dynamic |->
                   IF img.dynamic[i].tag # "RLD_MAP_REL" THEN img.dynamic[i]
                   ELSE Dyn("RLD_MAP_REL", V(i))]
<1>1. /\ \A i \in DOMAIN img.dynamic : img.dynamic[i] \in DynCell /\ i \in Nat
      /\ \A i \in DOMAIN img.shdrs : img.shdrs[i].addr \in Nat
  <2>1. \A c \in ShdrCell : c.addr \in Nat
    BY DEF ShdrCell
  <2> QED
    BY <2>1, ImageDomains
<1>2. /\ s = 0 \/ s \in DOMAIN img.shdrs
      /\ m = 0 \/ m \in DOMAIN img.shdrs
  BY DynIdxFirst, FindSectionIndex
<1> HIDE DEF s, m
<1>3. \A i \in DOMAIN img.dynamic : V(i) \in Int
  BY <1>1, <1>2
<1> HIDE DEF V
<1>4. \A i \in DOMAIN img.dynamic : d[i] \in DynCell
  <2>1. \A v \in Int : Dyn("RLD_MAP_REL", v) \in DynCell
    BY DEF Dyn, DynCell, Text
  <2> QED
    BY <1>1, <1>3, <2>1
<1>5. DOMAIN d = DOMAIN img.dynamic /\ d = [i \in DOMAIN img.dynamic |-> d[i]]
  OBVIOUS
<1>6. \A i \in DOMAIN img.dynamic : img.dynamic[i].tag \in AddrTags => d[i] = img.dynamic[i]
  BY DEF AddrTags
<1>7. FixupRldMapRel(img) = [img EXCEPT !.dynamic = Tuple(d)]
  BY DEF FixupRldMapRel, V, s, m
<1> HIDE DEF d
<1> QED
  BY <1>4, <1>5, <1>6, <1>7, DynamicRewritten

(* fixup_dynamic_addrs rewrites entries in place, none when no section     *)
(* moved.                                                                  *)
LEMMA AddrsRewritten ==
  ASSUME NEW before, NEW after, IsImage(before), IsImage(after),
         Len(before.shdrs) = Len(after.shdrs), NEW moved, moved \subseteq DOMAIN before.shdrs
  PROVE  LET r == FixupDynamicAddrs(before, after, moved)
         IN /\ Rewritten(after, r)
            /\ moved = {} => \A i \in DOMAIN after.dynamic :
                 after.dynamic[i].tag \in AddrTags => r.dynamic[i] = after.dynamic[i]
<1> DEFINE Hit(v) == {i \in moved : /\ before.shdrs[i].addr # 0
                                    /\ before.shdrs[i].addr <= v
                                    /\ v < before.shdrs[i].addr + before.shdrs[i].size}
           Rebase(v) == IF Hit(v) = {} THEN v
                        ELSE LET i == Min(Hit(v))
                             IN after.shdrs[i].addr + (v - before.shdrs[i].addr)
           t == FindSection(after, Dynstr)
           d == [i \in DOMAIN after.dynamic |->
                   IF after.dynamic[i].tag \in AddrTags
                   THEN Dyn(after.dynamic[i].tag, Rebase(after.dynamic[i].val))
                   ELSE after.dynamic[i]]
           rebased == [after EXCEPT !.dynamic = Tuple(d)]
           fixed == FixupRldMapRel(rebased)
           e == [i \in DOMAIN fixed.dynamic |->
                   IF fixed.dynamic[i].tag = "STRSZ" /\ t # 0
                   THEN Dyn("STRSZ", after.shdrs[t].size) ELSE fixed.dynamic[i]]
           r == [fixed EXCEPT !.dynamic = Tuple(e)]
<1>1. /\ \A i \in DOMAIN after.dynamic : after.dynamic[i] \in DynCell
      /\ DOMAIN before.shdrs = DOMAIN after.shdrs /\ DOMAIN before.shdrs = 1 .. Len(before.shdrs)
      /\ Len(before.shdrs) \in Nat
      /\ \A i \in DOMAIN after.shdrs : /\ after.shdrs[i].addr \in Nat /\ after.shdrs[i].size \in Nat
                                       /\ before.shdrs[i].addr \in Nat
  <2>1. \A c \in ShdrCell : c.addr \in Nat /\ c.size \in Nat
    BY DEF ShdrCell
  <2>2. /\ DOMAIN before.shdrs = 1 .. Len(before.shdrs) /\ Len(before.shdrs) \in Nat
        /\ DOMAIN after.shdrs = 1 .. Len(after.shdrs)
        /\ \A i \in DOMAIN after.dynamic : after.dynamic[i] \in DynCell
        /\ \A i \in DOMAIN before.shdrs : before.shdrs[i] \in ShdrCell
        /\ \A i \in DOMAIN after.shdrs : after.shdrs[i] \in ShdrCell
    BY ImageDomains
  <2> QED
    BY <2>1, <2>2
<1>2. FixupDynamicAddrs(before, after, moved) = r
  BY DEF FixupDynamicAddrs
<1>3. ASSUME NEW v \in Int PROVE Rebase(v) \in Int
  <2>1. Hit(v) \subseteq 1 .. Len(before.shdrs)
    BY <1>1
  <2>2. Hit(v) # {} => Min(Hit(v)) \in DOMAIN before.shdrs
    <3> HIDE DEF Hit
    <3> QED
      BY <1>1, <2>1, LeastIndex
  <2> HIDE DEF Hit
  <2> QED
    BY <1>1, <2>2
<1>4. moved = {} => \A v : Rebase(v) = v
  OBVIOUS
<1> HIDE DEF Rebase
<1>5. \A i \in DOMAIN after.dynamic : d[i] \in DynCell
  <2> SUFFICES ASSUME NEW i \in DOMAIN after.dynamic PROVE d[i] \in DynCell
    OBVIOUS
  <2>1. after.dynamic[i] \in DynCell
    BY <1>1
  <2>2. after.dynamic[i].val \in Int /\ after.dynamic[i].tag \in Text
    BY <2>1 DEF DynCell
  <2>3. Dyn(after.dynamic[i].tag, Rebase(after.dynamic[i].val)) \in DynCell
    BY <1>3, <2>2 DEF Dyn, DynCell
  <2> QED
    BY <2>1, <2>3
<1>6. DOMAIN d = DOMAIN after.dynamic /\ d = [i \in DOMAIN after.dynamic |-> d[i]]
  OBVIOUS
<1>7. moved = {} => \A i \in DOMAIN after.dynamic : d[i] = after.dynamic[i]
  <2> SUFFICES ASSUME moved = {}, NEW i \in DOMAIN after.dynamic PROVE d[i] = after.dynamic[i]
    OBVIOUS
  <2>1. \A c \in DynCell : Dyn(c.tag, c.val) = c
    BY DEF Dyn, DynCell
  <2> QED
    BY <1>1, <1>4, <2>1
<1> HIDE DEF d
<1>8. Rewritten(after, rebased) /\ rebased.dynamic = d
  BY <1>5, <1>6, DynamicRewritten
<1> HIDE DEF rebased
<1>9. /\ Rewritten(rebased, fixed)
      /\ \A i \in DOMAIN rebased.dynamic :
           rebased.dynamic[i].tag \in AddrTags => fixed.dynamic[i] = rebased.dynamic[i]
  <2>1. IsImage(rebased)
    BY <1>8 DEF Rewritten
  <2> QED
    BY <2>1, RldMapRewritten
<1> HIDE DEF fixed
<1>10. t = 0 \/ t \in DOMAIN after.shdrs
  BY FindSectionIndex
<1> HIDE DEF t
<1>11. \A i \in DOMAIN fixed.dynamic : e[i] \in DynCell
  <2> SUFFICES ASSUME NEW i \in DOMAIN fixed.dynamic PROVE e[i] \in DynCell
    OBVIOUS
  <2>1. fixed.dynamic[i] \in DynCell
    <3>1. IsImage(fixed)
      BY <1>9 DEF Rewritten
    <3> QED
      BY <3>1, ImageDomains
  <2>2. t # 0 => Dyn("STRSZ", after.shdrs[t].size) \in DynCell
    <3>1. \A n \in Nat : Dyn("STRSZ", n) \in DynCell
      BY DEF Dyn, DynCell, Text
    <3> QED
      BY <1>1, <1>10, <3>1
  <2> QED
    BY <2>1, <2>2
<1>12. DOMAIN e = DOMAIN fixed.dynamic /\ e = [i \in DOMAIN fixed.dynamic |-> e[i]]
  OBVIOUS
<1>13. \A i \in DOMAIN fixed.dynamic : fixed.dynamic[i].tag \in AddrTags => e[i] = fixed.dynamic[i]
  BY DEF AddrTags
<1> HIDE DEF e
<1>14. Rewritten(fixed, r) /\ r.dynamic = e
  <2>1. IsImage(fixed)
    BY <1>9 DEF Rewritten
  <2> QED
    BY <1>11, <1>12, <2>1, DynamicRewritten
<1> HIDE DEF r
<1>15. Rewritten(after, r)
  BY <1>8, <1>9, <1>14 DEF Rewritten
<1>16. moved = {} => \A i \in DOMAIN after.dynamic :
                 after.dynamic[i].tag \in AddrTags => r.dynamic[i] = after.dynamic[i]
  <2> SUFFICES ASSUME moved = {}, NEW i \in DOMAIN after.dynamic, after.dynamic[i].tag \in AddrTags
               PROVE  r.dynamic[i] = after.dynamic[i]
    OBVIOUS
  <2>1. d[i] = after.dynamic[i] /\ i \in DOMAIN rebased.dynamic /\ rebased.dynamic[i] = after.dynamic[i]
    BY <1>7, <1>8 DEF Rewritten
  <2>2. fixed.dynamic[i] = after.dynamic[i] /\ i \in DOMAIN fixed.dynamic
    BY <1>9, <2>1 DEF Rewritten
  <2> QED
    BY <1>13, <1>14, <2>2
<1> QED
  BY <1>2, <1>15, <1>16

(* The dynamic array encoded into its section.                             *)
Synced(img, r) ==
  /\ IsImage(r) /\ r.ehdr = img.ehdr /\ r.phdrs = img.phdrs /\ r.shdrs = img.shdrs
  /\ r.dynamic = img.dynamic
  /\ \A i \in DOMAIN img.shdrs : i # DynIdx(img) => r.data[i] = img.data[i]
  /\ DynIdx(img) # 0 =>
       LET n == Max({Len(img.dynamic), img.shdrs[DynIdx(img)].size})
       IN /\ r.data[DynIdx(img)] = Encoded(img.dynamic, n)
          /\ Len(r.data[DynIdx(img)]) = n

(* The longer of two lengths.                                              *)
LEMMA LongerOf ==
  ASSUME NEW a \in Nat, NEW b \in Nat
  PROVE  /\ Max({a, b}) \in Nat /\ Max({a, b}) >= a /\ Max({a, b}) >= b
         /\ a <= b => Max({a, b}) = b
         /\ Max({a, b}) = a \/ Max({a, b}) = b
<1>1. {a, b} \subseteq 0 .. a + b /\ a + b \in Nat /\ {a, b} # {}
  OBVIOUS
<1> DEFINE S == {a, b}
<1>2. a \in S /\ b \in S /\ \A x \in S : x = a \/ x = b
  OBVIOUS
<1> HIDE DEF S
<1>3. Max(S) \in S /\ \A y \in S : Max(S) >= y
  BY <1>1, MaxOf DEF S
<1>4. /\ Max(S) \in Nat /\ Max(S) >= a /\ Max(S) >= b
      /\ a <= b => Max(S) = b
      /\ Max(S) = a \/ Max(S) = b
  <2> DEFINE m == Max(S)
  <2>1. (m = a \/ m = b) /\ m >= a /\ m >= b
    BY <1>2, <1>3
  <2> HIDE DEF m
  <2>2. m \in Nat /\ (a <= b => m = b)
    BY <2>1
  <2> QED
    BY <2>1, <2>2 DEF m
<1> QED
  BY <1>4 DEF S

(* The dynamic section takes the encoded entries, and is as long as they   *)
(* are.                                                                    *)
LEMMA DynamicSynced ==
  ASSUME NEW img, IsImage(img)
  PROVE  Synced(img, SyncDynamic(img))
<1> DEFINE s == DynIdx(img)
           n == Max({Len(img.dynamic), img.shdrs[s].size})
           cells == Encoded(img.dynamic, n)
           r == SyncDynamic(img)
           data == [img.data EXCEPT ![s] = cells]
<1>1. s = 0 \/ s \in DOMAIN img.shdrs
  BY DynIdxFirst
<1>2. CASE s = 0
  BY <1>2 DEF SyncDynamic, Synced
<1>3. CASE s # 0
  <2>1. img.shdrs[s] \in ShdrCell /\ Len(img.dynamic) \in Nat /\ img.dynamic \in Seq(DynCell)
    BY <1>1, <1>3, ImageDomains DEF IsImage
  <2>2. img.shdrs[s].size \in Nat
    BY <2>1 DEF ShdrCell
  <2>3. n \in Nat /\ n >= Len(img.dynamic)
    <3> HIDE DEF s
    <3> QED
      BY <2>1, <2>2, LongerOf
  <2>4. r = [img EXCEPT !.data = data]
    BY <1>3 DEF SyncDynamic, Encoded
  <2> HIDE DEF s, n, r
  <2>5. CellList(cells) /\ Len(cells) = n
    BY <2>1, <2>3, EncodedReads
  <2> HIDE DEF cells
  <2>6. Fields(r, img.ehdr, img.phdrs, img.shdrs, data, img.dynamic, img.err)
    BY <2>4, ImageWith
  <2>7. /\ IsList(img.data) /\ Len(img.data) = Len(img.shdrs) /\ DOMAIN img.data = DOMAIN img.shdrs
        /\ \A i \in DOMAIN img.shdrs : CellList(img.data[i])
    BY ImageDomains DEF IsImage
  <2>8. /\ DOMAIN data = DOMAIN img.data /\ data = [i \in DOMAIN img.data |-> data[i]]
        /\ data[s] = cells /\ \A i \in DOMAIN img.data : i # s => data[i] = img.data[i]
    BY <1>1, <1>3, <2>7
  <2> HIDE DEF data
  <2>9. IsList(data) /\ Len(data) = Len(img.data)
    BY <2>7, <2>8, ListMap
  <2>10. \A i \in DOMAIN img.shdrs : CellList(data[i])
    BY <2>5, <2>7, <2>8
  <2>11. /\ r.ehdr = img.ehdr /\ r.phdrs = img.phdrs /\ r.shdrs = img.shdrs
         /\ r.data = data /\ r.dynamic = img.dynamic
         /\ r = Image(r.ehdr, r.phdrs, r.shdrs, r.data, r.dynamic, r.err)
    BY <2>6 DEF Fields
  <2>12. IsImage(r)
    BY <2>7, <2>9, <2>10, <2>11 DEF IsImage
  <2>13. \A i \in DOMAIN img.shdrs : i # s => r.data[i] = img.data[i]
    BY <2>7, <2>8, <2>11
  <2>14. r.data[s] = cells /\ Len(r.data[s]) = n
    BY <2>5, <2>8, <2>11
  <2> QED
    BY <2>11, <2>12, <2>13, <2>14 DEF Synced, r, s, n, cells
<1> QED
  BY <1>2, <1>3

(* The segments follow their sections.                                     *)
Framed(img, r) ==
  /\ IsImage(r) /\ r.ehdr = img.ehdr /\ r.shdrs = img.shdrs
  /\ r.data = img.data /\ r.dynamic = img.dynamic
  /\ DOMAIN r.phdrs = DOMAIN img.phdrs /\ Len(r.phdrs) = Len(img.phdrs)
  /\ \A i \in DOMAIN img.phdrs : r.phdrs[i].type = img.phdrs[i].type
  /\ \A i \in DOMAIN img.phdrs : IsLoad(img.phdrs[i]) =>
       \/ r.phdrs[i].offset = img.phdrs[i].offset
       \/ \E j \in DOMAIN img.shdrs : r.phdrs[i].offset = img.shdrs[j].offset
  /\ img.shdrs = <<>> =>
       \A i \in DOMAIN img.phdrs : img.phdrs[i].type # "PHDR" => r.phdrs[i] = img.phdrs[i]

(* A segment moved stays of its type.                                      *)
LEMMA SegmentSet ==
  ASSUME NEW p \in PhdrCell, NEW off \in Nat, NEW addr \in Nat, NEW size \in Nat
  PROVE  SetSegment(p, off, addr, size) \in PhdrCell /\ SetSegment(p, off, addr, size).type = p.type
BY DEF SetSegment, PhdrCell

(* A segment framed by a section stays of its type.                        *)
LEMMA FrameTyped ==
  ASSUME NEW img, IsImage(img), NEW p \in PhdrCell, NEW i, i = 0 \/ i \in DOMAIN img.shdrs
  PROVE  Frame(p, img, i) \in PhdrCell /\ Frame(p, img, i).type = p.type
<1>1. CASE i = 0
  BY <1>1 DEF Frame
<1>2. CASE i # 0
  <2>1. img.shdrs[i] \in ShdrCell
    BY <1>2, ImageDomains
  <2>2. img.shdrs[i].offset \in Nat /\ img.shdrs[i].addr \in Nat /\ img.shdrs[i].size \in Nat
    BY <2>1 DEF ShdrCell
  <2>3. Frame(p, img, i) = SetSegment(p, img.shdrs[i].offset, img.shdrs[i].addr, img.shdrs[i].size)
    BY <1>2 DEF Frame
  <2>4. \A off, addr, size \in Nat :
          /\ SetSegment(p, off, addr, size) \in PhdrCell
          /\ SetSegment(p, off, addr, size).type = p.type
    BY SegmentSet
  <2> QED
    BY <2>2, <2>3, <2>4
<1> QED
  BY <1>1, <1>2

(* An image without sections has no section to be found.                   *)
LEMMA NoSections ==
  ASSUME NEW img, img.shdrs = <<>>
  PROVE  DynIdx(img) = 0 /\ \A name : FindSection(img, name) = 0
<1>1. \A x : x = <<>> => DOMAIN x = {} /\ Len(x) = 0
  OBVIOUS
<1>2. DynIdx(img) = 0
  <2>1. {i \in 1 .. Len(img.shdrs) : img.shdrs[i].type = "DYNAMIC"} = {}
    BY <1>1
  <2> QED
    BY <2>1 DEF DynIdx, SelectInSeq
<1> QED
  BY <1>1, <1>2 DEF FindSection

(* sync_segments frames segments by their sections and changes nothing     *)
(* else.                                                                   *)
LEMMA SegmentsSynced ==
  ASSUME NEW img, IsImage(img), NEW k, k = 0 \/ k \in DOMAIN img.phdrs,
         img.shdrs = <<>> => k = 0, NEW v \in Nat
  PROVE  Framed(img, SyncSegments(img, k, v))
<1> DEFINE note == FindSection(img, LdCache)
           seg == [img.phdrs EXCEPT ![k] = Frame(img.phdrs[k], img, note)]
           anchored == IF k = 0 THEN img
                       ELSE [img EXCEPT !.phdrs[k] = Frame(@, img, note)]
           start == IF k = 0 THEN img.phdrs ELSE seg
           Sync(p) ==
             CASE p.type = "PHDR" -> SetSegment(p, img.ehdr.phoff, v, Len(img.phdrs))
               [] p.type = "INTERP" -> Frame(p, img, FindSection(img, Interp))
               [] p.type = "DYNAMIC" -> Frame(p, img, DynIdx(img))
               [] OTHER -> p
           d == [i \in DOMAIN anchored.phdrs |-> Sync(anchored.phdrs[i])]
           r == [anchored EXCEPT !.phdrs = Tuple(d)]
<1>1. SyncSegments(img, k, v) = r
  BY DEF SyncSegments
<1>2. /\ DOMAIN img.phdrs = 1 .. Len(img.phdrs) /\ Len(img.phdrs) \in Nat /\ IsList(img.phdrs)
      /\ img.ehdr.phoff \in Nat /\ \A i \in DOMAIN img.phdrs : img.phdrs[i] \in PhdrCell
  BY SeqList, ImageDomains DEF IsImage, EhdrCell
<1>3. /\ note = 0 \/ note \in DOMAIN img.shdrs
      /\ FindSection(img, Interp) = 0 \/ FindSection(img, Interp) \in DOMAIN img.shdrs
      /\ DynIdx(img) = 0 \/ DynIdx(img) \in DOMAIN img.shdrs
  BY FindSectionIndex, DynIdxFirst
<1> HIDE DEF note
<1>4. ASSUME NEW p \in PhdrCell
      PROVE  /\ Frame(p, img, note) \in PhdrCell /\ Frame(p, img, note).type = p.type
             /\ Frame(p, img, FindSection(img, Interp)) \in PhdrCell
             /\ Frame(p, img, FindSection(img, Interp)).type = p.type
             /\ Frame(p, img, DynIdx(img)) \in PhdrCell
             /\ Frame(p, img, DynIdx(img)).type = p.type
             /\ SetSegment(p, img.ehdr.phoff, v, Len(img.phdrs)) \in PhdrCell
             /\ SetSegment(p, img.ehdr.phoff, v, Len(img.phdrs)).type = p.type
  <2>1. \A i : (i = 0 \/ i \in DOMAIN img.shdrs) =>
          Frame(p, img, i) \in PhdrCell /\ Frame(p, img, i).type = p.type
    BY FrameTyped
  <2>2. /\ SetSegment(p, img.ehdr.phoff, v, Len(img.phdrs)) \in PhdrCell
        /\ SetSegment(p, img.ehdr.phoff, v, Len(img.phdrs)).type = p.type
    BY <1>2, SegmentSet
  <2> QED
    BY <1>3, <2>1, <2>2
<1>5. /\ anchored.phdrs = start
      /\ anchored.ehdr = img.ehdr /\ anchored.shdrs = img.shdrs /\ anchored.data = img.data
      /\ anchored.dynamic = img.dynamic
      /\ anchored = Image(img.ehdr, start, img.shdrs, img.data, img.dynamic, img.err)
  <2>1. CASE k = 0
    BY <2>1 DEF IsImage
  <2>2. CASE k # 0
    <3>1. anchored = [img EXCEPT !.phdrs = seg]
      BY <2>2
    <3>2. Fields([img EXCEPT !.phdrs = seg], img.ehdr, seg, img.shdrs, img.data, img.dynamic, img.err)
      BY ImageWith
    <3>3. start = seg
      BY <2>2
    <3> HIDE DEF seg, anchored, start
    <3> QED
      BY <3>1, <3>2, <3>3 DEF Fields
  <2> QED
    BY <2>1, <2>2
<1>6. /\ DOMAIN start = DOMAIN img.phdrs
      /\ start = [i \in DOMAIN img.phdrs |-> start[i]]
      /\ \A i \in DOMAIN img.phdrs : start[i] \in PhdrCell /\ start[i].type = img.phdrs[i].type
      /\ k = 0 => start = img.phdrs
  <2>1. CASE k = 0
    BY <1>2, <2>1 DEF IsList
  <2>2. CASE k # 0
    <3>1. /\ start = seg /\ DOMAIN seg = DOMAIN img.phdrs
          /\ seg[k] = Frame(img.phdrs[k], img, note)
          /\ \A i \in DOMAIN img.phdrs : i # k => seg[i] = img.phdrs[i]
          /\ seg = [i \in DOMAIN img.phdrs |-> seg[i]]
      BY <1>2, <2>2
    <3>2. img.phdrs[k] \in PhdrCell
      BY <1>2, <2>2
    <3>3. /\ Frame(img.phdrs[k], img, note) \in PhdrCell
          /\ Frame(img.phdrs[k], img, note).type = img.phdrs[k].type
      BY <1>4, <3>2
    <3> HIDE DEF seg, start
    <3>4. ASSUME NEW i \in DOMAIN img.phdrs
          PROVE  seg[i] \in PhdrCell /\ seg[i].type = img.phdrs[i].type
      <4>1. CASE i = k
        BY <3>1, <3>3, <4>1
      <4>2. CASE i # k
        BY <1>2, <3>1, <4>2
      <4> QED
        BY <4>1, <4>2
    <3>5. DOMAIN start = DOMAIN img.phdrs /\ start = [i \in DOMAIN img.phdrs |-> start[i]]
      BY <3>1
    <3> QED
      BY <2>2, <3>1, <3>4, <3>5
  <2> QED
    BY <2>1, <2>2
<1> HIDE DEF anchored, start
<1>7. ASSUME NEW p \in PhdrCell PROVE Sync(p) \in PhdrCell /\ Sync(p).type = p.type
  BY <1>4
<1>8. ASSUME img.shdrs = <<>>, NEW p \in PhdrCell, p.type # "PHDR" PROVE Sync(p) = p
  BY <1>8, NoSections DEF Frame
<1> HIDE DEF Sync
<1>9. /\ DOMAIN d = DOMAIN start /\ d = [i \in DOMAIN start |-> d[i]]
      /\ \A i \in DOMAIN start : d[i] = Sync(start[i])
  BY <1>5
<1> HIDE DEF d
<1>10. IsList(start) /\ Len(start) = Len(img.phdrs)
  BY <1>2, <1>6, FunctionList
<1>11. IsList(d) /\ Len(d) = Len(img.phdrs) /\ Tuple(d) = d /\ DOMAIN d = DOMAIN img.phdrs
  BY <1>6, <1>9, <1>10, ListMap
<1>12. \A i \in DOMAIN d : d[i] \in PhdrCell /\ d[i].type = img.phdrs[i].type
  <2> SUFFICES ASSUME NEW i \in DOMAIN img.phdrs
               PROVE  d[i] \in PhdrCell /\ d[i].type = img.phdrs[i].type
    BY <1>11
  <2>1. start[i] \in PhdrCell /\ start[i].type = img.phdrs[i].type /\ d[i] = Sync(start[i])
    BY <1>6, <1>9
  <2> QED
    BY <1>7, <2>1
<1>13. d \in Seq(PhdrCell)
  BY <1>11, <1>12, ListTyped
<1>14. r = Image(img.ehdr, d, img.shdrs, img.data, img.dynamic, img.err)
  BY <1>5, <1>11 DEF Image
<1>15. \A a, b, c, x, e, g : Fields(Image(a, b, c, x, e, g), a, b, c, x, e, g)
  BY DEF Fields, Image
<1>16. Fields(r, img.ehdr, d, img.shdrs, img.data, img.dynamic, img.err)
  BY <1>14, <1>15
<1> HIDE DEF r
<1>17. /\ r.ehdr = img.ehdr /\ r.phdrs = d /\ r.shdrs = img.shdrs
       /\ r.data = img.data /\ r.dynamic = img.dynamic
       /\ r = Image(r.ehdr, r.phdrs, r.shdrs, r.data, r.dynamic, r.err)
  BY <1>16 DEF Fields
<1>18. IsImage(r)
  BY <1>13, <1>17 DEF IsImage
<1>19. ASSUME img.shdrs = <<>>, NEW i \in DOMAIN img.phdrs, img.phdrs[i].type # "PHDR"
       PROVE  d[i] = img.phdrs[i]
  <2>1. start = img.phdrs /\ img.phdrs[i] \in PhdrCell
    BY <1>2, <1>6, <1>19
  <2>2. Sync(img.phdrs[i]) = img.phdrs[i]
    BY <1>8, <1>19, <2>1
  <2> QED
    BY <1>9, <2>1, <2>2
<1>20. ASSUME NEW i \in DOMAIN img.phdrs, IsLoad(img.phdrs[i])
       PROVE  \/ d[i].offset = img.phdrs[i].offset
              \/ \E j \in DOMAIN img.shdrs : d[i].offset = img.shdrs[j].offset
  <2>1. d[i] = start[i]
    <3>1. start[i].type = "LOAD" /\ d[i] = Sync(start[i])
      BY <1>6, <1>9, <1>20 DEF IsLoad
    <3> QED
      BY <3>1 DEF Sync
  <2>2. CASE k = i
    <3>1. start[i] = Frame(img.phdrs[i], img, note)
      BY <1>2, <1>20, <2>2 DEF start
    <3>2. img.phdrs[i] \in PhdrCell
      BY <1>2
    <3>3. CASE note = 0
      BY <2>1, <3>1, <3>3 DEF Frame
    <3>4. CASE note # 0
      <4>1. start[i].offset = img.shdrs[note].offset
        BY <3>1, <3>2, <3>4 DEF Frame, SetSegment, PhdrCell
      <4> QED
        BY <1>3, <2>1, <3>4, <4>1
    <3> QED
      BY <3>3, <3>4
  <2>3. CASE k # i
    <3>1. start[i] = img.phdrs[i]
      BY <1>2, <2>3 DEF start
    <3> QED
      BY <2>1, <3>1
  <2> QED
    BY <2>2, <2>3
<1>21. Framed(img, r)
  BY <1>11, <1>12, <1>17, <1>18, <1>19, <1>20 DEF Framed
<1> QED
  BY <1>1, <1>21

(* The segment of the resolution cache is one of the image's.              *)
LEMMA LdCacheIndex ==
  ASSUME NEW img, IsImage(img)
  PROVE  /\ LdCachePhdr(img) = 0 \/ LdCachePhdr(img) \in DOMAIN img.phdrs
         /\ img.shdrs = <<>> => LdCachePhdr(img) = 0
<1> DEFINE i == FindSection(img, LdCache)
           S == {j \in 1 .. Len(img.phdrs) : img.phdrs[j].type = "NOTE"
                                             /\ img.phdrs[j].offset = img.shdrs[i].offset}
<1>1. LdCachePhdr(img) = IF i = 0 THEN 0 ELSE IF S # {} THEN Min(S) ELSE 0
  BY DEF LdCachePhdr, SelectInSeq
<1>2. S \subseteq 1 .. Len(img.phdrs) /\ Len(img.phdrs) \in Nat /\ DOMAIN img.phdrs = 1 .. Len(img.phdrs)
  BY ImageDomains
<1>3. img.shdrs = <<>> => i = 0
  BY NoSections
<1> HIDE DEF S, i
<1>4. S # {} => Min(S) \in DOMAIN img.phdrs
  BY <1>2, LeastIndex
<1> QED
  BY <1>1, <1>3, <1>4

(* The result of all the fixups.                                           *)
FixedUp(placed, r) ==
  /\ IsImage(r) /\ r.ehdr = placed.ehdr /\ r.shdrs = placed.shdrs
  /\ DOMAIN r.phdrs = DOMAIN placed.phdrs /\ Len(r.phdrs) = Len(placed.phdrs)
  /\ \A i \in DOMAIN placed.phdrs : r.phdrs[i].type = placed.phdrs[i].type
  /\ \A i \in DOMAIN placed.phdrs : IsLoad(placed.phdrs[i]) =>
       \/ r.phdrs[i].offset = placed.phdrs[i].offset
       \/ \E j \in DOMAIN placed.shdrs : r.phdrs[i].offset = placed.shdrs[j].offset
  /\ placed.shdrs = <<>> =>
       /\ \A i \in DOMAIN placed.phdrs :
            placed.phdrs[i].type # "PHDR" => r.phdrs[i] = placed.phdrs[i]
       /\ Addressed(placed.dynamic) \subseteq Range(r.dynamic)
  /\ Len(r.dynamic) = Len(placed.dynamic)
  /\ \A i \in DOMAIN placed.shdrs : i # DynIdx(placed) => r.data[i] = placed.data[i]
  /\ DynIdx(placed) # 0 =>
       LET n == Max({Len(r.dynamic), placed.shdrs[DynIdx(placed)].size})
       IN r.data[DynIdx(placed)] = Encoded(r.dynamic, n) /\ Len(r.data[DynIdx(placed)]) = n

(* All fixups of a layout together.                                        *)
LEMMA AllFixed ==
  ASSUME NEW img, IsImage(img), NEW placed, IsImage(placed),
         Len(img.shdrs) = Len(placed.shdrs), Len(img.phdrs) <= Len(placed.phdrs),
         NEW v \in Nat, NEW moved, moved \subseteq DOMAIN img.shdrs
  PROVE  FixedUp(placed, FixAll(img, placed, v, moved))
<1> DEFINE k == LdCachePhdr(img)
           a == SyncSegments(placed, k, v)
           b == FixupDynamicAddrs(img, a, moved)
           r == SyncDynamic(b)
<1>1. FixAll(img, placed, v, moved) = r
  BY DEF FixAll
<1>2. /\ DOMAIN img.phdrs = 1 .. Len(img.phdrs) /\ DOMAIN placed.phdrs = 1 .. Len(placed.phdrs)
      /\ Len(img.phdrs) \in Nat /\ Len(placed.phdrs) \in Nat
      /\ DOMAIN img.shdrs = 1 .. Len(img.shdrs) /\ IsList(img.shdrs) /\ IsList(placed.shdrs)
      /\ Len(img.shdrs) \in Nat
      /\ IsList(placed.dynamic)
  BY ImageDomains, SeqList DEF IsImage
<1>3. placed.shdrs = <<>> => img.shdrs = <<>> /\ moved = {}
  <2> SUFFICES ASSUME placed.shdrs = <<>> PROVE img.shdrs = <<>> /\ moved = {}
    OBVIOUS
  <2>1. Len(placed.shdrs) = 0 /\ Len(img.shdrs) = 0
    BY <1>2, NotEmpty
  <2>2. img.shdrs = <<>>
    BY <1>2, <2>1, NotEmpty
  <2> QED
    BY <1>2, <2>1, <2>2
<1>4. k = 0 \/ k \in DOMAIN placed.phdrs
  <2>1. k = 0 \/ k \in DOMAIN img.phdrs
    BY LdCacheIndex
  <2> QED
    BY <1>2, <2>1
<1>5. placed.shdrs = <<>> => k = 0
  BY <1>3, LdCacheIndex
<1> HIDE DEF k
<1>6. Framed(placed, a)
  BY <1>4, <1>5, SegmentsSynced
<1> HIDE DEF a
<1>7. /\ Rewritten(a, b)
      /\ moved = {} => \A i \in DOMAIN a.dynamic :
                         a.dynamic[i].tag \in AddrTags => b.dynamic[i] = a.dynamic[i]
  <2>1. IsImage(a) /\ Len(img.shdrs) = Len(a.shdrs)
    BY <1>6 DEF Framed
  <2> QED
    BY <2>1, AddrsRewritten
<1> HIDE DEF b
<1>8. Synced(b, r)
  <2>1. IsImage(b)
    BY <1>7 DEF Rewritten
  <2> QED
    BY <2>1, DynamicSynced
<1> HIDE DEF r
<1>9. /\ a.ehdr = placed.ehdr /\ a.shdrs = placed.shdrs /\ a.data = placed.data
      /\ a.dynamic = placed.dynamic
  BY <1>6 DEF Framed
<1>10. /\ b.ehdr = placed.ehdr /\ b.shdrs = placed.shdrs /\ b.data = placed.data
       /\ b.phdrs = a.phdrs /\ DOMAIN b.dynamic = DOMAIN placed.dynamic
       /\ Len(b.dynamic) = Len(placed.dynamic)
  BY <1>7, <1>9 DEF Rewritten
<1>11. DynIdx(b) = DynIdx(placed)
  BY <1>10 DEF DynIdx
<1>12. /\ IsImage(r) /\ r.ehdr = placed.ehdr /\ r.shdrs = placed.shdrs /\ r.phdrs = a.phdrs
       /\ r.dynamic = b.dynamic
       /\ \A i \in DOMAIN placed.shdrs : i # DynIdx(placed) => r.data[i] = placed.data[i]
       /\ DynIdx(placed) # 0 =>
            LET n == Max({Len(r.dynamic), placed.shdrs[DynIdx(placed)].size})
            IN r.data[DynIdx(placed)] = Encoded(r.dynamic, n) /\ Len(r.data[DynIdx(placed)]) = n
  BY <1>8, <1>10, <1>11 DEF Synced
<1>13. ASSUME placed.shdrs = <<>> PROVE Addressed(placed.dynamic) \subseteq Range(r.dynamic)
  <2> SUFFICES ASSUME NEW x \in Addressed(placed.dynamic) PROVE x \in Range(r.dynamic)
    OBVIOUS
  <2>1. PICK i \in DOMAIN placed.dynamic : x = placed.dynamic[i] /\ x.tag \in AddrTags
    BY DEF Addressed, Range
  <2>2. b.dynamic[i] = placed.dynamic[i]
    BY <1>3, <1>7, <1>9, <1>13, <2>1
  <2> QED
    BY <1>10, <1>12, <2>1, <2>2 DEF Range
<1>14. /\ DOMAIN r.phdrs = DOMAIN placed.phdrs /\ Len(r.phdrs) = Len(placed.phdrs)
       /\ \A i \in DOMAIN placed.phdrs : r.phdrs[i].type = placed.phdrs[i].type
       /\ \A i \in DOMAIN placed.phdrs : IsLoad(placed.phdrs[i]) =>
            \/ r.phdrs[i].offset = placed.phdrs[i].offset
            \/ \E j \in DOMAIN placed.shdrs : r.phdrs[i].offset = placed.shdrs[j].offset
       /\ placed.shdrs = <<>> =>
            \A i \in DOMAIN placed.phdrs :
              placed.phdrs[i].type # "PHDR" => r.phdrs[i] = placed.phdrs[i]
  BY <1>6, <1>12 DEF Framed
<1> QED
  BY <1>1, <1>10, <1>12, <1>13, <1>14 DEF FixedUp

-----------------------------------------------------------------------------
(* The parts of a usable file.                                             *)
LEMMA OldParts ==
  ASSUME NEW f, Coherent(f)
  PROVE  /\ Len(f) \in Nat /\ Len(f) >= 1 /\ f[1] \in EhdrCell /\ CellList(f)
         /\ f[1].phoff \in Nat /\ f[1].shoff \in Nat
         /\ Len(Phdrs(f)) = f[1].phnum /\ f[1].phnum \in Nat /\ f[1].phnum >= 1
         /\ Len(Shdrs(f)) = f[1].shnum /\ f[1].shnum \in Nat
         /\ f[1].phoff + f[1].phnum <= Len(f)
         /\ \A p \in Range(Phdrs(f)) : p \in PhdrCell /\ End(p) <= Len(f)
         /\ \A i \in DOMAIN Shdrs(f) :
              /\ Shdrs(f)[i] \in ShdrCell
              /\ Shdrs(f)[i].type # "NOBITS" => Shdrs(f)[i].offset + Shdrs(f)[i].size <= Len(f)
         /\ Tidy(Parse(f)) /\ Regular(Parse(f)) /\ SegmentsClear(Parse(f))
<1> DEFINE img == Parse(f)
<1>1. /\ CellList(f) /\ Len(f) \in Nat /\ Len(f) >= 1 /\ f[1] \in EhdrCell
      /\ Phdrs(f) \in Seq(PhdrCell) /\ Shdrs(f) \in Seq(ShdrCell)
  BY CoherentCells
<1>2. /\ img.ehdr = f[1] /\ img.phdrs = Phdrs(f) /\ img.shdrs = Shdrs(f) /\ img.data = ReadData(f)
      /\ Fields(img, f[1], Phdrs(f), Shdrs(f), ReadData(f), ReadDynamic(f), "none")
  <2>1. Fields(img, f[1], Phdrs(f), Shdrs(f), ReadData(f), ReadDynamic(f), "none")
    BY <1>1, ParseFields
  <2> HIDE DEF img
  <2> QED
    BY <2>1 DEF Fields
<1>3. IsImage(img)
  BY ParseEdited DEF Edited
<1>4. VerifyOK(img, Len(f)) /\ Apart(AllSpans(img)) /\ Regular(img) /\ SegmentsClear(img)
  BY DEF Coherent
<1> HIDE DEF img
<1>5. f[1].phoff \in Nat /\ f[1].shoff \in Nat
  BY <1>1 DEF EhdrCell
<1>6. /\ Len(Phdrs(f)) = f[1].phnum /\ f[1].phnum \in Nat
      /\ Len(Shdrs(f)) = f[1].shnum /\ f[1].shnum \in Nat
  BY <1>1, TableLists
<1>7. f[1].phoff + f[1].phnum <= Len(f) /\ f[1].phnum >= 1
  <2>1. PhtCovered(img) /\ FileBounds(img, Len(f))
    BY <1>4 DEF VerifyOK
  <2>2. Loads(Phdrs(f)) # {}
    BY <1>2, <2>1 DEF PhtCovered
  <2>3. DOMAIN Phdrs(f) # {} /\ DOMAIN Phdrs(f) = 1 .. f[1].phnum
    BY <1>1, <2>2, TableLists DEF Loads
  <2> QED
    BY <1>2, <1>6, <2>1, <2>3 DEF FileBounds
<1>8. \A p \in Range(Phdrs(f)) : p \in PhdrCell /\ End(p) <= Len(f)
  BY <1>1, <1>2, <1>4 DEF VerifyOK, FileBounds, Range
<1>9. \A i \in DOMAIN Shdrs(f) :
        /\ Shdrs(f)[i] \in ShdrCell
        /\ Shdrs(f)[i].type # "NOBITS" => Shdrs(f)[i].offset + Shdrs(f)[i].size <= Len(f)
  BY <1>1, <1>2, <1>4 DEF VerifyOK, FileBounds
<1>10. SizesSynced(img)
  <2> SUFFICES ASSUME NEW i \in DOMAIN Shdrs(f), Shdrs(f)[i].type # "NOBITS"
               PROVE  Len(ReadData(f)[i]) = Shdrs(f)[i].size
    BY <1>2 DEF SizesSynced
  <2>1. Shdrs(f)[i].offset \in Nat /\ Shdrs(f)[i].size \in Nat
    BY <1>9 DEF ShdrCell
  <2>2. ReadData(f)[i] = Slice(f, Shdrs(f)[i].offset, Shdrs(f)[i].size)
    BY DEF ReadData
  <2>3. \A off, len \in Nat : Len(Slice(f, off, len)) = len
    BY SliceList
  <2> QED
    BY <2>1, <2>2, <2>3
<1>11. Tidy(img)
  BY <1>3, <1>4, <1>10, ApartTidy
<1> QED
  BY <1>1, <1>4, <1>5, <1>6, <1>7, <1>8, <1>9, <1>11 DEF img

(* What editing keeps of the file it was parsed from.                      *)
LEMMA EditedTypes ==
  ASSUME NEW f, Coherent(f), NEW img, Edited(img, f)
  PROVE  /\ DynIdx(img) = DynIdx(Parse(f)) /\ Regular(img)
         /\ DOMAIN Shdrs(f) \subseteq DOMAIN img.shdrs
<1> DEFINE old == Parse(f)
<1>1. IsImage(img) /\ IsImage(old) /\ old.shdrs = Shdrs(f) /\ old.ehdr = f[1]
      /\ Len(Shdrs(f)) <= Len(img.shdrs) /\ Regular(old)
  BY ParseEdited, OldParts DEF Edited, Parse
<1> HIDE DEF old
<1>2. /\ DOMAIN old.shdrs = 1 .. Len(old.shdrs) /\ DOMAIN img.shdrs = 1 .. Len(img.shdrs)
      /\ Len(old.shdrs) \in Nat /\ Len(img.shdrs) \in Nat
  BY <1>1, ImageDomains
<1>3. DOMAIN old.shdrs \subseteq DOMAIN img.shdrs
  BY <1>1, <1>2
<1>4. /\ \A i \in DOMAIN old.shdrs : img.shdrs[i].type = old.shdrs[i].type
      /\ \A i \in DOMAIN img.shdrs \ DOMAIN old.shdrs : img.shdrs[i].type \notin {"NOBITS", "DYNAMIC"}
  BY <1>1, <1>3 DEF Edited, SectionOf
<1>5. DynIdx(img) = DynIdx(old)
  <2>1. \A i \in DOMAIN img.shdrs \ DOMAIN old.shdrs : img.shdrs[i].type # "DYNAMIC"
    BY <1>4
  <2> QED
    BY <1>1, <1>4, <2>1, DynIdxSame
<1>6. Regular(img)
  <2>1. img.ehdr.shstrndx = old.ehdr.shstrndx
    BY <1>1 DEF Edited
  <2>2. \A i \in DOMAIN img.shdrs : img.shdrs[i].type = "DYNAMIC" => i = DynIdx(img)
    BY <1>1, <1>4, <1>5 DEF Regular
  <2> QED
    BY <1>1, <1>4, <2>1, <2>2 DEF Regular
<1> QED
  BY <1>1, <1>3, <1>5, <1>6 DEF old

(* A dynamic segment without sections.                                     *)
LEMMA EditedSegments ==
  ASSUME NEW f, Coherent(f), NEW img, Edited(img, f), DynIdx(img) = 0
  PROVE  /\ \A p \in Dynamics(img.phdrs) :
              /\ Shdrs(f) = <<>> /\ img.shdrs = <<>> /\ Dynamics(Phdrs(f)) = {p}
              /\ p.offset >= EhdrSize
              /\ End(p) <= f[1].phoff \/ f[1].phoff + f[1].phnum <= p.offset
              /\ PriorRegion(Parse(f)) # 0 => End(p) <= f[1].phoff
         /\ img.shdrs # <<>> => Addressed(ReadDynamic(f)) = {}
<1> DEFINE old == Parse(f)
<1>1. /\ old.shdrs = Shdrs(f) /\ old.phdrs = Phdrs(f) /\ old.ehdr = f[1]
      /\ SegmentsClear(old) /\ DynIdx(old) = 0 /\ Len(Phdrs(f)) = f[1].phnum
  BY EditedTypes, OldParts DEF Parse
<1>2. Shdrs(f) = <<>> => img.shdrs = <<>>
  BY DEF Edited
<1>3. Dynamics(img.phdrs) \subseteq Dynamics(Phdrs(f))
  BY DEF Edited, Mapped, Dynamics
<1>4. ASSUME NEW p \in Dynamics(Phdrs(f))
      PROVE  /\ Shdrs(f) = <<>> /\ img.shdrs = <<>> /\ Dynamics(Phdrs(f)) = {p}
             /\ p.offset >= EhdrSize
             /\ End(p) <= f[1].phoff \/ f[1].phoff + f[1].phnum <= p.offset
             /\ PriorRegion(old) # 0 => End(p) <= f[1].phoff
  <2> HIDE DEF old
  <2> QED
    BY <1>1, <1>2 DEF SegmentsClear
<1>5. ASSUME img.shdrs # <<>> PROVE Addressed(ReadDynamic(f)) = {}
  <2> DEFINE s == SelectInSeq(Shdrs(f), LAMBDA x : x.type = "DYNAMIC")
             p == SelectInSeq(Phdrs(f), LAMBDA x : x.type = "DYNAMIC")
  <2>1. s = 0 /\ p = 0 => ReadDynamic(f) = <<>>
    BY DEF ReadDynamic
  <2>2. s = DynIdx(old)
    BY DEF DynIdx, Parse
  <2>3. p = 0 \/ (p \in DOMAIN Phdrs(f) /\ Phdrs(f)[p].type = "DYNAMIC")
    <3>1. IsList(Phdrs(f))
      BY OldParts, TableLists
    <3> QED
      BY <3>1, FirstOfType
  <2> HIDE DEF s, p, old
  <2>4. p = 0
    <3> SUFFICES ASSUME p # 0 PROVE FALSE
      OBVIOUS
    <3>1. Phdrs(f)[p] \in Dynamics(Phdrs(f))
      BY <2>3 DEF Dynamics, Range
    <3> QED
      BY <1>4, <1>5, <3>1
  <2>5. \A x : x = <<>> => DOMAIN x = {}
    OBVIOUS
  <2> QED
    BY <1>1, <2>1, <2>2, <2>4, <2>5 DEF Addressed, Range
<1> QED
  BY <1>3, <1>4, <1>5 DEF old

(* The region of an earlier run: the LOAD segment at the program header    *)
(* table.                                                                  *)
LEMMA RegionFound ==
  ASSUME NEW img, IsImage(img)
  PROVE  /\ PriorRegion(img) = 0 \/ PriorRegion(img) \in DOMAIN img.phdrs
         /\ PriorRegion(img) # 0 => /\ IsLoad(img.phdrs[PriorRegion(img)])
                                    /\ img.phdrs[PriorRegion(img)].offset = img.ehdr.phoff
         /\ (\E p \in Range(img.phdrs) : IsLoad(p) /\ p.offset = img.ehdr.phoff)
              => PriorRegion(img) # 0
<1> DEFINE S == {j \in 1 .. Len(img.phdrs) :
                   IsLoad(img.phdrs[j]) /\ img.phdrs[j].offset = img.ehdr.phoff}
<1>1. PriorRegion(img) = IF S # {} THEN Min(S) ELSE 0
  BY DEF PriorRegion, SelectInSeq
<1>2. /\ S \subseteq 1 .. Len(img.phdrs) /\ Len(img.phdrs) \in Nat
      /\ DOMAIN img.phdrs = 1 .. Len(img.phdrs)
      /\ \A j \in DOMAIN img.phdrs :
           j \in S <=> IsLoad(img.phdrs[j]) /\ img.phdrs[j].offset = img.ehdr.phoff
  BY ImageDomains
<1> HIDE DEF S
<1>3. S # {} => Min(S) \in S /\ Min(S) \in 1 .. Len(img.phdrs)
  BY <1>2, LeastIndex
<1>4. S # {} => PriorRegion(img) \in S /\ PriorRegion(img) \in DOMAIN img.phdrs /\ PriorRegion(img) # 0
  BY <1>1, <1>2, <1>3
<1>5. S = {} => PriorRegion(img) = 0
  BY <1>1
<1>6. (\E p \in Range(img.phdrs) : IsLoad(p) /\ p.offset = img.ehdr.phoff) => S # {}
  BY <1>2 DEF Range
<1> QED
  BY <1>2, <1>4, <1>5, <1>6

-----------------------------------------------------------------------------
(* An image r laid out from the edited image img: the same sections, and   *)
(* where there are none, the dynamic segment of img moved by shift.        *)
Follows(r, img, f, shift) ==
  /\ IsImage(r) /\ Len(r.shdrs) = Len(img.shdrs) /\ r.ehdr.shstrndx = img.ehdr.shstrndx
  /\ \A i \in DOMAIN img.shdrs : r.shdrs[i].type = img.shdrs[i].type
  /\ DynIdx(r) # 0 =>
       LET n == Max({Len(r.dynamic), r.shdrs[DynIdx(r)].size})
       IN r.data[DynIdx(r)] = Encoded(r.dynamic, n) /\ Len(r.data[DynIdx(r)]) = n
  /\ Dynamics(r.phdrs) # {} => Dynamics(img.phdrs) # {}
  /\ img.shdrs = <<>> =>
       /\ Addressed(img.dynamic) \subseteq Range(r.dynamic)
       /\ \A p \in Dynamics(r.phdrs) : \E q \in Dynamics(img.phdrs) :
            /\ p = [q EXCEPT !.offset = q.offset + shift]
            /\ End(p) <= r.ehdr.phoff \/ r.ehdr.phoff + Len(r.phdrs) <= p.offset
            /\ PriorRegion(r) # 0 => End(p) <= r.ehdr.phoff

(* A layout that follows the edited image and has no two parts meet is     *)
(* laid out.                                                               *)
LEMMA LaidFrom ==
  ASSUME NEW f, Coherent(f), NEW img, Edited(img, f), NEW shift \in Nat, NEW r,
         Follows(r, img, f, shift), SizesSynced(r), Tidy(r)
  PROVE  Laid(r, f, shift)
<1>1. IsImage(img) /\ IsImage(r) /\ Len(r.shdrs) = Len(img.shdrs)
      /\ r.ehdr.shstrndx = img.ehdr.shstrndx
  BY DEF Edited, Follows
<1>2. /\ DOMAIN img.shdrs = 1 .. Len(img.shdrs) /\ DOMAIN r.shdrs = DOMAIN img.shdrs
      /\ Len(img.shdrs) \in Nat /\ IsList(img.shdrs) /\ IsList(r.shdrs)
      /\ \A i \in DOMAIN img.shdrs : r.shdrs[i].type = img.shdrs[i].type
      /\ \A i \in DOMAIN r.shdrs : r.shdrs[i] \in ShdrCell
      /\ Len(r.dynamic) \in Nat
  BY <1>1, ImageDomains, SeqList DEF Follows, IsImage
<1>3. DynIdx(r) = DynIdx(img) /\ Regular(img)
  <2>1. DynIdx(r) = DynIdx(img)
    <3>1. Len(img.shdrs) <= Len(r.shdrs) /\ DOMAIN r.shdrs \ DOMAIN img.shdrs = {}
      BY <1>1, <1>2
    <3> QED
      BY <1>1, <1>2, <3>1, DynIdxSame
  <2> QED
    BY <2>1, EditedTypes
<1>4. Regular(r)
  BY <1>1, <1>2, <1>3 DEF Regular
<1>5. Apart(AllSpans(r))
  BY <1>1, TidyApart
<1>6. DynIdx(r) # 0 =>
        /\ Len(r.dynamic) <= r.shdrs[DynIdx(r)].size
        /\ r.data[DynIdx(r)] = Encoded(r.dynamic, r.shdrs[DynIdx(r)].size)
  <2> SUFFICES ASSUME DynIdx(r) # 0
               PROVE  /\ Len(r.dynamic) <= r.shdrs[DynIdx(r)].size
                      /\ r.data[DynIdx(r)] = Encoded(r.dynamic, r.shdrs[DynIdx(r)].size)
    OBVIOUS
  <2> DEFINE s == DynIdx(r)
             n == Max({Len(r.dynamic), r.shdrs[s].size})
  <2>1. s \in DOMAIN r.shdrs /\ r.shdrs[s].type = "DYNAMIC"
    BY <1>1, DynIdxFirst
  <2>2. r.data[s] = Encoded(r.dynamic, n) /\ Len(r.data[s]) = n
    BY DEF Follows
  <2>3. Len(r.data[s]) = r.shdrs[s].size /\ r.shdrs[s].size \in Nat
    BY <1>2, <2>1 DEF SizesSynced, ShdrCell
  <2>4. n >= Len(r.dynamic)
    <3> HIDE DEF s
    <3> QED
      BY <1>2, <2>3, LongerOf
  <2> HIDE DEF s, n
  <2>5. Len(r.dynamic) <= r.shdrs[s].size /\ r.data[s] = Encoded(r.dynamic, r.shdrs[s].size)
    BY <1>2, <2>2, <2>3, <2>4
  <2> QED
    BY <2>5 DEF s
<1>7. ASSUME DynIdx(r) = 0, NEW p \in Dynamics(r.phdrs)
      PROVE  /\ r.shdrs = <<>> /\ img.shdrs = <<>> /\ Shdrs(f) = <<>>
             /\ Dynamics(r.phdrs) = {p} /\ p.offset >= EhdrSize
             /\ End(p) <= r.ehdr.phoff \/ r.ehdr.phoff + Len(r.phdrs) <= p.offset
             /\ PriorRegion(r) # 0 => End(p) <= r.ehdr.phoff
             /\ \E q \in Dynamics(Phdrs(f)) : p.offset = q.offset + shift /\ p.filesz = q.filesz
  <2>1. DynIdx(img) = 0 /\ Dynamics(img.phdrs) # {}
    BY <1>3, <1>7 DEF Follows
  <2>2. PICK q0 : q0 \in Dynamics(img.phdrs)
    BY <2>1
  <2>3. Shdrs(f) = <<>> /\ img.shdrs = <<>> /\ Dynamics(Phdrs(f)) = {q0}
        /\ q0.offset >= EhdrSize
    BY <2>1, <2>2, EditedSegments
  <2>4. \A q \in Dynamics(img.phdrs) : q = q0
    BY <2>1, <2>2, <2>3, EditedSegments
  <2>5. r.shdrs = <<>>
    <3>1. Len(r.shdrs) = 0
      BY <1>1, <1>2, <2>3, NotEmpty
    <3> QED
      BY <1>2, <3>1, NotEmpty
  <2>6. \A x \in Dynamics(r.phdrs) :
          /\ x = [q0 EXCEPT !.offset = q0.offset + shift]
          /\ End(x) <= r.ehdr.phoff \/ r.ehdr.phoff + Len(r.phdrs) <= x.offset
          /\ PriorRegion(r) # 0 => End(x) <= r.ehdr.phoff
    BY <2>3, <2>4 DEF Follows
  <2>7. Dynamics(r.phdrs) = {p}
    BY <1>7, <2>6
  <2>8. q0 \in PhdrCell
    <3>1. q0 \in Dynamics(Phdrs(f))
      BY <2>3
    <3> QED
      BY <3>1, OldParts DEF Dynamics
  <2>9. p.offset = q0.offset + shift /\ p.filesz = q0.filesz /\ q0.offset \in Nat
    BY <1>7, <2>6, <2>8 DEF PhdrCell
  <2>10. p.offset >= EhdrSize
    BY <2>3, <2>9 DEF EhdrSize
  <2> QED
    BY <1>7, <2>3, <2>5, <2>6, <2>7, <2>9, <2>10
<1>8. SegmentsClear(r)
  BY <1>7 DEF SegmentsClear
<1>9. DynIdx(r) = 0 => Anchors(r, f, shift)
  <2> SUFFICES ASSUME DynIdx(r) = 0 PROVE Anchors(r, f, shift)
    OBVIOUS
  <2>1. Addressed(ReadDynamic(f)) \subseteq Range(r.dynamic)
    <3>1. CASE img.shdrs # <<>>
      BY <1>3, <3>1, EditedSegments
    <3>2. CASE img.shdrs = <<>>
      <4>1. Addressed(ReadDynamic(f)) \subseteq Addressed(img.dynamic)
        BY DEF Edited, Addressed
      <4>2. Addressed(img.dynamic) \subseteq Range(r.dynamic)
        BY <3>2 DEF Follows
      <4> QED
        BY <4>1, <4>2
    <3> QED
      BY <3>1, <3>2
  <2> QED
    BY <1>7, <2>1 DEF Anchors
<1>10. Sectioned(f) => r.shdrs # <<>>
  <2>1. Len(Shdrs(f)) = f[1].shnum /\ f[1].shnum \in Nat
    BY OldParts
  <2>2. Len(Shdrs(f)) <= Len(r.shdrs)
    BY <1>1 DEF Edited
  <2>3. f[1].shnum # 0 => Len(r.shdrs) # 0
    BY <1>1, <1>2, <2>1, <2>2
  <2> QED
    BY <1>2, <2>3, NotEmpty DEF Sectioned
<1> QED
  BY <1>1, <1>4, <1>5, <1>6, <1>8, <1>9, <1>10 DEF Laid

-----------------------------------------------------------------------------
(* Where an edited section is, and how long its cells are.                 *)
LEMMA EditedSection ==
  ASSUME NEW f, Coherent(f), NEW img, Edited(img, f), NEW i \in DOMAIN img.shdrs,
         img.shdrs[i].type # "NOBITS"
  PROVE  /\ SectionLen(img, i) \in Nat /\ img.shdrs[i].size \in Nat /\ img.shdrs[i].offset \in Nat
         /\ i # DynIdx(img) => SectionLen(img, i) = Len(img.data[i])
         /\ i = DynIdx(img) => SectionLen(img, i) = Max({Len(img.dynamic), img.shdrs[i].size})
         /\ img.data[i] = <<>> => SectionLen(img, i) = 0 /\ img.shdrs[i].size = 0
         /\ (i \notin Grown(img) /\ SectionLen(img, i) > 0) =>
              /\ i \in Solid(Parse(f)) /\ i \in DOMAIN Shdrs(f)
              /\ img.shdrs[i].offset = Shdrs(f)[i].offset
              /\ img.shdrs[i].size = Shdrs(f)[i].size
              /\ SectionLen(img, i) = img.shdrs[i].size
<1>1. IsImage(img) /\ SectionOf(img, f, i) /\ IsList(img.data[i])
  BY DEF Edited, IsImage, CellList
<1>2. /\ img.shdrs[i] \in ShdrCell /\ Len(img.dynamic) \in Nat /\ Len(img.data[i]) \in Nat
      /\ IsList(img.dynamic)
  BY <1>1, ImageDomains, SeqList DEF IsList, IsImage
<1>3. img.shdrs[i].size \in Nat /\ img.shdrs[i].offset \in Nat
  BY <1>2 DEF ShdrCell
<1>4. /\ i # DynIdx(img) => SectionLen(img, i) = Len(img.data[i])
      /\ i = DynIdx(img) => SectionLen(img, i) = Max({Len(img.dynamic), img.shdrs[i].size})
  BY DEF SectionLen
<1>5. Max({Len(img.dynamic), img.shdrs[i].size}) \in Nat
  BY <1>2, <1>3, LongerOf
<1>6. ASSUME img.data[i] = <<>> PROVE SectionLen(img, i) = 0 /\ img.shdrs[i].size = 0
  <2>1. img.shdrs[i].size = 0
    BY <1>1, <1>6 DEF SectionOf
  <2>2. CASE i # DynIdx(img)
    BY <1>1, <1>2, <1>4, <1>6, <2>1, <2>2, NotEmpty
  <2>3. CASE i = DynIdx(img)
    <3>1. i # 0
      BY <1>1, ImageDomains
    <3>2. img.dynamic = <<>>
      BY <1>6, <2>3, <3>1 DEF Edited
    <3>3. Len(img.dynamic) = 0
      BY <1>2, <3>2, NotEmpty
    <3>4. Max({0, 0}) = 0
      BY LongerOf
    <3> QED
      BY <1>4, <2>1, <2>3, <3>3, <3>4
  <2> QED
    BY <2>2, <2>3
<1>7. ASSUME i \notin Grown(img), SectionLen(img, i) > 0
      PROVE  /\ i \in Solid(Parse(f)) /\ i \in DOMAIN Shdrs(f)
             /\ img.shdrs[i].offset = Shdrs(f)[i].offset
             /\ img.shdrs[i].size = Shdrs(f)[i].size
             /\ SectionLen(img, i) = img.shdrs[i].size
  <2>1. SectionLen(img, i) = img.shdrs[i].size
    BY <1>7 DEF Grown
  <2>2. i \in DOMAIN Shdrs(f)
    BY <1>1, <1>3, <1>7, <2>1 DEF SectionOf
  <2>3. /\ img.shdrs[i].type = Shdrs(f)[i].type /\ img.shdrs[i].offset = Shdrs(f)[i].offset
        /\ img.shdrs[i].size \in {0, Shdrs(f)[i].size}
    BY <1>1, <2>2 DEF SectionOf
  <2>4. i \in Solid(Parse(f))
    BY <2>2, <2>3 DEF Solid, Parse
  <2> QED
    BY <1>3, <1>7, <2>1, <2>2, <2>3, <2>4
<1> QED
  BY <1>2, <1>3, <1>4, <1>5, <1>6, <1>7

(* What the layout engine may answer.                                      *)
Outcome(r, f) ==
  /\ r.err \in {"none", "verify", "unsupported", "missing", "cli", "no_room"}
  /\ r.err = "none" =>
       Coherent(r.file) /\ Kept(f, r.file) /\ (Sectioned(f) => Sectioned(r.file))

(* What the end of a layout answers for a laid-out image: a coherent file, *)
(* or verify's refusal.                                                    *)
LEMMA Finished ==
  ASSUME NEW f, Coherent(f), NEW img, NEW shift \in Nat, NEW total \in Nat, Laid(img, f, shift),
         Skirts(img, f, shift, total)
  PROVE  Outcome(Finish(img, f, shift, total), f) /\ Finish(img, f, shift, total).err # "no_room"
<1>1. CASE VerifyOK(img, total)
  <2> DEFINE g == WriteShifted(img, f, shift, total).file
  <2>1. /\ WriteShifted(img, f, shift, total).err = "none"
        /\ Coherent(g) /\ Alike(img, Parse(g))
        /\ Kept(f, g)
    BY <1>1, Written, Spared
  <2> HIDE DEF g
  <2>2. Sectioned(f) => Sectioned(g)
    <3>1. Len(Shdrs(g)) = g[1].shnum
      BY <2>1, OldParts
    <3>2. Shdrs(g) = img.shdrs
      BY <2>1 DEF Alike, Parse
    <3>3. IsList(img.shdrs)
      BY SeqList DEF Laid, IsImage
    <3>4. Sectioned(f) => Len(img.shdrs) # 0
      BY <3>3, NotEmpty DEF Laid
    <3> QED
      BY <3>1, <3>2, <3>4 DEF Sectioned
  <2>3. Coherent(g) /\ Kept(f, g) /\ (Sectioned(f) => Sectioned(g))
    BY <2>1, <2>2
  <2> QED
    BY <1>1, <2>1, <2>3 DEF Finish, Outcome, g
<1>2. CASE ~VerifyOK(img, total)
  BY <1>2 DEF Finish, Outcome, Failure
<1> QED
  BY <1>1, <1>2

-----------------------------------------------------------------------------
(* An edit that fits.                                                      *)
LEMMA EditedInPlace ==
  ASSUME NEW f, Coherent(f), NEW img, Edited(img, f), Fits(img, f)
  PROVE  Outcome(InPlace(img, f), f) /\ InPlace(img, f).err # "no_room"
<1> DEFINE a == FixupRldMapRel(img)
           r == SyncDynamic(a)
           old == Parse(f)
<1>1. IsImage(img) /\ Rewritten(img, a)
      /\ \A i \in DOMAIN img.dynamic : img.dynamic[i].tag \in AddrTags => a.dynamic[i] = img.dynamic[i]
  BY RldMapRewritten DEF Edited
<1>2. InPlace(img, f) = Finish(r, f, 0, Len(f))
  BY DEF InPlace
<1> HIDE DEF a
<1>3. Synced(a, r)
  BY <1>1, DynamicSynced DEF Rewritten
<1> HIDE DEF r
<1>4. /\ IsImage(r) /\ r.ehdr = img.ehdr /\ r.phdrs = img.phdrs /\ r.shdrs = img.shdrs
      /\ r.dynamic = a.dynamic /\ Len(a.dynamic) = Len(img.dynamic)
      /\ DynIdx(a) = DynIdx(img) /\ DynIdx(r) = DynIdx(img)
      /\ \A i \in DOMAIN img.shdrs : i # DynIdx(img) => r.data[i] = img.data[i]
      /\ DynIdx(img) # 0 =>
           LET n == Max({Len(r.dynamic), img.shdrs[DynIdx(img)].size})
           IN r.data[DynIdx(img)] = Encoded(r.dynamic, n) /\ Len(r.data[DynIdx(img)]) = n
  <2>1. DynIdx(a) = DynIdx(img) /\ DynIdx(r) = DynIdx(img)
    BY <1>1, <1>3 DEF Rewritten, Synced, DynIdx
  <2> QED
    BY <1>1, <1>3, <2>1 DEF Rewritten, Synced
<1>5. /\ DOMAIN img.shdrs = 1 .. Len(img.shdrs) /\ Len(img.shdrs) \in Nat
      /\ Len(img.phdrs) \in Nat /\ \A i \in DOMAIN img.shdrs : img.shdrs[i] \in ShdrCell
      /\ \A i \in DOMAIN img.shdrs : IsList(img.data[i]) /\ SectionOf(img, f, i)
      /\ DOMAIN img.data = DOMAIN img.shdrs
      /\ IsList(img.shdrs)
  BY <1>1, ImageDomains, SeqList DEF Edited, IsImage, CellList
<1>6. Grown(img) = {} /\ Len(img.phdrs) <= f[1].phnum
  BY DEF Fits
<1>7. \A i \in DOMAIN img.shdrs : img.shdrs[i].type # "NOBITS" => SectionLen(img, i) = img.shdrs[i].size
  BY <1>6 DEF Grown
<1>8. SizesSynced(r)
  <2> SUFFICES ASSUME NEW i \in DOMAIN img.shdrs, img.shdrs[i].type # "NOBITS"
               PROVE  Len(r.data[i]) = img.shdrs[i].size
    BY <1>4 DEF SizesSynced
  <2>1. CASE i # DynIdx(img)
    BY <1>4, <1>7, <2>1 DEF SectionLen
  <2>2. CASE i = DynIdx(img)
    <3>1. i # 0
      BY <1>5
    <3> QED
      BY <1>4, <1>7, <2>2, <3>1 DEF SectionLen
  <2> QED
    BY <2>1, <2>2
<1>9. ASSUME NEW i \in DOMAIN img.shdrs
      PROVE  /\ i \in DOMAIN Shdrs(f)
             /\ img.shdrs[i].type = Shdrs(f)[i].type
             /\ img.shdrs[i].offset = Shdrs(f)[i].offset
             /\ img.shdrs[i].size \in {0, Shdrs(f)[i].size}
  <2>1. i \in DOMAIN Shdrs(f)
    <3> SUFFICES ASSUME i \notin DOMAIN Shdrs(f) PROVE FALSE
      OBVIOUS
    <3>1. /\ img.shdrs[i].type # "NOBITS" /\ img.shdrs[i].type # "DYNAMIC"
          /\ img.shdrs[i].size = 0 /\ img.data[i] # <<>>
      BY <1>5 DEF SectionOf
    <3>2. i # DynIdx(img)
      BY <1>1, <1>5, <3>1, DynIdxFirst
    <3>3. SectionLen(img, i) = Len(img.data[i])
      BY <3>2 DEF SectionLen
    <3>4. Len(img.data[i]) > 0
      BY <1>5, <3>1, NotEmpty
    <3> QED
      BY <1>7, <3>1, <3>3, <3>4
  <2> QED
    BY <1>5, <2>1 DEF SectionOf
<1>10. /\ Len(Shdrs(f)) = Len(img.shdrs) /\ DOMAIN Shdrs(f) = DOMAIN img.shdrs
  <2>1. DOMAIN Shdrs(f) = 1 .. f[1].shnum /\ f[1].shnum \in Nat /\ Len(Shdrs(f)) = f[1].shnum
    BY OldParts, TableLists
  <2>2. Len(Shdrs(f)) <= Len(img.shdrs)
    BY DEF Edited
  <2>3. Len(img.shdrs) # 0 => Len(img.shdrs) \in DOMAIN img.shdrs
    BY <1>5
  <2>4. Len(img.shdrs) # 0 => Len(img.shdrs) \in DOMAIN Shdrs(f)
    BY <1>9, <2>3
  <2> QED
    BY <1>5, <2>1, <2>2, <2>4
<1>11. /\ old.ehdr = f[1] /\ old.phdrs = Phdrs(f) /\ old.shdrs = Shdrs(f)
       /\ Len(Phdrs(f)) = f[1].phnum /\ f[1].phnum \in Nat
       /\ f[1].phoff \in Nat /\ f[1].shoff \in Nat
       /\ img.ehdr.phoff = f[1].phoff /\ img.ehdr.shoff = f[1].shoff
       /\ Tidy(old) /\ IsImage(old)
  BY OldParts, ParseEdited DEF Parse, Edited
<1> HIDE DEF old
<1>12. \A i \in Solid(img) :
         /\ i \in Solid(old) /\ img.shdrs[i].offset = old.shdrs[i].offset
         /\ img.shdrs[i].size \in {0, old.shdrs[i].size}
  BY <1>9, <1>11 DEF Solid
<1>13. Tidy(r)
  <2>1. \A a0, m, b, n, m1, n1 : (Clear(a0, m, b, n) /\ m1 \in {0, m} /\ n1 \in {0, n}) => Clear(a0, m1, b, n1)
    BY DEF Clear
  <2>2. \A a0, b, n \in Nat : \A n1 : (Clear(a0, f[1].phnum, b, n) /\ n1 \in {0, n})
                        => Clear(a0, Len(img.phdrs), b, n1)
    BY <1>5, <1>6, <1>11 DEF Clear
  <2>3. \A a0, m, b \in Nat : Clear(a0, m, b, f[1].phnum) => Clear(a0, m, b, Len(img.phdrs))
    BY <1>5, <1>6, <1>11 DEF Clear
  <2>4. \A i \in Solid(old) : old.shdrs[i].offset \in Nat /\ old.shdrs[i].size \in Nat
    <3>1. \A i \in DOMAIN old.shdrs : old.shdrs[i] \in ShdrCell
      BY <1>11, ImageDomains
    <3> QED
      BY <3>1 DEF Solid, ShdrCell
  <2>5. /\ Clear(0, 1, f[1].phoff, f[1].phnum) /\ Clear(0, 1, f[1].shoff, Len(img.shdrs))
        /\ Clear(f[1].phoff, f[1].phnum, f[1].shoff, Len(img.shdrs))
        /\ \A i \in Solid(old) :
             LET s == old.shdrs[i]
             IN /\ Clear(0, 1, s.offset, s.size)
                /\ Clear(f[1].phoff, f[1].phnum, s.offset, s.size)
                /\ Clear(f[1].shoff, Len(img.shdrs), s.offset, s.size)
        /\ \A i, j \in Solid(old) :
             i # j => Clear(old.shdrs[i].offset, old.shdrs[i].size,
                            old.shdrs[j].offset, old.shdrs[j].size)
    BY <1>10, <1>11 DEF Tidy
  <2>6. /\ Clear(0, 1, f[1].phoff, Len(img.phdrs))
        /\ Clear(f[1].phoff, Len(img.phdrs), f[1].shoff, Len(img.shdrs))
    BY <1>5, <1>11, <2>2, <2>3, <2>5
  <2>7. ASSUME NEW i \in Solid(img)
        PROVE  /\ Clear(0, 1, img.shdrs[i].offset, img.shdrs[i].size)
               /\ Clear(f[1].phoff, Len(img.phdrs), img.shdrs[i].offset, img.shdrs[i].size)
               /\ Clear(f[1].shoff, Len(img.shdrs), img.shdrs[i].offset, img.shdrs[i].size)
    <3>1. /\ Clear(0, 1, old.shdrs[i].offset, old.shdrs[i].size)
          /\ Clear(f[1].phoff, f[1].phnum, old.shdrs[i].offset, old.shdrs[i].size)
          /\ Clear(f[1].shoff, Len(img.shdrs), old.shdrs[i].offset, old.shdrs[i].size)
          /\ img.shdrs[i].offset = old.shdrs[i].offset
          /\ img.shdrs[i].size \in {0, old.shdrs[i].size}
          /\ old.shdrs[i].offset \in Nat /\ old.shdrs[i].size \in Nat
      BY <1>12, <2>4, <2>5
    <3> QED
      BY <1>11, <2>1, <2>2, <3>1
  <2>8. \A i, j \in Solid(img) :
          i # j => Clear(img.shdrs[i].offset, img.shdrs[i].size,
                         img.shdrs[j].offset, img.shdrs[j].size)
    BY <1>12, <2>1, <2>5
  <2>9. Solid(r) = Solid(img)
    BY <1>4 DEF Solid
  <2> QED
    BY <1>4, <1>11, <2>5, <2>6, <2>7, <2>8, <2>9 DEF Tidy
<1>14. PriorRegion(r) # 0 => PriorRegion(old) # 0
  <2> SUFFICES ASSUME PriorRegion(r) # 0 PROVE PriorRegion(old) # 0
    OBVIOUS
  <2> DEFINE q == img.phdrs[PriorRegion(r)]
  <2>1. q \in Range(img.phdrs) /\ IsLoad(q) /\ q.offset = f[1].phoff
    BY <1>4, <1>11, RegionFound DEF Range
  <2>2. q \in Range(Phdrs(f))
    BY <2>1 DEF Edited, Mapped, IsLoad
  <2> QED
    BY <1>11, <2>1, <2>2, RegionFound
<1>15. Follows(r, img, f, 0)
  <2>1. ASSUME img.shdrs = <<>>
        PROVE  Addressed(img.dynamic) \subseteq Range(r.dynamic)
    <3> SUFFICES ASSUME NEW x \in Addressed(img.dynamic) PROVE x \in Range(r.dynamic)
      OBVIOUS
    <3>1. PICK i \in DOMAIN img.dynamic : x = img.dynamic[i] /\ x.tag \in AddrTags
      BY DEF Addressed, Range
    <3>2. r.dynamic[i] = x /\ i \in DOMAIN r.dynamic
      BY <1>1, <1>4, <3>1 DEF Rewritten
    <3> QED
      BY <3>2 DEF Range
  <2>2. ASSUME img.shdrs = <<>>, NEW p \in Dynamics(img.phdrs)
        PROVE  /\ p = [p EXCEPT !.offset = p.offset + 0]
               /\ End(p) <= r.ehdr.phoff \/ r.ehdr.phoff + Len(r.phdrs) <= p.offset
               /\ PriorRegion(r) # 0 => End(p) <= r.ehdr.phoff
    <3>1. DynIdx(img) = 0
      BY <2>2, NoSections
    <3>2. p \in PhdrCell
      BY <1>1, <2>2, ImageDomains DEF Dynamics, Range
    <3>3. \A c \in PhdrCell : c.offset \in Nat /\ c = [c EXCEPT !.offset = c.offset + 0]
      BY DEF PhdrCell
    <3>4. /\ End(p) <= f[1].phoff \/ f[1].phoff + f[1].phnum <= p.offset
          /\ PriorRegion(old) # 0 => End(p) <= f[1].phoff
      BY <2>2, <3>1, EditedSegments DEF old
    <3> QED
      BY <1>4, <1>5, <1>6, <1>11, <1>14, <3>2, <3>3, <3>4
  <2> QED
    BY <1>4, <2>1, <2>2 DEF Follows
<1>16. Laid(r, f, 0)
  BY <1>8, <1>13, <1>15, LaidFrom
<1>17. Len(f) \in Nat /\ 0 \in Nat
  BY OldParts
<1>18. Skirts(r, f, 0, Len(f))
  <2> SUFFICES ASSUME NEW x \in Nat, NEW n \in Nat, Idle(f, x, n)
               PROVE  Aside(r, Len(f), x, n)
    BY DEF Skirts
  <2>1. Aside(old, Len(f), x, n)
    BY DEF Idle, old
  <2>2. Solid(r) = Solid(img)
    BY <1>4 DEF Solid
  <2>3. Clear(f[1].phoff, Len(img.phdrs), x, n)
    BY <1>5, <1>6, <1>11, <2>1 DEF Aside, Clear
  <2>4. Clear(f[1].shoff, Len(img.shdrs), x, n)
    BY <1>10, <1>11, <2>1 DEF Aside
  <2>5. ASSUME NEW i \in Solid(img)
        PROVE  Clear(img.shdrs[i].offset, img.shdrs[i].size, x, n)
    BY <1>12, <2>1 DEF Aside, Clear
  <2> QED
    BY <1>4, <1>11, <1>14, <2>1, <2>2, <2>3, <2>4, <2>5 DEF Aside
<1> QED
  BY <1>2, <1>16, <1>17, <1>18, Finished
================================================================================
