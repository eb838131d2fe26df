------------------------------- MODULE OpsProofs -------------------------------
(***************************************************************************)
(* Parsing a usable file gives an image that every operation, and every list*)
(* of operations, keeps fit to be laid out (Edited): its segments, dynamic *)
(* entries and sections are still those the file was parsed from, or new.  *)
(***************************************************************************)
EXTENDS RepatchProps, SeqFacts

(* Tuple only makes TLC store a list as one.                               *)
LEMMA TupleSame ==
  ASSUME NEW f, IsList(f)
  PROVE  Tuple(f) = f
<1>1. PICK S : f \in Seq(S)
  BY ListSeq
<1> QED
  BY <1>1 DEF Tuple

(* A list rewritten element by element.                                    *)
LEMMA ListMap ==
  ASSUME NEW s, IsList(s), NEW f, DOMAIN f = DOMAIN s, f = [i \in DOMAIN s |-> f[i]]
  PROVE  IsList(f) /\ Len(f) = Len(s) /\ Tuple(f) = f /\ DOMAIN f = 1 .. Len(s)
<1>1. DOMAIN s = 1 .. Len(s) /\ Len(s) \in Nat
  BY ListSeq DEF IsList
<1>2. DOMAIN f = 1 .. Len(s) /\ f = [i \in 1 .. Len(s) |-> f[i]]
  BY <1>1
<1>3. IsList(f) /\ Len(f) = Len(s)
  BY <1>1, <1>2, FunctionList
<1> QED
  BY <1>2, <1>3, TupleSame

(* round_up never goes down.                                               *)
LEMMA RoundUpBound ==
  ASSUME NEW v \in Nat, NEW align \in Nat
  PROVE  RoundUp(v, align) \in Nat /\ RoundUp(v, align) >= v
<1>1. CASE align <= 1
  BY <1>1 DEF RoundUp
<1>2. CASE align > 1
  <2> DEFINE x == v + align - 1
             q == x \div align
  <2>1. x \in Nat /\ align \in Nat /\ align > 0
    BY <1>2
  <2>2. q \in Nat /\ q * align \in Nat /\ x < q * align + align
    <3> HIDE DEF x
    <3>1. q \in Int /\ q >= 0
      BY <2>1
    <3>2. x = q * align + (x % align) /\ x % align < align
      BY <2>1
    <3>3. q * align \in Nat
      BY <2>1, <3>1
    <3> QED
      BY <2>1, <3>1, <3>2, <3>3
  <2>3. RoundUp(v, align) = q * align
    BY <1>2 DEF RoundUp
  <2> QED
    BY <2>1, <2>2, <2>3
<1> QED
  BY <1>1, <1>2


(* The cells that reading at an offset returns (parser.rs, the table       *)
(* readers).                                                               *)
LEMMA SliceList ==
  ASSUME NEW f, NEW off \in Nat, NEW len \in Nat
  PROVE  /\ IsList(Slice(f, off, len)) /\ Len(Slice(f, off, len)) = len
         /\ DOMAIN Slice(f, off, len) = 1 .. len
         /\ \A i \in 1 .. len : Slice(f, off, len)[i] = f[off + i]
<1> DEFINE m == off + 1
           n == off + len
           l == IF m <= n THEN n - m + 1 ELSE 0
<1>1. m \in Int /\ n \in Int /\ l = len /\ \A i \in 1 .. len : m + i - 1 = off + i
  OBVIOUS
<1> HIDE DEF m, n
<1>2. /\ IsList(SubSeq(f, m, n)) /\ Len(SubSeq(f, m, n)) = l
      /\ DOMAIN SubSeq(f, m, n) = 1 .. l
      /\ \A i \in 1 .. l : SubSeq(f, m, n)[i] = f[m + i - 1]
  BY <1>1, ListSub
<1>3. Slice(f, off, len) = SubSeq(f, m, n)
  BY DEF Slice, m, n
<1> HIDE DEF l
<1> QED
  BY <1>1, <1>2, <1>3

(* The header tables the file header points at.                            *)
LEMMA TableLists ==
  ASSUME NEW f, f[1] \in EhdrCell
  PROVE  /\ IsList(Phdrs(f)) /\ Len(Phdrs(f)) = f[1].phnum /\ f[1].phnum \in Nat
         /\ DOMAIN Phdrs(f) = 1 .. f[1].phnum
         /\ \A i \in 1 .. f[1].phnum : Phdrs(f)[i] = f[f[1].phoff + i]
         /\ IsList(Shdrs(f)) /\ Len(Shdrs(f)) = f[1].shnum /\ f[1].shnum \in Nat
         /\ DOMAIN Shdrs(f) = 1 .. f[1].shnum
         /\ \A i \in 1 .. f[1].shnum : Shdrs(f)[i] = f[f[1].shoff + i]
<1>1. f[1].phoff \in Nat /\ f[1].phnum \in Nat /\ f[1].shoff \in Nat /\ f[1].shnum \in Nat
  BY DEF EhdrCell
<1>2. \A off, len \in Nat : /\ IsList(Slice(f, off, len)) /\ Len(Slice(f, off, len)) = len
                            /\ DOMAIN Slice(f, off, len) = 1 .. len
                            /\ \A i \in 1 .. len : Slice(f, off, len)[i] = f[off + i]
  BY SliceList
<1> QED
  BY <1>1, <1>2 DEF Phdrs, Shdrs

-----------------------------------------------------------------------------
(* What a file, a section or a table consists of: a list of cells.         *)
CellList(cells) == IsList(cells) /\ \A k \in DOMAIN cells : Formed(cells[k])

(* The in-memory form of a file (ir.rs, Elf) by its fields.                *)
Image(ehdr, phdrs, shdrs, data, dynamic, err) ==
  [ehdr |-> ehdr, phdrs |-> phdrs, shdrs |-> shdrs, data |-> data, dynamic |-> dynamic,
   err |-> err]

(* An image with well-typed headers, and with one content for every        *)
(* section.                                                                *)
IsImage(img) ==
  /\ img = Image(img.ehdr, img.phdrs, img.shdrs, img.data, img.dynamic, img.err)
  /\ img.ehdr \in EhdrCell
  /\ img.phdrs \in Seq(PhdrCell) /\ img.shdrs \in Seq(ShdrCell) /\ img.dynamic \in Seq(DynCell)
  /\ IsList(img.data) /\ Len(img.data) = Len(img.shdrs)
  /\ \A i \in DOMAIN img.shdrs : CellList(img.data[i])

(* The i-th section of an edited image, against the file it was read from. *)
SectionOf(img, f, i) ==
  LET s == img.shdrs[i]
      was == Shdrs(f)
  IN /\ i \in DOMAIN was => /\ s.type = was[i].type /\ s.offset = was[i].offset
                            /\ s.size \in {0, was[i].size}
     /\ i \notin DOMAIN was => /\ s.type \notin {"NOBITS", "DYNAMIC"} /\ s.size = 0
                               /\ img.data[i] # <<>>
     /\ (s.type # "NOBITS" /\ img.data[i] = <<>>) => s.size = 0

(* The segments that keep the file usable whatever is edited beside them.  *)
Mapped(phdrs) == {p \in Range(phdrs) : p.type \in {"LOAD", "DYNAMIC"}}
(* The dynamic entries that hold the address of a section.                 *)
Addressed(dynamic) == {d \in Range(dynamic) : d.tag \in AddrTags}

(* What the operations do to an image read from f.                         *)
Edited(img, f) ==
  /\ IsImage(img)
  /\ f[1] \in EhdrCell
  /\ img.ehdr.phoff = f[1].phoff /\ img.ehdr.shoff = f[1].shoff
  /\ img.ehdr.shstrndx = f[1].shstrndx
  /\ Mapped(img.phdrs) \subseteq Range(Phdrs(f))
  /\ Len(Shdrs(f)) <= Len(img.shdrs)
  /\ Shdrs(f) = <<>> => img.shdrs = <<>>
  /\ \A i \in DOMAIN img.shdrs : SectionOf(img, f, i)
  /\ (DynIdx(img) # 0 /\ img.data[DynIdx(img)] = <<>>) => img.dynamic = <<>>
  /\ Addressed(ReadDynamic(f)) \subseteq Range(img.dynamic)
  /\ img.err \in {"none", "missing", "unsupported", "cli"}

(* The lengths and the elements of the lists an image is made of.          *)
LEMMA ImageDomains ==
  ASSUME NEW img, IsImage(img)
  PROVE  /\ Len(img.phdrs) \in Nat /\ DOMAIN img.phdrs = 1 .. Len(img.phdrs)
         /\ Len(img.shdrs) \in Nat /\ DOMAIN img.shdrs = 1 .. Len(img.shdrs)
         /\ Len(img.dynamic) \in Nat /\ DOMAIN img.dynamic = 1 .. Len(img.dynamic)
         /\ DOMAIN img.data = DOMAIN img.shdrs
         /\ \A i \in DOMAIN img.phdrs : img.phdrs[i] \in PhdrCell
         /\ \A i \in DOMAIN img.shdrs : img.shdrs[i] \in ShdrCell
         /\ \A i \in DOMAIN img.dynamic : img.dynamic[i] \in DynCell
<1>1. DOMAIN img.data = 1 .. Len(img.data)
  BY ListSeq DEF IsImage
<1> QED
  BY <1>1 DEF IsImage

(* An image with one field replaced.                                       *)
Fields(img, ehdr, phdrs, shdrs, data, dynamic, err) ==
  /\ img = Image(ehdr, phdrs, shdrs, data, dynamic, err)
  /\ img.ehdr = ehdr /\ img.phdrs = phdrs /\ img.shdrs = shdrs
  /\ img.data = data /\ img.dynamic = dynamic /\ img.err = err

(* Assigning one field of an image leaves the others alone.                *)
LEMMA ImageWith ==
  ASSUME NEW img, IsImage(img), NEW x
  PROVE  /\ Fields([img EXCEPT !.ehdr = x],
                   x, img.phdrs, img.shdrs, img.data, img.dynamic, img.err)
         /\ Fields([img EXCEPT !.phdrs = x],
                   img.ehdr, x, img.shdrs, img.data, img.dynamic, img.err)
         /\ Fields([img EXCEPT !.shdrs = x],
                   img.ehdr, img.phdrs, x, img.data, img.dynamic, img.err)
         /\ Fields([img EXCEPT !.data = x],
                   img.ehdr, img.phdrs, img.shdrs, x, img.dynamic, img.err)
         /\ Fields([img EXCEPT !.dynamic = x],
                   img.ehdr, img.phdrs, img.shdrs, img.data, x, img.err)
         /\ Fields([img EXCEPT !.err = x],
                   img.ehdr, img.phdrs, img.shdrs, img.data, img.dynamic, x)
<1>1. img = Image(img.ehdr, img.phdrs, img.shdrs, img.data, img.dynamic, img.err)
  BY DEF IsImage
<1>2. \A a, b, c, d, e, g : Fields(Image(a, b, c, d, e, g), a, b, c, d, e, g)
  BY DEF Fields, Image
<1>3. /\ [img EXCEPT !.ehdr = x]
           = Image(x, img.phdrs, img.shdrs, img.data, img.dynamic, img.err)
      /\ [img EXCEPT !.phdrs = x]
           = Image(img.ehdr, x, img.shdrs, img.data, img.dynamic, img.err)
      /\ [img EXCEPT !.shdrs = x]
           = Image(img.ehdr, img.phdrs, x, img.data, img.dynamic, img.err)
      /\ [img EXCEPT !.data = x]
           = Image(img.ehdr, img.phdrs, img.shdrs, x, img.dynamic, img.err)
      /\ [img EXCEPT !.dynamic = x]
           = Image(img.ehdr, img.phdrs, img.shdrs, img.data, x, img.err)
      /\ [img EXCEPT !.err = x]
           = Image(img.ehdr, img.phdrs, img.shdrs, img.data, img.dynamic, x)
  BY <1>1 DEF Image
<1> QED
  BY <1>2, <1>3

(* What dyn_idx returns is a dynamic section.                              *)
LEMMA DynIdxFirst ==
  ASSUME NEW img, IsImage(img)
  PROVE  /\ DynIdx(img) = 0 \/ DynIdx(img) \in DOMAIN img.shdrs
         /\ DynIdx(img) # 0 => img.shdrs[DynIdx(img)].type = "DYNAMIC"
<1> DEFINE S == {i \in 1 .. Len(img.shdrs) : img.shdrs[i].type = "DYNAMIC"}
<1>1. DynIdx(img) = IF S # {} THEN Min(S) ELSE 0
  BY DEF DynIdx, SelectInSeq
<1>2. S # {} => Min(S) \in S
  <2>1. S \subseteq 1 .. Len(img.shdrs) /\ Len(img.shdrs) \in Nat
    BY ImageDomains
  <2> HIDE DEF S
  <2> QED
    BY <2>1, LeastIndex
<1>3. S \subseteq DOMAIN img.shdrs /\ \A i \in S : img.shdrs[i].type = "DYNAMIC"
  BY ImageDomains
<1> QED
  BY <1>1, <1>2, <1>3

(* Adding sections that are not dynamic does not change which one is       *)
(* found.                                                                  *)
LEMMA DynIdxSame ==
  ASSUME NEW img, NEW new, IsImage(img), IsImage(new), Len(img.shdrs) <= Len(new.shdrs),
         \A i \in DOMAIN img.shdrs : new.shdrs[i].type = img.shdrs[i].type,
         \A i \in DOMAIN new.shdrs \ DOMAIN img.shdrs : new.shdrs[i].type # "DYNAMIC"
  PROVE  DynIdx(new) = DynIdx(img)
<1>1. {i \in 1 .. Len(img.shdrs) : img.shdrs[i].type = "DYNAMIC"}
        = {i \in 1 .. Len(new.shdrs) : new.shdrs[i].type = "DYNAMIC"}
  BY ImageDomains
<1> QED
  BY <1>1 DEF DynIdx, SelectInSeq

(* What find_section returns is the number of a section.                   *)
LEMMA FindSectionIndex ==
  ASSUME NEW img, IsImage(img), NEW name
  PROVE  FindSection(img, name) = 0 \/ FindSection(img, name) \in DOMAIN img.shdrs
<1> DEFINE S == {i \in DOMAIN img.shdrs : SectionName(img, i) = name}
<1>1. S # {} => Min(S) \in S
  <2>1. S \subseteq 1 .. Len(img.shdrs) /\ Len(img.shdrs) \in Nat
    BY ImageDomains
  <2> HIDE DEF S
  <2> QED
    BY <2>1, LeastIndex
<1> QED
  BY <1>1 DEF FindSection

-----------------------------------------------------------------------------
(* The strings, notes and code blobs the operations write are cells.       *)
LEMMA StrCells ==
  ASSUME NEW s \in DOMAIN Width
  PROVE  /\ CellList(Str(s)) /\ Str(s) # <<>> /\ Len(Str(s)) = Width[s]
         /\ CellList(Note(s)) /\ Note(s) # <<>>
         /\ CellList(Code(s))
<1> DEFINE a == [i \in 1 .. Width[s] |-> [k |-> "str", s |-> s, i |-> i]]
           b == [i \in 1 .. Width[s] |-> [k |-> "note", id |-> s, i |-> i]]
           c == [i \in 1 .. Width[s] |-> [k |-> "code", id |-> s, i |-> i]]
<1>1. Width[s] \in Nat \ {0}
  BY WidthAssumption
<1>2. /\ \A i \in 1 .. Width[s] : Formed(a[i]) /\ Formed(b[i]) /\ Formed(c[i])
      /\ DOMAIN a = 1 .. Width[s] /\ DOMAIN b = 1 .. Width[s] /\ DOMAIN c = 1 .. Width[s]
      /\ a = [i \in 1 .. Width[s] |-> a[i]] /\ b = [i \in 1 .. Width[s] |-> b[i]]
      /\ c = [i \in 1 .. Width[s] |-> c[i]]
  BY DEF Formed
<1>3. Str(s) = Tuple(a) /\ Note(s) = Tuple(b) /\ Code(s) = Tuple(c)
  BY DEF Str, Note, Code
<1> HIDE DEF a, b, c
<1>4. /\ IsList(a) /\ IsList(b) /\ IsList(c)
      /\ Len(a) = Width[s] /\ Len(b) = Width[s]
  BY <1>1, <1>2, FunctionList
<1>5. Str(s) = a /\ Note(s) = b /\ Code(s) = c
  BY <1>3, <1>4, TupleSame
<1>6. CellList(a) /\ CellList(b) /\ CellList(c)
  BY <1>2, <1>4 DEF CellList
<1>7. \A x : x = <<>> => Len(x) = 0
  OBVIOUS
<1> QED
  BY <1>1, <1>4, <1>5, <1>6, <1>7

(* Cells followed by cells are cells.                                      *)
LEMMA CellsConcat ==
  ASSUME NEW s, NEW t, CellList(s), CellList(t)
  PROVE  CellList(s \o t) /\ Len(s \o t) = Len(s) + Len(t)
<1>1. IsList(s \o t) /\ IsJoin(s \o t, s, t)
  BY ListConcat DEF CellList
<1> QED
  BY <1>1 DEF CellList, IsJoin

(* A list is not empty when it has a length.                               *)
LEMMA NotEmpty ==
  ASSUME NEW s, IsList(s)
  PROVE  s # <<>> <=> Len(s) > 0
<1>1. s \in Seq({s[i] : i \in 1 .. Len(s)}) /\ Len(s) \in Nat
  BY ListSeq DEF IsList
<1> QED
  BY <1>1

(* An operation that fails reports it and leaves the image as it is.       *)
LEMMA FailEdited ==
  ASSUME NEW img, NEW f, Edited(img, f), NEW why \in {"missing", "unsupported", "cli"}
  PROVE  Edited(Fail(img, why), f)
<1> DEFINE new == Fail(img, why)
<1>0. IsImage(img)
  BY DEF Edited
<1>a. Fields(new, img.ehdr, img.phdrs, img.shdrs, img.data, img.dynamic, why)
  BY <1>0, ImageWith DEF Fail
<1>1. /\ new = Image(img.ehdr, img.phdrs, img.shdrs, img.data, img.dynamic, why)
      /\ new.ehdr = img.ehdr /\ new.phdrs = img.phdrs /\ new.shdrs = img.shdrs
      /\ new.data = img.data /\ new.dynamic = img.dynamic /\ new.err = why
  <2> HIDE DEF new
  <2> QED
    BY <1>a DEF Fields
<1> HIDE DEF new
<1>2. IsImage(new)
  BY <1>1 DEF Edited, IsImage
<1>3. DynIdx(new) = DynIdx(img)
  BY <1>1 DEF DynIdx
<1>4. \A i \in DOMAIN img.shdrs : SectionOf(new, f, i)
  BY <1>1 DEF Edited, SectionOf
<1> QED
  BY <1>1, <1>2, <1>3, <1>4 DEF Edited, new

(* The OS ABI byte is not looked at by any other part of the header.       *)
LEMMA SetEhdrEdited ==
  ASSUME NEW img, NEW f, Edited(img, f), NEW abi \in Text
  PROVE  Edited([img EXCEPT !.ehdr.abi = abi], f)
<1> DEFINE new == [img EXCEPT !.ehdr.abi = abi]
<1>0. IsImage(img)
  BY DEF Edited
<1>a. Fields(new, [img.ehdr EXCEPT !.abi = abi], img.phdrs, img.shdrs, img.data, img.dynamic, img.err)
  BY <1>0, ImageWith
<1>1. /\ new = Image([img.ehdr EXCEPT !.abi = abi], img.phdrs, img.shdrs, img.data, img.dynamic, img.err)
      /\ new.ehdr = [img.ehdr EXCEPT !.abi = abi]
      /\ new.phdrs = img.phdrs /\ new.shdrs = img.shdrs
      /\ new.data = img.data /\ new.dynamic = img.dynamic /\ new.err = img.err
  <2> HIDE DEF new
  <2> QED
    BY <1>a DEF Fields
<1> HIDE DEF new
<1>2. /\ new.ehdr \in EhdrCell /\ new.ehdr.phoff = img.ehdr.phoff
      /\ new.ehdr.shoff = img.ehdr.shoff /\ new.ehdr.shstrndx = img.ehdr.shstrndx
  BY <1>1 DEF Edited, IsImage, EhdrCell
<1>3. IsImage(new)
  BY <1>1, <1>2 DEF Edited, IsImage
<1>4. DynIdx(new) = DynIdx(img)
  BY <1>1 DEF DynIdx
<1>5. \A i \in DOMAIN img.shdrs : SectionOf(new, f, i)
  BY <1>1 DEF Edited, SectionOf
<1> QED
  BY <1>1, <1>2, <1>3, <1>4, <1>5 DEF Edited, new

(* The segments may be edited where LOAD and DYNAMIC stay among the ones   *)
(* there were.                                                             *)
LEMMA SetPhdrsEdited ==
  ASSUME NEW img, NEW f, Edited(img, f), NEW phdrs \in Seq(PhdrCell),
         Mapped(phdrs) \subseteq Mapped(img.phdrs)
  PROVE  Edited([img EXCEPT !.phdrs = phdrs], f)
<1> DEFINE new == [img EXCEPT !.phdrs = phdrs]
<1>0. IsImage(img)
  BY DEF Edited
<1>a. Fields(new, img.ehdr, phdrs, img.shdrs, img.data, img.dynamic, img.err)
  BY <1>0, ImageWith
<1>1. /\ new = Image(img.ehdr, phdrs, img.shdrs, img.data, img.dynamic, img.err)
      /\ new.ehdr = img.ehdr /\ new.phdrs = phdrs /\ new.shdrs = img.shdrs
      /\ new.data = img.data /\ new.dynamic = img.dynamic /\ new.err = img.err
  <2> HIDE DEF new
  <2> QED
    BY <1>a DEF Fields
<1> HIDE DEF new
<1>2. IsImage(new)
  BY <1>1 DEF Edited, IsImage
<1>3. DynIdx(new) = DynIdx(img)
  BY <1>1 DEF DynIdx
<1>4. \A i \in DOMAIN img.shdrs : SectionOf(new, f, i)
  BY <1>1 DEF Edited, SectionOf
<1> QED
  BY <1>1, <1>2, <1>3, <1>4 DEF Edited, new

(* The dynamic entries may be edited where the ones that hold an address   *)
(* stay.                                                                   *)
LEMMA SetDynamicEdited ==
  ASSUME NEW img, NEW f, Edited(img, f), NEW dynamic \in Seq(DynCell),
         img.dynamic = <<>> => dynamic = <<>>,
         Addressed(img.dynamic) \subseteq Range(dynamic)
  PROVE  Edited([img EXCEPT !.dynamic = dynamic], f)
<1> DEFINE new == [img EXCEPT !.dynamic = dynamic]
<1>0. IsImage(img)
  BY DEF Edited
<1>a. Fields(new, img.ehdr, img.phdrs, img.shdrs, img.data, dynamic, img.err)
  BY <1>0, ImageWith
<1>1. /\ new = Image(img.ehdr, img.phdrs, img.shdrs, img.data, dynamic, img.err)
      /\ new.ehdr = img.ehdr /\ new.phdrs = img.phdrs /\ new.shdrs = img.shdrs
      /\ new.data = img.data /\ new.dynamic = dynamic /\ new.err = img.err
  <2> HIDE DEF new
  <2> QED
    BY <1>a DEF Fields
<1> HIDE DEF new
<1>2. IsImage(new)
  BY <1>1 DEF Edited, IsImage
<1>3. DynIdx(new) = DynIdx(img)
  BY <1>1 DEF DynIdx
<1>4. \A i \in DOMAIN img.shdrs : SectionOf(new, f, i)
  BY <1>1 DEF Edited, SectionOf
<1>5. Addressed(ReadDynamic(f)) \subseteq Range(dynamic)
  <2>1. ASSUME NEW d \in Addressed(ReadDynamic(f)) PROVE d \in Range(dynamic)
    <3>1. d \in Range(img.dynamic) /\ d.tag \in AddrTags
      BY DEF Edited, Addressed
    <3> QED
      BY <3>1 DEF Addressed
  <2> QED
    BY <2>1
<1> QED
  BY <1>1, <1>2, <1>3, <1>4, <1>5 DEF Edited, new

(* The content of a section may be replaced by a content that is not       *)
(* empty.                                                                  *)
LEMMA SetDataEdited ==
  ASSUME NEW img, NEW f, Edited(img, f), NEW i \in DOMAIN img.shdrs,
         NEW cells, CellList(cells), cells # <<>>
  PROVE  Edited([img EXCEPT !.data[i] = cells], f)
<1> DEFINE data == [img.data EXCEPT ![i] = cells]
           new == [img EXCEPT !.data[i] = cells]
<1>1. /\ new = Image(img.ehdr, img.phdrs, img.shdrs, data, img.dynamic, img.err)
      /\ new.ehdr = img.ehdr /\ new.phdrs = img.phdrs /\ new.shdrs = img.shdrs
      /\ new.data = data /\ new.dynamic = img.dynamic /\ new.err = img.err
  <2>1. IsImage(img) /\ new = [img EXCEPT !.data = data]
    BY DEF Edited
  <2>2. Fields(new, img.ehdr, img.phdrs, img.shdrs, data, img.dynamic, img.err)
    <3> HIDE DEF new, data
    <3> QED
      BY <2>1, ImageWith
  <2> HIDE DEF new, data
  <2> QED
    BY <2>2 DEF Fields
<1>2. /\ DOMAIN data = DOMAIN img.data /\ data = [j \in DOMAIN img.data |-> data[j]]
      /\ data[i] = cells /\ \A j \in DOMAIN img.shdrs \ {i} : data[j] = img.data[j]
      /\ DOMAIN img.data = DOMAIN img.shdrs
  BY ImageDomains DEF Edited
<1> HIDE DEF new, data
<1>3. IsList(data) /\ Len(data) = Len(img.data)
  BY <1>2, ListMap DEF Edited, IsImage
<1>4. \A j \in DOMAIN img.shdrs : CellList(data[j])
  BY <1>2 DEF Edited, IsImage
<1>5. IsImage(new)
  BY <1>1, <1>3, <1>4 DEF Edited, IsImage
<1>6. DynIdx(new) = DynIdx(img)
  BY <1>1 DEF DynIdx
<1>7. \A j \in DOMAIN img.shdrs : SectionOf(new, f, j)
  <2> SUFFICES ASSUME NEW j \in DOMAIN img.shdrs PROVE SectionOf(new, f, j)
    OBVIOUS
  <2>1. SectionOf(img, f, j) /\ data[j] \in {img.data[j], cells}
    BY <1>2 DEF Edited
  <2> QED
    BY <1>1, <2>1 DEF SectionOf
<1>8. (DynIdx(img) # 0 /\ data[DynIdx(img)] = <<>>) => img.dynamic = <<>>
  <2>1. DynIdx(img) # 0 => DynIdx(img) \in DOMAIN img.shdrs
    BY DynIdxFirst DEF Edited
  <2> QED
    BY <1>2, <2>1 DEF Edited
<1> QED
  BY <1>1, <1>5, <1>6, <1>7, <1>8 DEF Edited, new

(* A section given new content; its size is for the layout to set.         *)
LEMMA ReplaceSectionEdited ==
  ASSUME NEW img, NEW f, Edited(img, f), NEW i \in DOMAIN img.shdrs,
         NEW cells, CellList(cells), cells # <<>>
  PROVE  Edited(ReplaceSection(img, i, cells), f)
<1> DEFINE old == [img EXCEPT !.data[i] = cells]
           shdrs == [img.shdrs EXCEPT ![i] = [img.shdrs[i] EXCEPT !.size = 0]]
           new == ReplaceSection(img, i, cells)
<1>0. IsImage(img)
  BY DEF Edited
<1>1. Edited(old, f)
  BY SetDataEdited
<1>a. IsImage(old) /\ old = [img EXCEPT !.data = [img.data EXCEPT ![i] = cells]]
  BY <1>1 DEF Edited
<1>b. new = [old EXCEPT !.shdrs = shdrs]
  BY <1>0 DEF ReplaceSection
<1>c. old.shdrs = img.shdrs /\ old.data[i] = cells
  <2>1. i \in DOMAIN img.data
    BY <1>0, ImageDomains
  <2>2. old.shdrs = img.shdrs /\ old.data = [img.data EXCEPT ![i] = cells]
    <3> HIDE DEF old
    <3> QED
      BY <1>0, <1>a, ImageWith DEF Fields
  <2> QED
    BY <2>1, <2>2
<1> HIDE DEF old, new, shdrs
<1>d. Fields(new, old.ehdr, old.phdrs, shdrs, old.data, old.dynamic, old.err)
  BY <1>a, <1>b, ImageWith
<1>2. /\ new = Image(old.ehdr, old.phdrs, shdrs, old.data, old.dynamic, old.err)
      /\ new.ehdr = old.ehdr /\ new.phdrs = old.phdrs /\ new.shdrs = shdrs
      /\ new.data = old.data /\ new.dynamic = old.dynamic /\ new.err = old.err
  BY <1>d DEF Fields
<1>3. /\ shdrs \in Seq(ShdrCell) /\ Len(shdrs) = Len(img.shdrs) /\ DOMAIN shdrs = DOMAIN img.shdrs
      /\ \A j \in DOMAIN img.shdrs : /\ shdrs[j].type = img.shdrs[j].type
                                     /\ shdrs[j].offset = img.shdrs[j].offset
                                     /\ shdrs[j].size \in {0, img.shdrs[j].size}
  <2>1. img.shdrs \in Seq(ShdrCell) /\ img.shdrs[i] \in ShdrCell
    BY DEF Edited, IsImage
  <2>2. [img.shdrs[i] EXCEPT !.size = 0] \in ShdrCell
    BY <2>1 DEF ShdrCell
  <2>3. shdrs \in Seq(ShdrCell) /\ Len(shdrs) = Len(img.shdrs) /\ DOMAIN shdrs = DOMAIN img.shdrs
    BY <2>1, <2>2 DEF shdrs
  <2>4. ASSUME NEW j \in DOMAIN img.shdrs
        PROVE  /\ shdrs[j].type = img.shdrs[j].type
               /\ shdrs[j].offset = img.shdrs[j].offset
               /\ shdrs[j].size \in {0, img.shdrs[j].size}
    <3>1. CASE j = i
      <4>1. shdrs[j] = [img.shdrs[i] EXCEPT !.size = 0]
        BY <3>1, <2>1 DEF shdrs
      <4> QED
        BY <2>1, <3>1, <4>1 DEF ShdrCell
    <3>2. CASE j # i
      BY <2>1, <3>2 DEF shdrs
    <3> QED
      BY <3>1, <3>2
  <2> QED
    BY <2>3, <2>4
<1>4. IsImage(new)
  BY <1>a, <1>c, <1>2, <1>3 DEF IsImage
<1>5. DynIdx(new) = DynIdx(old)
  <2>1. /\ Len(old.shdrs) <= Len(new.shdrs) /\ DOMAIN new.shdrs \ DOMAIN old.shdrs = {}
        /\ \A j \in DOMAIN old.shdrs : new.shdrs[j].type = old.shdrs[j].type
    <3>1. Len(img.shdrs) \in Nat
      BY <1>0, ImageDomains
    <3> QED
      BY <1>c, <1>2, <1>3, <3>1
  <2> QED
    BY <1>a, <1>4, <2>1, DynIdxSame
<1>6. ASSUME NEW j \in DOMAIN new.shdrs PROVE SectionOf(new, f, j)
  <2>1. SectionOf(old, f, j) /\ j \in DOMAIN img.shdrs
    BY <1>1, <1>c, <1>2, <1>3 DEF Edited
  <2> QED
    BY <2>1, <1>c, <1>2, <1>3 DEF SectionOf
<1>7. Shdrs(f) # <<>>
  BY <1>0, <1>1, <1>c, ImageDomains DEF Edited
<1>8. Len(Shdrs(f)) <= Len(new.shdrs)
  BY <1>1, <1>c, <1>2, <1>3 DEF Edited
<1>9. Edited(new, f)
  BY <1>1, <1>2, <1>4, <1>5, <1>6, <1>7, <1>8 DEF Edited
<1> QED
  BY <1>9 DEF new

(* A section pushed behind the others, never a second dynamic one.         *)
LEMMA PushSectionEdited ==
  ASSUME NEW img, NEW f, Edited(img, f), NEW name, NEW type \in Text,
         type \notin {"NOBITS", "DYNAMIC"}, NEW flags \in SUBSET Text, NEW align \in Nat,
         NEW cells, CellList(cells), cells # <<>>
  PROVE  Edited(PushSection(img, name, type, flags, align, cells), f)
<1> DEFINE str == img.ehdr.shstrndx
           new == PushSection(img, name, type, flags, align, cells)
<1>1. CASE str \notin DOMAIN img.data
  <2>1. new = Fail(img, "missing")
    BY <1>1 DEF PushSection
  <2> QED
    BY <2>1, FailEdited
<1>2. CASE str \in DOMAIN img.data
  <2> DEFINE names == Append(img.data[str], NameCell(name))
             old == [img EXCEPT !.data[str] = names]
             s == Shdr(Len(img.data[str]), type, flags, 0, 0, 0, align)
             shdrs == Append(img.shdrs, s)
             mid == [img EXCEPT !.shdrs = shdrs]
             data == Append([img.data EXCEPT ![str] = names], cells)
             n == Len(img.shdrs)
  <2>1. DOMAIN img.data = DOMAIN img.shdrs /\ str \in DOMAIN img.shdrs /\ IsImage(img)
    BY <1>2, ImageDomains DEF Edited
  <2>2. CellList(names) /\ names # <<>> /\ Len(img.data[str]) \in Nat
    <3>1. CellList(img.data[str])
      BY <2>1 DEF IsImage
    <3>2. /\ IsList(names) /\ Len(names) = Len(img.data[str]) + 1
          /\ DOMAIN img.data[str] = 1 .. Len(img.data[str])
          /\ DOMAIN names = 1 .. Len(img.data[str]) + 1
          /\ \A k \in 1 .. Len(img.data[str]) : names[k] = img.data[str][k]
          /\ names[Len(img.data[str]) + 1] = NameCell(name)
      <4>1. IsList(img.data[str])
        BY <3>1 DEF CellList
      <4> QED
        BY <4>1, ListAppend
    <3>3. Formed(NameCell(name))
      BY DEF Formed, NameCell
    <3>4. Len(img.data[str]) \in Nat
      BY <3>1 DEF CellList, IsList
    <3> HIDE DEF names
    <3>5. ASSUME NEW k \in DOMAIN names PROVE Formed(names[k])
      <4>1. k = Len(img.data[str]) + 1 \/ k \in 1 .. Len(img.data[str])
        BY <3>2, <3>4
      <4> QED
        BY <3>1, <3>2, <3>3, <4>1 DEF CellList
    <3>6. names # <<>>
      BY <3>2, <3>4, NotEmpty
    <3> QED
      BY <3>2, <3>4, <3>5, <3>6 DEF CellList
  <2>3. new = [mid EXCEPT !.data = data]
    BY <1>2, <2>1 DEF PushSection
  <2> HIDE DEF names
  <2>4. Edited(old, f)
    BY <2>1, <2>2, SetDataEdited
  <2>5. old = [img EXCEPT !.data = [img.data EXCEPT ![str] = names]]
    BY <2>1
  <2> HIDE DEF old, mid, data, shdrs, s
  <2>6. Fields(old, img.ehdr, img.phdrs, img.shdrs, [img.data EXCEPT ![str] = names],
               img.dynamic, img.err)
    BY <2>1, <2>5, ImageWith
  <2>7. Fields(mid, img.ehdr, img.phdrs, shdrs, img.data, img.dynamic, img.err)
    BY <2>1, ImageWith DEF mid
  <2>8. mid = Image(img.ehdr, img.phdrs, shdrs, img.data, img.dynamic, img.err)
    BY <2>7 DEF Fields
  <2>9. /\ new = Image(old.ehdr, old.phdrs, shdrs, data, old.dynamic, old.err)
        /\ new.ehdr = old.ehdr /\ new.phdrs = old.phdrs /\ new.shdrs = shdrs
        /\ new.data = data /\ new.dynamic = old.dynamic /\ new.err = old.err
        /\ old.shdrs = img.shdrs /\ old.data = [img.data EXCEPT ![str] = names]
    <3>1. new = Image(img.ehdr, img.phdrs, shdrs, data, img.dynamic, img.err)
      <4> HIDE DEF new
      <4> QED
        BY <2>3, <2>8 DEF Image
    <3> HIDE DEF new
    <3>2. /\ new.ehdr = img.ehdr /\ new.phdrs = img.phdrs /\ new.shdrs = shdrs
          /\ new.data = data /\ new.dynamic = img.dynamic /\ new.err = img.err
      BY <3>1 DEF Image
    <3> QED
      BY <2>6, <3>1, <3>2 DEF Fields
  <2> HIDE DEF new
  <2>10. s \in ShdrCell /\ s.type = type /\ s.size = 0
    <3>1. s = [k |-> "shdr", name |-> Len(img.data[str]), type |-> type, flags |-> flags,
               addr |-> 0, offset |-> 0, size |-> 0, addralign |-> align]
      BY DEF Shdr, s
    <3> QED
      BY <2>2, <3>1 DEF ShdrCell
  <2>11. /\ shdrs \in Seq(ShdrCell) /\ Len(shdrs) = n + 1 /\ n \in Nat /\ DOMAIN shdrs = 1 .. n + 1
         /\ DOMAIN img.shdrs = 1 .. n
         /\ \A j \in 1 .. n : shdrs[j] = img.shdrs[j]
         /\ shdrs[n + 1] = s
    BY <2>1, <2>10 DEF IsImage, shdrs
  <2>12. IsImage(old)
    BY <2>4 DEF Edited
  <2>13. /\ IsList(data) /\ Len(data) = n + 1
         /\ \A j \in 1 .. n : data[j] = old.data[j]
         /\ data[n + 1] = cells
    <3>1. IsList(old.data) /\ Len(old.data) = n
      BY <2>9, <2>12 DEF IsImage
    <3>2. data = Append(old.data, cells)
      BY <2>9 DEF data
    <3> QED
      BY <3>1, <3>2, ListAppend
  <2> HIDE DEF n
  <2>14. IsImage(new)
    <3>1. \A j \in DOMAIN new.shdrs : CellList(new.data[j])
      <4> SUFFICES ASSUME NEW j \in 1 .. n + 1 PROVE CellList(data[j])
        BY <2>9, <2>11
      <4>1. j = n + 1 \/ j \in 1 .. n
        BY <2>11
      <4> QED
        BY <2>9, <2>11, <2>12, <2>13, <4>1 DEF IsImage
    <3> QED
      BY <2>9, <2>11, <2>12, <2>13, <3>1 DEF IsImage
  <2>15. DynIdx(new) = DynIdx(old)
    <3>1. /\ Len(old.shdrs) <= Len(new.shdrs)
          /\ \A j \in DOMAIN old.shdrs : new.shdrs[j].type = old.shdrs[j].type
      BY <2>9, <2>11 DEF n
    <3>2. \A j \in DOMAIN new.shdrs \ DOMAIN old.shdrs : new.shdrs[j].type # "DYNAMIC"
      <4>1. \A j \in DOMAIN new.shdrs \ DOMAIN old.shdrs : j = n + 1
        BY <2>9, <2>11
      <4> QED
        BY <2>9, <2>10, <2>11, <4>1
    <3> QED
      BY <2>12, <2>14, <3>1, <3>2, DynIdxSame
  <2>16. /\ Len(Shdrs(f)) <= n /\ n + 1 \notin DOMAIN Shdrs(f) /\ Shdrs(f) # <<>>
         /\ Len(Shdrs(f)) <= Len(new.shdrs)
    <3>1. Len(Shdrs(f)) <= n
      BY <2>4, <2>9 DEF Edited, n
    <3>2. f[1] \in EhdrCell
      BY <2>4 DEF Edited
    <3>3. DOMAIN Shdrs(f) = 1 .. Len(Shdrs(f)) /\ Len(Shdrs(f)) \in Nat
      BY <3>2, TableLists
    <3>4. Shdrs(f) # <<>>
      BY <2>1, <2>4, <2>9 DEF Edited
    <3> QED
      BY <2>9, <2>11, <3>1, <3>3, <3>4
  <2>17. \A j \in DOMAIN new.shdrs : SectionOf(new, f, j)
    <3>1. ASSUME NEW j \in 1 .. n PROVE SectionOf(new, f, j)
      <4>1. SectionOf(old, f, j)
        BY <2>4, <2>9, <2>11 DEF Edited
      <4> QED
        BY <4>1, <2>9, <2>11, <2>13 DEF SectionOf
    <3>2. SectionOf(new, f, n + 1)
      BY <2>9, <2>10, <2>11, <2>13, <2>16 DEF SectionOf
    <3>3. \A j \in DOMAIN new.shdrs : j \in 1 .. n \/ j = n + 1
      BY <2>9, <2>11
    <3> QED
      BY <3>1, <3>2, <3>3
  <2>18. (DynIdx(new) # 0 /\ new.data[DynIdx(new)] = <<>>) => new.dynamic = <<>>
    <3>1. DynIdx(old) # 0 => DynIdx(old) \in 1 .. n
      BY <2>9, <2>11, <2>12, DynIdxFirst
    <3> QED
      BY <2>4, <2>9, <2>13, <2>15, <3>1 DEF Edited
  <2>19. Edited(new, f)
    BY <2>4, <2>9, <2>14, <2>15, <2>16, <2>17, <2>18 DEF Edited
  <2> QED
    BY <2>19 DEF new
<1> QED
  BY <1>1, <1>2

(* Rewriting dynamic entries that hold no address, each at its place.      *)
LEMMA MapDynamicEdited ==
  ASSUME NEW img, NEW f, Edited(img, f), NEW d,
         DOMAIN d = DOMAIN img.dynamic, d = [i \in DOMAIN img.dynamic |-> d[i]],
         \A i \in DOMAIN img.dynamic :
           d[i] \in DynCell /\ (img.dynamic[i].tag \in AddrTags => d[i] = img.dynamic[i])
  PROVE  Edited([img EXCEPT !.dynamic = Tuple(d)], f)
<1>1. IsImage(img) /\ img.dynamic \in Seq(DynCell)
  BY DEF Edited, IsImage
<1>2. IsList(img.dynamic)
  BY <1>1, SeqList
<1>3. IsList(d) /\ Len(d) = Len(img.dynamic) /\ Tuple(d) = d /\ DOMAIN d = 1 .. Len(d)
  BY <1>2, ListMap
<1>4. d \in Seq(DynCell)
  <2>1. PICK n \in Nat : n = Len(d)
    BY <1>3 DEF IsList
  <2>2. d \in [1 .. n -> DynCell]
    BY <1>3, <2>1
  <2> QED
    BY <2>2
<1>5. img.dynamic = <<>> => d = <<>>
  BY <1>1, <1>3, <1>4
<1>6. ASSUME NEW x \in Addressed(img.dynamic) PROVE x \in Range(d)
  BY <1>6 DEF Addressed, Range
<1>7. Addressed(img.dynamic) \subseteq Range(d)
  BY <1>6
<1> QED
  BY <1>3, <1>4, <1>5, <1>7, SetDynamicEdited

(* An entry inserted at the front of a dynamic section that is not empty.  *)
LEMMA FrontEdited ==
  ASSUME NEW img, NEW f, Edited(img, f), img.dynamic # <<>>, NEW tag \in Text, NEW val \in Int
  PROVE  Edited(InsertFront(img, tag, val), f)
<1> DEFINE e == Dyn(tag, val)
           d == <<e>> \o img.dynamic
<1>1. img.dynamic \in Seq(DynCell)
  BY DEF Edited, IsImage
<1>2. e \in DynCell
  BY DEF Dyn, DynCell
<1> HIDE DEF e
<1>3. d \in Seq(DynCell) /\ \A i \in DOMAIN img.dynamic : i + 1 \in DOMAIN d /\ d[i + 1] = img.dynamic[i]
  <2>1. <<e>> \in Seq(DynCell)
    BY <1>2
  <2>2. d \in Seq(DynCell) /\ IsJoin(d, <<e>>, img.dynamic)
    BY <1>1, <2>1, Concatenated
  <2> QED
    BY <1>1, <2>2 DEF IsJoin
<1> HIDE DEF d
<1>4. Addressed(img.dynamic) \subseteq Range(d)
  <2> SUFFICES ASSUME NEW x \in Addressed(img.dynamic) PROVE x \in Range(d)
    OBVIOUS
  <2>1. PICK i \in DOMAIN img.dynamic : x = img.dynamic[i]
    BY DEF Addressed, Range
  <2> QED
    BY <1>3, <2>1 DEF Range
<1>5. Edited([img EXCEPT !.dynamic = d], f)
  BY <1>3, <1>4, SetDynamicEdited
<1>6. InsertFront(img, tag, val) = [img EXCEPT !.dynamic = d]
  BY DEF InsertFront, d, e
<1> QED
  BY <1>5, <1>6

(* Dropping dynamic entries that hold no address.                          *)
LEMMA RetainEdited ==
  ASSUME NEW img, NEW f, Edited(img, f), NEW dropped,
         \A i \in DOMAIN img.dynamic : i \in dropped => img.dynamic[i].tag \notin AddrTags
  PROVE  Edited([img EXCEPT !.dynamic = Retain(img.dynamic, dropped)], f)
<1> DEFINE one == [i \in DOMAIN img.dynamic |->
                     IF i \in dropped THEN <<>> ELSE <<img.dynamic[i]>>]
           d == Retain(img.dynamic, dropped)
<1>1. /\ img.dynamic \in Seq(DynCell) /\ Len(img.dynamic) \in Nat
      /\ DOMAIN img.dynamic = 1 .. Len(img.dynamic)
      /\ \A i \in DOMAIN img.dynamic : img.dynamic[i] \in DynCell
  BY DEF Edited, IsImage
<1>2. one \in Seq(Seq(DynCell)) /\ Len(one) = Len(img.dynamic) /\ DOMAIN one = DOMAIN img.dynamic
  <2>1. one \in [1 .. Len(img.dynamic) -> Seq(DynCell)]
    BY <1>1
  <2> HIDE DEF one
  <2>2. one \in Seq(Seq(DynCell))
    BY <1>1, <2>1
  <2> QED
    BY <1>1, <2>1, <2>2
<1>3. \A i \in DOMAIN one : one[i] = IF i \in dropped THEN <<>> ELSE <<img.dynamic[i]>>
  BY <1>2
<1>4. d = FlattenSeq(one)
  BY DEF Retain
<1> HIDE DEF one, d
<1>5. d \in Seq(DynCell)
  BY <1>2, <1>4, FlattenElements
<1>6. \A i \in DOMAIN img.dynamic : i \notin dropped => img.dynamic[i] \in Range(d)
  <2> SUFFICES ASSUME NEW i \in DOMAIN img.dynamic, i \notin dropped
               PROVE  \E k \in DOMAIN d : d[k] = img.dynamic[i]
    BY DEF Range
  <2>1. one[i] = <<img.dynamic[i]>> /\ 1 \in DOMAIN one[i] /\ one[i][1] = img.dynamic[i]
    <3>1. \A x : 1 \in DOMAIN <<x>> /\ <<x>>[1] = x
      OBVIOUS
    <3> QED
      BY <1>2, <1>3, <3>1
  <2>2. \A k \in DOMAIN one : \A j \in DOMAIN one[k] :
          \E m \in DOMAIN FlattenSeq(one) : FlattenSeq(one)[m] = one[k][j]
    BY <1>2, FlattenElements
  <2> QED
    BY <1>2, <1>4, <2>1, <2>2
<1>7. Addressed(img.dynamic) \subseteq Range(d)
  <2> SUFFICES ASSUME NEW x \in Addressed(img.dynamic) PROVE x \in Range(d)
    OBVIOUS
  <2>1. PICK i \in DOMAIN img.dynamic : x = img.dynamic[i] /\ x.tag \in AddrTags
    BY DEF Addressed, Range
  <2> QED
    BY <1>6, <2>1
<1>8. img.dynamic = <<>> => d = <<>>
  <2> SUFFICES ASSUME img.dynamic = <<>> PROVE d = <<>>
    OBVIOUS
  <2>1. DOMAIN one = {}
    <3>1. \A s : s = <<>> => DOMAIN s = {}
      OBVIOUS
    <3> QED
      BY <1>2, <3>1
  <2>2. \A k \in DOMAIN FlattenSeq(one) : \E i \in DOMAIN one : TRUE
    BY <1>2, FlattenElements
  <2>3. DOMAIN d = {}
    BY <1>4, <2>1, <2>2
  <2> QED
    BY <1>5, <2>3
<1> QED
  BY <1>5, <1>7, <1>8, SetDynamicEdited DEF d

(* What looking for a tag returns: the number of an entry with that tag.   *)
LEMMA FirstDynIndex ==
  ASSUME NEW img, IsImage(img), NEW tag
  PROVE  /\ FirstDyn(img, tag) = 0 \/ FirstDyn(img, tag) \in DOMAIN img.dynamic
         /\ FirstDyn(img, tag) # 0 => img.dynamic[FirstDyn(img, tag)].tag = tag
<1> DEFINE S == {i \in 1 .. Len(img.dynamic) : img.dynamic[i].tag = tag}
<1>1. FirstDyn(img, tag) = IF S # {} THEN Min(S) ELSE 0
  BY DEF FirstDyn, SelectInSeq
<1>2. S # {} => Min(S) \in S
  <2>1. S \subseteq 1 .. Len(img.dynamic) /\ Len(img.dynamic) \in Nat
    BY ImageDomains
  <2> HIDE DEF S
  <2> QED
    BY <2>1, LeastIndex
<1>3. S \subseteq DOMAIN img.dynamic /\ \A i \in S : img.dynamic[i].tag = tag
  BY ImageDomains
<1> QED
  BY <1>1, <1>2, <1>3

(* Setting the value of one entry that holds no address.                   *)
LEMMA ValEdited ==
  ASSUME NEW img, NEW f, Edited(img, f), NEW i \in DOMAIN img.dynamic,
         img.dynamic[i].tag \notin AddrTags, NEW v \in Int
  PROVE  Edited([img EXCEPT !.dynamic[i].val = v], f)
<1> DEFINE e == [img.dynamic[i] EXCEPT !.val = v]
           d == [img.dynamic EXCEPT ![i] = e]
<1>0. IsImage(img) /\ img.dynamic \in Seq(DynCell)
  BY DEF Edited, IsImage
<1>1. img.dynamic[i] \in DynCell /\ \A j \in DOMAIN img.dynamic : img.dynamic[j] \in DynCell
  BY <1>0, ImageDomains
<1>2. e \in DynCell
  BY <1>1 DEF DynCell
<1>3. [img EXCEPT !.dynamic[i].val = v] = [img EXCEPT !.dynamic = d]
  BY <1>0
<1> HIDE DEF e
<1>4. /\ DOMAIN d = DOMAIN img.dynamic /\ d[i] = e /\ d \in Seq(DynCell)
      /\ \A j \in DOMAIN img.dynamic \ {i} : d[j] = img.dynamic[j]
  BY <1>0, <1>2
<1> HIDE DEF d
<1>5. img.dynamic = <<>> => d = <<>>
  <2>1. img.dynamic # <<>>
    OBVIOUS
  <2> QED
    BY <2>1
<1>6. Addressed(img.dynamic) \subseteq Range(d)
  BY <1>4 DEF Addressed, Range
<1>7. Edited([img EXCEPT !.dynamic = d], f)
  BY <1>4, <1>5, <1>6, SetDynamicEdited
<1> QED
  BY <1>3, <1>7

(* Appending to .dynstr: the table and the offset of the new string.       *)
LEMMA AppendedCells ==
  ASSUME NEW tab, CellList(tab), NEW s \in DOMAIN Width
  PROVE  /\ CellList(DynstrAppend(tab, s).tab) /\ DynstrAppend(tab, s).tab # <<>>
         /\ DynstrAppend(tab, s).off \in Int
<1>1. CellList(Str(s)) /\ Len(Str(s)) > 0 /\ Len(Str(s)) \in Nat
  BY StrCells, WidthAssumption
<1>2. CellList(tab \o Str(s)) /\ Len(tab \o Str(s)) = Len(tab) + Len(Str(s)) /\ Len(tab) \in Nat
  BY <1>1, CellsConcat DEF CellList, IsList
<1>3. tab \o Str(s) # <<>>
  BY <1>1, <1>2, NotEmpty DEF CellList
<1> QED
  BY <1>2, <1>3 DEF DynstrAppend

(* A part of a cell list is one.                                           *)
LEMMA CellsSub ==
  ASSUME NEW s, CellList(s), NEW m \in Int, NEW n \in Int, m >= 1, n <= Len(s)
  PROVE  CellList(SubSeq(s, m, n))
<1> DEFINE l == IF m <= n THEN n - m + 1 ELSE 0
           t == SubSeq(s, m, n)
<1>1. IsList(t) /\ DOMAIN t = 1 .. l /\ \A i \in 1 .. l : t[i] = s[m + i - 1]
  BY ListSub
<1>2. DOMAIN s = 1 .. Len(s) /\ Len(s) \in Nat /\ \A i \in DOMAIN s : Formed(s[i])
  BY ListSeq DEF CellList, IsList
<1>3. ASSUME NEW i \in 1 .. l PROVE m + i - 1 \in DOMAIN s
  BY <1>2
<1> HIDE DEF t
<1> QED
  BY <1>1, <1>2, <1>3 DEF CellList, t

(* Storing into .dynstr, over the old string or at the end.                *)
LEMMA StoredCells ==
  ASSUME NEW tab, CellList(tab), NEW s \in DOMAIN Width, NEW reuse \in Int
  PROVE  /\ CellList(DynstrSet(tab, reuse, s).tab) /\ DynstrSet(tab, reuse, s).tab # <<>>
         /\ DynstrSet(tab, reuse, s).off \in Int
<1>1. CASE reuse >= 0 /\ Width[s] <= CStrLen(tab, reuse)
  <2> DEFINE head == SubSeq(tab, 1, reuse)
             tail == SubSeq(tab, reuse + Width[s] + 1, Len(tab))
             new == head \o Str(s) \o tail
  <2>1. DynstrSet(tab, reuse, s) = [tab |-> new, off |-> reuse]
    BY <1>1 DEF DynstrSet
  <2>2. Width[s] \in Nat \ {0} /\ Len(tab) \in Nat /\ DOMAIN tab = 1 .. Len(tab)
    BY WidthAssumption, ListSeq DEF CellList, IsList
  <2>3. reuse + 1 \in DOMAIN tab
    <3> SUFFICES ASSUME reuse + 1 \notin DOMAIN tab PROVE FALSE
      OBVIOUS
    <3>1. CStrLen(tab, reuse) = 0
      BY DEF CStrLen
    <3> QED
      BY <1>1, <2>2, <3>1
  <2>4. CellList(head) /\ CellList(tail)
    BY <2>2, <2>3, CellsSub
  <2>5. CellList(Str(s)) /\ Len(Str(s)) = Width[s]
    BY StrCells
  <2> HIDE DEF head, tail
  <2>6. CellList(head \o Str(s)) /\ Len(head \o Str(s)) = Len(head) + Width[s]
    BY <2>4, <2>5, CellsConcat
  <2>7. CellList(new) /\ Len(new) = Len(head) + Width[s] + Len(tail)
    BY <2>4, <2>6, CellsConcat
  <2>8. Len(head) \in Nat /\ Len(tail) \in Nat
    BY <2>4 DEF CellList, IsList
  <2>9. new # <<>>
    BY <2>2, <2>7, <2>8, NotEmpty DEF CellList
  <2> QED
    BY <2>1, <2>7, <2>9
<1>2. CASE ~(reuse >= 0 /\ Width[s] <= CStrLen(tab, reuse))
  <2>1. DynstrSet(tab, reuse, s) = DynstrAppend(tab, s)
    BY <1>2 DEF DynstrSet
  <2> QED
    BY <2>1, AppendedCells
<1> QED
  BY <1>1, <1>2

(* An edited string table, and what the edit leaves alone.                 *)
LEMMA TabEdited ==
  ASSUME NEW img, NEW f, Edited(img, f), NEW t \in DOMAIN img.shdrs,
         NEW tab, CellList(tab), tab # <<>>
  PROVE  LET edited == [img EXCEPT !.data[t] = tab]
         IN /\ Edited(edited, f) /\ edited.dynamic = img.dynamic /\ edited.ehdr = img.ehdr
            /\ edited.phdrs = img.phdrs
<1> DEFINE edited == [img EXCEPT !.data[t] = tab]
<1>1. Edited(edited, f)
  BY SetDataEdited
<1>2. edited = [img EXCEPT !.data = [img.data EXCEPT ![t] = tab]] /\ IsImage(img)
  BY DEF Edited
<1> HIDE DEF edited
<1>3. edited.dynamic = img.dynamic /\ edited.ehdr = img.ehdr /\ edited.phdrs = img.phdrs
  BY <1>2, ImageWith DEF Fields
<1> QED
  BY <1>1, <1>3 DEF edited

(* The content of a section that find_section finds.                       *)
LEMMA SectionCells ==
  ASSUME NEW img, NEW f, Edited(img, f), NEW name, FindSection(img, name) # 0
  PROVE  /\ FindSection(img, name) \in DOMAIN img.shdrs
         /\ CellList(img.data[FindSection(img, name)])
BY FindSectionIndex DEF Edited, IsImage

-----------------------------------------------------------------------------
(* set_interpreter (ops.rs).                                               *)
LEMMA SetInterpreterEdited ==
  ASSUME NEW img, NEW f, Edited(img, f), NEW s \in DOMAIN Width
  PROVE  Edited(SetInterpreter(img, s), f)
<1> DEFINE i == FindSection(img, Interp)
<1>1. CASE i = 0
  BY <1>1, FailEdited DEF SetInterpreter
<1>2. CASE i # 0
  <2>1. i \in DOMAIN img.shdrs /\ CellList(Str(s)) /\ Str(s) # <<>>
    BY <1>2, SectionCells, StrCells
  <2>2. SetInterpreter(img, s) = [img EXCEPT !.data[i] = Str(s)]
    BY <1>2 DEF SetInterpreter
  <2> QED
    BY <2>1, <2>2, SetDataEdited
<1> QED
  BY <1>1, <1>2

(* set_soname (ops.rs).                                                    *)
LEMMA SetSonameEdited ==
  ASSUME NEW img, NEW f, Edited(img, f), NEW s \in DOMAIN Width
  PROVE  Edited(SetSoname(img, s), f)
<1> DEFINE t == FindSection(img, Dynstr)
           i == FirstDyn(img, "SONAME")
           reuse == IF i = 0 THEN -1 ELSE img.dynamic[i].val
           r == DynstrSet(img.data[t], reuse, s)
           edited == [img EXCEPT !.data[t] = r.tab]
<1>1. IsImage(img)
  BY DEF Edited
<1>2. CASE img.ehdr.etype # "DYN"
  BY <1>2 DEF SetSoname
<1>3. CASE img.ehdr.etype = "DYN" /\ (~RequireDynamic(img) \/ t = 0)
  <2>1. SetSoname(img, s) = Fail(img, "missing")
    BY <1>3 DEF SetSoname
  <2> QED
    BY <2>1, FailEdited
<1>4. CASE img.ehdr.etype = "DYN" /\ RequireDynamic(img) /\ t # 0
  <2>1. t \in DOMAIN img.shdrs /\ CellList(img.data[t])
    BY <1>4, SectionCells
  <2>2. /\ i = 0 \/ i \in DOMAIN img.dynamic
        /\ i # 0 => img.dynamic[i].tag = "SONAME" /\ img.dynamic[i] \in DynCell
    BY <1>1, FirstDynIndex, ImageDomains
  <2>3. SetSoname(img, s) = IF i = 0 THEN InsertFront(edited, "SONAME", r.off)
                            ELSE [edited EXCEPT !.dynamic[i].val = r.off]
    BY <1>4 DEF SetSoname
  <2>4. reuse \in Int
    BY <2>2 DEF DynCell
  <2> HIDE DEF t, i, reuse
  <2>5. CellList(r.tab) /\ r.tab # <<>> /\ r.off \in Int
    BY <2>1, <2>4, StoredCells
  <2> HIDE DEF r
  <2>6. Edited(edited, f) /\ edited.dynamic = img.dynamic
    BY <2>1, <2>5, TabEdited
  <2> HIDE DEF edited
  <2>7. CASE i = 0
    <3>1. edited.dynamic # <<>>
      BY <1>4, <2>6 DEF RequireDynamic
    <3>2. "SONAME" \in Text
      BY DEF Text
    <3> QED
      BY <2>3, <2>5, <2>6, <2>7, <3>1, <3>2, FrontEdited
  <2>8. CASE i # 0
    <3>1. "SONAME" \notin AddrTags
      BY DEF AddrTags
    <3> QED
      BY <2>2, <2>3, <2>5, <2>6, <2>8, <3>1, ValEdited
  <2> QED
    BY <2>7, <2>8
<1> QED
  BY <1>2, <1>3, <1>4

(* add_needed (ops.rs).                                                    *)
LEMMA AddNeededEdited ==
  ASSUME NEW img, NEW f, Edited(img, f), NEW s \in DOMAIN Width
  PROVE  Edited(AddNeeded(img, s), f)
<1> DEFINE t == FindSection(img, Dynstr)
           r == DynstrAppend(img.data[t], s)
           edited == [img EXCEPT !.data[t] = r.tab]
<1>1. CASE ~RequireDynamic(img) \/ t = 0
  <2>1. AddNeeded(img, s) = Fail(img, "missing")
    BY <1>1 DEF AddNeeded
  <2> QED
    BY <2>1, FailEdited
<1>2. CASE RequireDynamic(img) /\ t # 0
  <2>1. t \in DOMAIN img.shdrs /\ CellList(img.data[t])
    BY <1>2, SectionCells
  <2>2. AddNeeded(img, s) = InsertFront(edited, "NEEDED", r.off)
    BY <1>2 DEF AddNeeded
  <2> HIDE DEF t
  <2>3. CellList(r.tab) /\ r.tab # <<>> /\ r.off \in Int
    BY <2>1, AppendedCells
  <2> HIDE DEF r
  <2>4. Edited(edited, f) /\ edited.dynamic # <<>>
    BY <1>2, <2>1, <2>3, TabEdited DEF RequireDynamic
  <2>5. "NEEDED" \in Text
    BY DEF Text
  <2> HIDE DEF edited
  <2> QED
    BY <2>2, <2>3, <2>4, <2>5, FrontEdited
<1> QED
  BY <1>1, <1>2

(* remove_needed (ops.rs).                                                 *)
LEMMA RemoveNeededEdited ==
  ASSUME NEW img, NEW f, Edited(img, f), NEW s
  PROVE  Edited(RemoveNeeded(img, s), f)
<1> DEFINE t == FindSection(img, Dynstr)
           targets == {img.dynamic[i].val : i \in NeededNamed(img, t, s)}
           dropped == {i \in DOMAIN img.dynamic :
                         img.dynamic[i].tag = "NEEDED" /\ img.dynamic[i].val \in targets}
<1>1. CASE ~RequireDynamic(img) \/ t = 0
  <2>1. RemoveNeeded(img, s) = Fail(img, "missing")
    BY <1>1 DEF RemoveNeeded
  <2> QED
    BY <2>1, FailEdited
<1>2. CASE RequireDynamic(img) /\ t # 0
  <2>1. RemoveNeeded(img, s) = [img EXCEPT !.dynamic = Retain(img.dynamic, dropped)]
    BY <1>2 DEF RemoveNeeded
  <2>2. \A i \in DOMAIN img.dynamic : i \in dropped => img.dynamic[i].tag \notin AddrTags
    BY DEF AddrTags
  <2> HIDE DEF dropped
  <2> QED
    BY <2>1, <2>2, RetainEdited
<1> QED
  BY <1>1, <1>2

(* remove (rpath.rs).                                                      *)
LEMMA RemoveRpathEdited ==
  ASSUME NEW img, NEW f, Edited(img, f)
  PROVE  Edited(RemoveRpath(img), f)
<1> DEFINE dropped == {i \in DOMAIN img.dynamic : img.dynamic[i].tag \in {"RPATH", "RUNPATH"}}
<1>1. RemoveRpath(img) = [img EXCEPT !.dynamic = Retain(img.dynamic, dropped)]
  BY DEF RemoveRpath
<1>2. \A i \in DOMAIN img.dynamic : i \in dropped => img.dynamic[i].tag \notin AddrTags
  BY DEF AddrTags
<1> HIDE DEF dropped
<1> QED
  BY <1>1, <1>2, RetainEdited

(* replace_needed (ops.rs).                                                *)
LEMMA ReplaceNeededEdited ==
  ASSUME NEW img, NEW f, Edited(img, f), NEW old, NEW s \in DOMAIN Width
  PROVE  Edited(ReplaceNeeded(img, old, s), f)
<1> DEFINE t == FindSection(img, Dynstr)
           matches == NeededNamed(img, t, old)
           r == DynstrAppend(img.data[t], s)
           edited == [img EXCEPT !.data[t] = r.tab]
           d == [i \in DOMAIN img.dynamic |->
                   IF i \in matches THEN Dyn("NEEDED", r.off) ELSE img.dynamic[i]]
<1>0. IsImage(img)
  BY DEF Edited
<1>1. CASE ~RequireDynamic(img) \/ t = 0
  <2>1. ReplaceNeeded(img, old, s) = Fail(img, "missing")
    BY <1>1 DEF ReplaceNeeded
  <2> QED
    BY <2>1, FailEdited
<1>2. CASE RequireDynamic(img) /\ t # 0 /\ matches = {}
  BY <1>2 DEF ReplaceNeeded
<1>3. CASE RequireDynamic(img) /\ t # 0 /\ matches # {}
  <2>1. t \in DOMAIN img.shdrs /\ CellList(img.data[t])
    BY <1>3, SectionCells
  <2>2. ReplaceNeeded(img, old, s) = [edited EXCEPT !.dynamic = Tuple(d)]
    BY <1>0, <1>3 DEF ReplaceNeeded
  <2>3. \A i \in matches : img.dynamic[i].tag \notin AddrTags
    BY DEF NeededNamed, AddrTags
  <2> HIDE DEF t, matches
  <2>4. CellList(r.tab) /\ r.tab # <<>> /\ r.off \in Int
    BY <2>1, AppendedCells
  <2> HIDE DEF r
  <2>5. Edited(edited, f) /\ edited.dynamic = img.dynamic
    BY <2>1, <2>4, TabEdited
  <2> HIDE DEF edited
  <2>6. Dyn("NEEDED", r.off) \in DynCell
    BY <2>4 DEF Dyn, DynCell, Text
  <2>7. ASSUME NEW i \in DOMAIN edited.dynamic
        PROVE  /\ d[i] \in DynCell
               /\ edited.dynamic[i].tag \in AddrTags => d[i] = edited.dynamic[i]
    <3>1. img.dynamic[i] \in DynCell
      BY <1>0, <2>5, ImageDomains
    <3> QED
      BY <2>3, <2>5, <2>6, <3>1
  <2>8. DOMAIN d = DOMAIN edited.dynamic /\ d = [i \in DOMAIN edited.dynamic |-> d[i]]
    BY <2>5
  <2> HIDE DEF d
  <2>9. Edited([edited EXCEPT !.dynamic = Tuple(d)], f)
    BY <2>5, <2>7, <2>8, MapDynamicEdited
  <2> QED
    BY <2>2, <2>9
<1> QED
  BY <1>1, <1>2, <1>3

(* set (rpath.rs).                                                         *)
LEMMA SetRpathEdited ==
  ASSUME NEW img, NEW f, Edited(img, f), NEW s \in DOMAIN Width, NEW force
  PROVE  Edited(SetRpath(img, s, force), f)
<1> DEFINE t == FindSection(img, Dynstr)
           existing == Live(img, {"RPATH", "RUNPATH"})
           hasRunpath == \E i \in existing : img.dynamic[i].tag = "RUNPATH"
           to == IF force THEN "RPATH" ELSE "RUNPATH"
           convert == IF force THEN hasRunpath ELSE ~hasRunpath
           reuse == IF existing = {} THEN -1 ELSE img.dynamic[Min(existing)].val
           r == DynstrSet(img.data[t], reuse, s)
           edited == [img EXCEPT !.data[t] = r.tab]
           d == [i \in DOMAIN img.dynamic |->
                   IF i \in existing
                   THEN Dyn(IF convert THEN to ELSE img.dynamic[i].tag, r.off)
                   ELSE img.dynamic[i]]
<1>0. IsImage(img)
  BY DEF Edited
<1>1. CASE ~RequireDynamic(img) \/ t = 0
  <2>1. SetRpath(img, s, force) = Fail(img, "missing")
    BY <1>1 DEF SetRpath
  <2> QED
    BY <2>1, FailEdited
<1>2. CASE RequireDynamic(img) /\ t # 0
  <2>1. t \in DOMAIN img.shdrs /\ CellList(img.data[t])
    BY <1>2, SectionCells
  <2>2. /\ existing = {} => SetRpath(img, s, force) = InsertFront(edited, to, r.off)
        /\ existing # {} => SetRpath(img, s, force)
             = [edited EXCEPT !.dynamic = Tuple([i \in DOMAIN edited.dynamic |->
                   IF i \in existing
                   THEN Dyn(IF convert THEN to ELSE edited.dynamic[i].tag, r.off)
                   ELSE edited.dynamic[i]])]
    BY <1>2 DEF SetRpath
  <2>3. existing \subseteq DOMAIN img.dynamic
        /\ \A i \in existing : img.dynamic[i].tag \notin AddrTags
    BY DEF Live, AddrTags
  <2>4. to \in Text
    BY DEF Text
  <2> HIDE DEF t, existing, to, hasRunpath
  <2>5. reuse \in Int
    <3>1. CASE existing # {}
      <4>1. existing \subseteq 1 .. Len(img.dynamic) /\ Len(img.dynamic) \in Nat
        BY <1>0, <2>3, ImageDomains
      <4>2. Min(existing) \in DOMAIN img.dynamic
        BY <2>3, <3>1, <4>1, LeastIndex
      <4>3. img.dynamic[Min(existing)] \in DynCell
        BY <1>0, <4>2, ImageDomains
      <4> QED
        BY <4>3 DEF DynCell
    <3> QED
      BY <3>1
  <2> HIDE DEF reuse
  <2>6. CellList(r.tab) /\ r.tab # <<>> /\ r.off \in Int
    BY <2>1, <2>5, StoredCells
  <2> HIDE DEF r
  <2>7. Edited(edited, f) /\ edited.dynamic = img.dynamic
    BY <2>1, <2>6, TabEdited
  <2> HIDE DEF edited
  <2>8. CASE existing = {}
    <3>1. edited.dynamic # <<>>
      BY <1>2, <2>7 DEF RequireDynamic
    <3> QED
      BY <2>2, <2>4, <2>6, <2>7, <2>8, <3>1, FrontEdited
  <2>9. CASE existing # {}
    <3>1. SetRpath(img, s, force) = [edited EXCEPT !.dynamic = Tuple(d)]
      BY <2>2, <2>7, <2>9
    <3>2. ASSUME NEW i \in DOMAIN edited.dynamic
          PROVE  /\ d[i] \in DynCell
                 /\ edited.dynamic[i].tag \in AddrTags => d[i] = edited.dynamic[i]
      <4>1. img.dynamic[i] \in DynCell /\ img.dynamic[i].tag \in Text
        BY <1>0, <2>7, ImageDomains DEF DynCell
      <4>2. \A tag \in Text : Dyn(tag, r.off) \in DynCell
        BY <2>6 DEF Dyn, DynCell
      <4> QED
        BY <2>3, <2>4, <2>7, <4>1, <4>2
    <3>3. DOMAIN d = DOMAIN edited.dynamic /\ d = [i \in DOMAIN edited.dynamic |-> d[i]]
      BY <2>7
    <3> HIDE DEF d
    <3>4. Edited([edited EXCEPT !.dynamic = Tuple(d)], f)
      BY <2>7, <3>2, <3>3, MapDynamicEdited
    <3> QED
      BY <3>1, <3>4
  <2> QED
    BY <2>8, <2>9
<1> QED
  BY <1>1, <1>2

(* Joining directories makes a string the tables can hold.                 *)
LEMMA JoinedWidth ==
  ASSUME NEW dirs
  PROVE  JoinDirs(dirs) \in DOMAIN Width
<1> DEFINE names == {s \in DOMAIN Dirs : Dirs[s] = dirs}
<1>1. CASE names = {}
  <2>1. JoinDirs(dirs) = ""
    BY <1>1 DEF JoinDirs
  <2> QED
    BY <2>1, RepatchAssumption
<1>2. CASE names # {}
  <2>1. JoinDirs(dirs) = CHOOSE s \in names : TRUE
    BY <1>2 DEF JoinDirs
  <2>2. (CHOOSE s \in names : TRUE) \in names
    <3> HIDE DEF names
    <3> QED
      BY <1>2
  <2>3. names \subseteq DOMAIN Dirs
    OBVIOUS
  <2> QED
    BY <2>1, <2>2, <2>3, RepatchAssumption
<1> QED
  BY <1>1, <1>2

(* add (rpath.rs).                                                         *)
LEMMA AddRpathEdited ==
  ASSUME NEW img, NEW f, Edited(img, f), NEW dir, NEW force
  PROVE  Edited(AddRpath(img, dir, force), f)
<1>1. CASE ~RequireDynamic(img) \/ FindSection(img, Dynstr) = 0
  <2>1. AddRpath(img, dir, force) = Fail(img, "missing")
    BY <1>1 DEF AddRpath
  <2> QED
    BY <2>1, FailEdited
<1>2. CASE RequireDynamic(img) /\ FindSection(img, Dynstr) # 0
  <2>1. AddRpath(img, dir, force)
          = SetRpath(img, JoinDirs(Append(Dirs[ReadRpath(img)], dir)), force)
    BY <1>2 DEF AddRpath
  <2> QED
    BY <2>1, JoinedWidth, SetRpathEdited
<1> QED
  BY <1>1, <1>2

(* shrink (rpath.rs).                                                      *)
LEMMA ShrinkRpathEdited ==
  ASSUME NEW img, NEW f, Edited(img, f), NEW allowed, NEW force
  PROVE  Edited(ShrinkRpath(img, allowed, force), f)
<1> DEFINE t == FindSection(img, Dynstr)
           none == Live(img, {"RPATH", "RUNPATH"}) = {}
           new == JoinDirs(FilterDirs(Dirs[ReadRpath(img)], NeededLibs(img), allowed))
<1>1. /\ Edited(Fail(img, "missing"), f)
      /\ new \in DOMAIN Width
  BY FailEdited, JoinedWidth
<1>2. Edited(SetRpath(img, new, force), f)
  <2> HIDE DEF new
  <2> QED
    BY <1>1, SetRpathEdited
<1>3. \/ ShrinkRpath(img, allowed, force) = Fail(img, "missing")
      \/ ShrinkRpath(img, allowed, force) = img
      \/ ShrinkRpath(img, allowed, force) = SetRpath(img, new, force)
  <2>1. CASE ~RequireDynamic(img)
    BY <2>1 DEF ShrinkRpath
  <2>2. CASE RequireDynamic(img) /\ ~none /\ t = 0
    BY <2>2 DEF ShrinkRpath
  <2>3. CASE RequireDynamic(img) /\ (none \/ (t # 0 /\ ReadRpath(img) = ""))
    BY <2>3 DEF ShrinkRpath
  <2>4. CASE RequireDynamic(img) /\ ~none /\ t # 0 /\ ReadRpath(img) # ""
    BY <2>4 DEF ShrinkRpath
  <2> QED
    BY <2>1, <2>2, <2>3, <2>4
<1> HIDE DEF new
<1> QED
  BY <1>1, <1>2, <1>3

(* no_default_lib (ops.rs).                                                *)
LEMMA NoDefaultLibEdited ==
  ASSUME NEW img, NEW f, Edited(img, f)
  PROVE  Edited(NoDefaultLib(img), f)
<1> DEFINE i == FirstDyn(img, "FLAGS_1")
<1>0. IsImage(img)
  BY DEF Edited
<1>1. CASE ~RequireDynamic(img)
  <2>1. NoDefaultLib(img) = Fail(img, "missing")
    BY <1>1 DEF NoDefaultLib
  <2> QED
    BY <2>1, FailEdited
<1>2. CASE RequireDynamic(img) /\ i = 0
  <2>1. NoDefaultLib(img) = InsertFront(img, "FLAGS_1", NODEFLIB)
    BY <1>2 DEF NoDefaultLib
  <2>2. "FLAGS_1" \in Text /\ NODEFLIB \in Int
    BY DEF Text, NODEFLIB
  <2> QED
    BY <1>2, <2>1, <2>2, FrontEdited DEF RequireDynamic
<1>3. CASE RequireDynamic(img) /\ i # 0
  <2> DEFINE val == img.dynamic[i].val
             new == IF (val \div NODEFLIB) % 2 = 1 THEN val ELSE val + NODEFLIB
  <2>1. NoDefaultLib(img) = [img EXCEPT !.dynamic[i].val = new]
    BY <1>3 DEF NoDefaultLib
  <2>2. i \in DOMAIN img.dynamic /\ img.dynamic[i].tag = "FLAGS_1"
    BY <1>0, <1>3, FirstDynIndex
  <2>3. "FLAGS_1" \notin AddrTags
    BY DEF AddrTags
  <2>4. new \in Int
    <3>1. img.dynamic[i] \in DynCell
      BY <1>0, <2>2, ImageDomains
    <3>2. val \in Int
      BY <3>1 DEF DynCell
    <3> QED
      BY <3>2 DEF NODEFLIB
  <2> HIDE DEF i, new
  <2> QED
    BY <2>1, <2>2, <2>3, <2>4, ValEdited
<1> QED
  BY <1>1, <1>2, <1>3

(* add_debug_tag (ops.rs).                                                 *)
LEMMA AddDebugTagEdited ==
  ASSUME NEW img, NEW f, Edited(img, f)
  PROVE  Edited(AddDebugTag(img), f)
<1>1. CASE ~RequireDynamic(img)
  <2>1. AddDebugTag(img) = Fail(img, "missing")
    BY <1>1 DEF AddDebugTag
  <2> QED
    BY <2>1, FailEdited
<1>2. CASE RequireDynamic(img) /\ FirstDyn(img, "DEBUG") # 0
  BY <1>2 DEF AddDebugTag
<1>3. CASE RequireDynamic(img) /\ FirstDyn(img, "DEBUG") = 0
  <2>1. AddDebugTag(img) = InsertFront(img, "DEBUG", 0)
    BY <1>3 DEF AddDebugTag
  <2>2. "DEBUG" \in Text
    BY DEF Text
  <2> QED
    BY <1>3, <2>1, <2>2, FrontEdited DEF RequireDynamic
<1> QED
  BY <1>1, <1>2, <1>3

(* set_os_abi (ops.rs).                                                    *)
LEMMA SetOsAbiEdited ==
  ASSUME NEW img, NEW f, Edited(img, f), NEW name
  PROVE  Edited(SetOsAbi(img, name), f)
<1>1. CASE name \notin Abis
  <2>1. SetOsAbi(img, name) = Fail(img, "cli")
    BY <1>1 DEF SetOsAbi
  <2> QED
    BY <2>1, FailEdited
<1>2. CASE name \in Abis
  <2>1. SetOsAbi(img, name) = [img EXCEPT !.ehdr.abi = name]
    BY <1>2 DEF SetOsAbi
  <2>2. name \in Text
    BY <1>2, RepatchAssumption DEF Text
  <2> QED
    BY <2>1, <2>2, SetEhdrEdited
<1> QED
  BY <1>1, <1>2

-----------------------------------------------------------------------------
(* A program header of a kind that maps nothing put in a slot, or added.   *)
LEMMA PhdrEdited ==
  ASSUME NEW img, NEW f, Edited(img, f), NEW p \in PhdrCell, p.type \notin {"LOAD", "DYNAMIC"}
  PROVE  /\ Edited([img EXCEPT !.phdrs = Append(img.phdrs, p)], f)
         /\ \A g \in DOMAIN img.phdrs : Edited([img EXCEPT !.phdrs = [img.phdrs EXCEPT ![g] = p]], f)
<1>1. img.phdrs \in Seq(PhdrCell) /\ DOMAIN img.phdrs = 1 .. Len(img.phdrs) /\ Len(img.phdrs) \in Nat
  BY DEF Edited, IsImage
<1>2. Edited([img EXCEPT !.phdrs = Append(img.phdrs, p)], f)
  <2> DEFINE new == Append(img.phdrs, p)
  <2>1. /\ new \in Seq(PhdrCell) /\ DOMAIN new = 1 .. Len(img.phdrs) + 1
        /\ \A i \in 1 .. Len(img.phdrs) : new[i] = img.phdrs[i]
        /\ new[Len(img.phdrs) + 1] = p
    BY <1>1
  <2> HIDE DEF new
  <2>2. ASSUME NEW q \in Mapped(new) PROVE q \in Mapped(img.phdrs)
    <3>1. PICK i \in 1 .. Len(img.phdrs) + 1 : q = new[i]
      BY <2>1 DEF Mapped, Range
    <3>2. q.type \in {"LOAD", "DYNAMIC"}
      BY DEF Mapped
    <3>3. i \in 1 .. Len(img.phdrs)
      BY <1>1, <2>1, <3>1, <3>2
    <3> QED
      BY <1>1, <2>1, <3>1, <3>2, <3>3 DEF Mapped, Range
  <2>3. Edited([img EXCEPT !.phdrs = new], f)
    BY <2>1, <2>2, SetPhdrsEdited
  <2> QED
    BY <2>3 DEF new
<1>3. ASSUME NEW g \in DOMAIN img.phdrs
      PROVE  Edited([img EXCEPT !.phdrs = [img.phdrs EXCEPT ![g] = p]], f)
  <2> DEFINE new == [img.phdrs EXCEPT ![g] = p]
  <2>1. /\ new \in Seq(PhdrCell) /\ DOMAIN new = DOMAIN img.phdrs /\ new[g] = p
        /\ \A i \in DOMAIN img.phdrs \ {g} : new[i] = img.phdrs[i]
    BY <1>1
  <2> HIDE DEF new
  <2>2. ASSUME NEW q \in Mapped(new) PROVE q \in Mapped(img.phdrs)
    BY <2>1 DEF Mapped, Range
  <2>3. Edited([img EXCEPT !.phdrs = new], f)
    BY <2>1, <2>2, SetPhdrsEdited
  <2> QED
    BY <2>3 DEF new
<1> QED
  BY <1>2, <1>3

(* modify_execstack (ops.rs).                                              *)
LEMMA SetExecstackEdited ==
  ASSUME NEW img, NEW f, Edited(img, f), NEW set
  PROVE  Edited(SetExecstack(img, set), f)
<1> DEFINE withX(flags) == IF set THEN flags \cup {"X"} ELSE flags \ {"X"}
           G == {i \in 1 .. Len(img.phdrs) : img.phdrs[i].type = "GNU_STACK"}
           N == {i \in 1 .. Len(img.phdrs) : img.phdrs[i].type = "NULL"}
           g == IF G # {} THEN Min(G) ELSE 0
           n == IF N # {} THEN Min(N) ELSE 0
           new == Phdr("GNU_STACK", withX({"R", "W"}), 0, 0, 0, 0, 1)
<1>0. IsImage(img) /\ DOMAIN img.phdrs = 1 .. Len(img.phdrs) /\ Len(img.phdrs) \in Nat
  BY ImageDomains DEF Edited
<1>1. /\ g # 0 => SetExecstack(img, set)
                    = [img EXCEPT !.phdrs = [img.phdrs EXCEPT ![g] =
                         [img.phdrs[g] EXCEPT !.flags = withX(img.phdrs[g].flags)]]]
      /\ g = 0 /\ n # 0 => SetExecstack(img, set) = [img EXCEPT !.phdrs = [img.phdrs EXCEPT ![n] = new]]
      /\ g = 0 /\ n = 0 => SetExecstack(img, set) = [img EXCEPT !.phdrs = Append(img.phdrs, new)]
  BY <1>0 DEF SetExecstack, SelectInSeq
<1>2. new \in PhdrCell /\ new.type = "GNU_STACK"
  BY DEF Phdr, PhdrCell, Text
<1> HIDE DEF new
<1>3. G \subseteq 1 .. Len(img.phdrs) /\ N \subseteq 1 .. Len(img.phdrs)
      /\ \A i \in G : img.phdrs[i].type = "GNU_STACK"
  OBVIOUS
<1> HIDE DEF G, N
<1>4. (g # 0 => g \in G /\ g \in DOMAIN img.phdrs) /\ (n # 0 => n \in DOMAIN img.phdrs)
  BY <1>0, <1>3, LeastIndex
<1> HIDE DEF g, n
<1>5. CASE g # 0
  <2> DEFINE p == [img.phdrs[g] EXCEPT !.flags = withX(img.phdrs[g].flags)]
  <2>1. img.phdrs[g] \in PhdrCell /\ img.phdrs[g].type = "GNU_STACK"
    BY <1>0, <1>3, <1>4, <1>5, ImageDomains
  <2>2. p \in PhdrCell /\ p.type = "GNU_STACK"
    BY <2>1 DEF PhdrCell, Text
  <2> HIDE DEF p
  <2>3. Edited([img EXCEPT !.phdrs = [img.phdrs EXCEPT ![g] = p]], f)
    BY <1>4, <1>5, <2>2, PhdrEdited
  <2> QED
    BY <1>1, <1>5, <2>3 DEF p
<1>6. CASE g = 0 /\ n # 0
  <2>1. n \in DOMAIN img.phdrs
    BY <1>4, <1>6
  <2>2. Edited([img EXCEPT !.phdrs = [img.phdrs EXCEPT ![n] = new]], f)
    BY <1>2, <2>1, PhdrEdited
  <2> QED
    BY <1>1, <1>6, <2>2
<1>7. CASE g = 0 /\ n = 0
  <2>1. Edited([img EXCEPT !.phdrs = Append(img.phdrs, new)], f)
    BY <1>2, PhdrEdited
  <2> QED
    BY <1>1, <1>7, <2>1
<1> QED
  BY <1>5, <1>6, <1>7

(* set_bytes (stub.rs).                                                    *)
LEMMA SetEntryStubEdited ==
  ASSUME NEW img, NEW f, Edited(img, f), NEW id \in DOMAIN Width
  PROVE  Edited(SetEntryStub(img, id), f)
<1> DEFINE i == FindSection(img, Stub)
           entry == IF i = 0 THEN img.ehdr.entry ELSE img.data[i][1].entry
           saved == <<SavedCell(entry)>>
           blob == saved \o Code(id)
<1>1. CellList(saved) /\ Len(saved) = 1
  <2>1. Formed(SavedCell(entry))
    BY DEF Formed, SavedCell
  <2>2. \A c : IsList(<<c>>) /\ DOMAIN <<c>> = {1} /\ <<c>>[1] = c /\ Len(<<c>>) = 1
    <3> TAKE c
    <3>1. <<c>> \in Seq({c})
      OBVIOUS
    <3>2. DOMAIN <<c>> = {1} /\ <<c>>[1] = c /\ Len(<<c>>) = 1
      OBVIOUS
    <3> QED
      BY <3>1, <3>2, SeqList
  <2> QED
    BY <2>1, <2>2 DEF CellList
<1>2. \/ SetEntryStub(img, id) = Fail(img, "unsupported")
      \/ i # 0 /\ SetEntryStub(img, id) = ReplaceSection(img, i, blob)
      \/ i = 0 /\ SetEntryStub(img, id) = PushSection(img, Stub, "PROGBITS", {"A", "X"}, 2, blob)
  BY DEF SetEntryStub
<1>3. i # 0 => i \in DOMAIN img.shdrs
  BY SectionCells
<1> HIDE DEF i, saved
<1>4. CellList(Code(id))
  BY StrCells
<1>5. CellList(blob) /\ Len(blob) = 1 + Len(Code(id)) /\ Len(Code(id)) \in Nat
  <2>1. CellList(saved \o Code(id)) /\ Len(saved \o Code(id)) = 1 + Len(Code(id))
    BY <1>1, <1>4, CellsConcat
  <2>2. Len(Code(id)) \in Nat
    BY <1>4 DEF CellList, IsList
  <2> QED
    BY <2>1, <2>2
<1>6. blob # <<>>
  BY <1>5, NotEmpty DEF CellList
<1> HIDE DEF blob
<1>7. ASSUME i # 0 PROVE Edited(ReplaceSection(img, i, blob), f)
  BY <1>3, <1>5, <1>6, <1>7, ReplaceSectionEdited
<1>8. Edited(PushSection(img, Stub, "PROGBITS", {"A", "X"}, 2, blob), f)
  <2>1. "PROGBITS" \in Text /\ {"A", "X"} \in SUBSET Text
    BY DEF Text
  <2> QED
    BY <1>5, <1>6, <2>1, PushSectionEdited
<1>9. Edited(Fail(img, "unsupported"), f)
  BY FailEdited
<1> QED
  BY <1>2, <1>7, <1>8, <1>9

(* build (ldcache.rs).                                                     *)
LEMMA BuildCacheEdited ==
  ASSUME NEW img, NEW f, Edited(img, f), NEW id \in DOMAIN Width \cup {"none"}
  PROVE  Edited(BuildCache(img, id), f)
<1> DEFINE i == FindSection(img, LdCache)
           pushed == PushSection(img, LdCache, "NOTE", {"A"}, 1, Note(id))
           p == Phdr("NOTE", {"R"}, 0, 0, 0, 0, 1)
<1>1. \/ BuildCache(img, id) = Fail(img, "missing")
      \/ BuildCache(img, id) = img
      \/ /\ id # "none"
         /\ BuildCache(img, id) =
              IF i # 0 THEN IF img.data[i] = Note(id) THEN img
                            ELSE ReplaceSection(img, i, Note(id))
              ELSE IF pushed.err # "none" THEN pushed
              ELSE [pushed EXCEPT !.phdrs = Append(pushed.phdrs, p)]
  <2> DEFINE t == FindSection(img, Dynstr)
             r == FirstDyn(img, IF FirstDyn(img, "RUNPATH") # 0 THEN "RUNPATH" ELSE "RPATH")
             readable == RequireDynamic(img) /\ (t # 0 \/ DynIdx(img) = 0)
             nothing == \/ id = "none"
                        \/ Live(img, {"NEEDED"}) = {}
                        \/ r = 0
                        \/ t # 0 /\ CStr(img.data[t], img.dynamic[r].val)[1] = ""
  <2>1. CASE ~readable
    BY <2>1 DEF BuildCache
  <2>2. CASE readable /\ nothing
    BY <2>2 DEF BuildCache
  <2>3. CASE readable /\ ~nothing
    BY <2>3 DEF BuildCache
  <2> QED
    BY <2>1, <2>2, <2>3
<1>2. Edited(Fail(img, "missing"), f)
  BY FailEdited
<1>3. i # 0 => i \in DOMAIN img.shdrs
  BY SectionCells
<1>4. p \in PhdrCell /\ p.type = "NOTE"
  BY DEF Phdr, PhdrCell, Text
<1> HIDE DEF i, p
<1>5. ASSUME id \in DOMAIN Width PROVE CellList(Note(id)) /\ Note(id) # <<>>
  BY <1>5, StrCells
<1>6. ASSUME id \in DOMAIN Width PROVE Edited(pushed, f)
  <2>1. "NOTE" \in Text /\ {"A"} \in SUBSET Text
    BY DEF Text
  <2> QED
    BY <1>5, <1>6, <2>1, PushSectionEdited
<1> HIDE DEF pushed
<1>7. ASSUME id \in DOMAIN Width PROVE Edited([pushed EXCEPT !.phdrs = Append(pushed.phdrs, p)], f)
  BY <1>4, <1>6, <1>7, PhdrEdited
<1>8. ASSUME id \in DOMAIN Width, i # 0 PROVE Edited(ReplaceSection(img, i, Note(id)), f)
  BY <1>3, <1>5, <1>8, ReplaceSectionEdited
<1> QED
  BY <1>1, <1>2, <1>6, <1>7, <1>8

-----------------------------------------------------------------------------
(* Every operation of the command line keeps the image fit to be laid out. *)
LEMMA ApplyEdited ==
  ASSUME NEW img, NEW f, Edited(img, f), NEW op, ValidOp(op)
  PROVE  Edited(Apply(img, op), f)
<1>1. CASE img.err # "none"
  BY <1>1 DEF Apply
<1>2. CASE img.err = "none"
  <2>1. CASE op.op = "set_interpreter"
    BY <1>2, <2>1, SetInterpreterEdited DEF Apply, ValidOp
  <2>2. CASE op.op = "set_rpath"
    BY <1>2, <2>2, SetRpathEdited DEF Apply, ValidOp
  <2>3. CASE op.op = "add_rpath"
    BY <1>2, <2>3, AddRpathEdited DEF Apply
  <2>4. CASE op.op = "shrink_rpath"
    BY <1>2, <2>4, ShrinkRpathEdited DEF Apply
  <2>5. CASE op.op = "remove_rpath"
    BY <1>2, <2>5, RemoveRpathEdited DEF Apply
  <2>6. CASE op.op = "set_soname"
    BY <1>2, <2>6, SetSonameEdited DEF Apply, ValidOp
  <2>7. CASE op.op = "add_needed"
    BY <1>2, <2>7, AddNeededEdited DEF Apply, ValidOp
  <2>8. CASE op.op = "remove_needed"
    BY <1>2, <2>8, RemoveNeededEdited DEF Apply
  <2>9. CASE op.op = "replace_needed"
    BY <1>2, <2>9, ReplaceNeededEdited DEF Apply, ValidOp
  <2>10. CASE op.op = "no_default_lib"
    BY <1>2, <2>10, NoDefaultLibEdited DEF Apply
  <2>11. CASE op.op = "debug_tag"
    BY <1>2, <2>11, AddDebugTagEdited DEF Apply
  <2>12. CASE op.op = "set_os_abi"
    BY <1>2, <2>12, SetOsAbiEdited DEF Apply
  <2>13. CASE op.op = "execstack"
    BY <1>2, <2>13, SetExecstackEdited DEF Apply
  <2>14. CASE op.op = "entry_stub"
    BY <1>2, <2>14, SetEntryStubEdited DEF Apply, ValidOp
  <2>15. CASE op.op = "cache"
    BY <1>2, <2>15, BuildCacheEdited DEF Apply, ValidOp
  <2> QED
    BY <2>1, <2>2, <2>3, <2>4, <2>5, <2>6, <2>7, <2>8, <2>9, <2>10, <2>11, <2>12, <2>13,
       <2>14, <2>15 DEF ValidOp
<1> QED
  BY <1>1, <1>2

(* A list of elements of S is a sequence over S.                           *)
LEMMA ListTyped ==
  ASSUME NEW s, IsList(s), NEW S, \A i \in DOMAIN s : s[i] \in S
  PROVE  s \in Seq(S)
<1>1. PICK n \in Nat : n = Len(s)
  BY DEF IsList
<1>2. DOMAIN s = 1 .. n /\ s = [i \in 1 .. n |-> s[i]]
  BY <1>1, ListSeq DEF IsList
<1>3. s \in [1 .. n -> S]
  BY <1>2
<1> QED
  BY <1>3

(* And so does every list of operations, whatever its length and order.    *)
LEMMA ApplyAllEdited ==
  ASSUME NEW img, NEW f, Edited(img, f), NEW ops, Len(ops) \in Nat, DOMAIN ops = 1 .. Len(ops),
         \A i \in DOMAIN ops : ValidOp(ops[i])
  PROVE  Edited(ApplyAll(img, ops), f)
<1> DEFINE IsRun(g, m) == g = [n \in 0 .. m |-> IF n = 0 THEN img ELSE Apply(g[n - 1], ops[n])]
           P == {m \in 0 .. Len(ops) : \E g : IsRun(g, m)}
           after == CHOOSE g : IsRun(g, Len(ops))
           Q == {m \in 0 .. Len(ops) : Edited(after[m], f)}
<1>1. 0 \in P
  <2>1. IsRun([n \in 0 .. 0 |-> img], 0)
    OBVIOUS
  <2>2. 0 \in 0 .. Len(ops)
    OBVIOUS
  <2> HIDE DEF IsRun
  <2> QED
    BY <2>1, <2>2
<1>2. ASSUME NEW m \in 0 .. Len(ops) - 1, m \in P PROVE m + 1 \in P
  <2>1. PICK g : IsRun(g, m)
    BY <1>2
  <2> DEFINE h == [n \in 0 .. m + 1 |-> IF n <= m THEN g[n] ELSE Apply(g[m], ops[m + 1])]
  <2>2. ASSUME NEW n \in 0 .. m + 1
        PROVE  h[n] = IF n = 0 THEN img ELSE Apply(h[n - 1], ops[n])
    <3>1. CASE n = 0
      <4>1. h[0] = g[0] /\ g[0] = img
        <5>1. 0 \in 0 .. m /\ 0 \in 0 .. m + 1
          OBVIOUS
        <5>2. g[0] = img
          BY <2>1, <5>1
        <5> QED
          BY <5>1, <5>2
      <4> QED
        BY <3>1, <4>1
    <3>2. CASE n # 0 /\ n <= m
      <4>1. n - 1 \in 0 .. m /\ n \in 0 .. m /\ h[n] = g[n] /\ h[n - 1] = g[n - 1]
        BY <3>2
      <4>2. g[n] = Apply(g[n - 1], ops[n])
        BY <2>1, <3>2, <4>1
      <4> QED
        BY <3>2, <4>1, <4>2
    <3>3. CASE n = m + 1
      <4>1. n - 1 = m /\ h[m] = g[m] /\ h[n] = Apply(g[m], ops[m + 1])
        BY <3>3
      <4> QED
        BY <3>3, <4>1
    <3> QED
      BY <3>1, <3>2, <3>3
  <2>3. h = [n \in 0 .. m + 1 |-> h[n]]
    OBVIOUS
  <2> HIDE DEF h
  <2>4. IsRun(h, m + 1)
    BY <2>2, <2>3
  <2>5. m + 1 \in 0 .. Len(ops)
    OBVIOUS
  <2> QED
    BY <2>4, <2>5
<1>3. \E g : IsRun(g, Len(ops))
  <2>1. \A m \in 0 .. Len(ops) : m \in P
    <3> HIDE DEF P
    <3> QED
      BY <1>1, <1>2, InductionUpTo
  <2>2. Len(ops) \in P
    <3> HIDE DEF P
    <3> QED
      BY <2>1
  <2> QED
    BY <2>2
<1>4. IsRun(after, Len(ops))
  <2> HIDE DEF IsRun
  <2> QED
    BY <1>3
<1>5. ApplyAll(img, ops) = after[Len(ops)]
  BY DEF ApplyAll
<1> HIDE DEF after
<1>6. \A n \in 0 .. Len(ops) : after[n] = IF n = 0 THEN img ELSE Apply(after[n - 1], ops[n])
  BY <1>4
<1>7. 0 \in Q
  BY <1>6
<1>8. ASSUME NEW m \in 0 .. Len(ops) - 1, m \in Q PROVE m + 1 \in Q
  <2>1. m + 1 \in 0 .. Len(ops) /\ m + 1 # 0 /\ (m + 1) - 1 = m /\ m + 1 \in DOMAIN ops
    OBVIOUS
  <2>2. after[m + 1] = Apply(after[m], ops[m + 1])
    BY <1>6, <2>1
  <2>3. Edited(after[m], f) /\ ValidOp(ops[m + 1])
    BY <1>8, <2>1
  <2>4. Edited(after[m + 1], f)
    BY <2>2, <2>3, ApplyEdited
  <2> QED
    BY <2>1, <2>4
<1>9. \A m \in 0 .. Len(ops) : m \in Q
  <2> HIDE DEF Q
  <2> QED
    BY <1>7, <1>8, InductionUpTo
<1>10. Len(ops) \in 0 .. Len(ops)
  OBVIOUS
<1> QED
  BY <1>5, <1>9, <1>10

-----------------------------------------------------------------------------
(* Cells read from a file are cells.                                       *)
LEMMA SliceCells ==
  ASSUME NEW f, CellList(f), NEW off \in Nat, NEW len \in Nat, off + len <= Len(f)
  PROVE  CellList(Slice(f, off, len)) /\ Len(Slice(f, off, len)) = len
<1>1. CellList(SubSeq(f, off + 1, off + len))
  <2>1. off + 1 \in Int /\ off + len \in Int /\ off + 1 >= 1
    OBVIOUS
  <2> QED
    BY <2>1, CellsSub
<1> QED
  BY <1>1, SliceList DEF Slice

(* read_dynamic returns dynamic entries, none of nothing.                  *)
LEMMA DynArrayTyped ==
  ASSUME NEW cells, CellList(cells)
  PROVE  /\ ReadDynArray(cells) \in Seq(DynCell)
         /\ cells = <<>> => ReadDynArray(cells) = <<>>
<1> DEFINE e == [i \in DOMAIN cells |-> ReadDyn(cells[i])]
           entries == Tuple(e)
           N == {i \in 1 .. Len(entries) : entries[i].tag = "NULL"}
           null == IF N # {} THEN Min(N) ELSE 0
<1>1. IsList(cells) /\ DOMAIN cells = 1 .. Len(cells) /\ Len(cells) \in Nat
  BY ListSeq DEF CellList, IsList
<1>2. ASSUME NEW i \in DOMAIN cells PROVE ReadDyn(cells[i]) \in DynCell
  <2>1. CASE cells[i] = Zero
    BY <2>1 DEF ReadDyn, Zero, Dyn, DynCell, Text
  <2>2. CASE cells[i] # Zero /\ cells[i].k = "dyn"
    BY <2>2 DEF ReadDyn, CellList, Formed
  <2>3. CASE cells[i] # Zero /\ cells[i].k # "dyn"
    <3>1. ReadDyn(cells[i]) = Dyn("garbage", 0)
      BY <2>3 DEF ReadDyn
    <3> QED
      BY <3>1 DEF Dyn, DynCell, Text
  <2> QED
    BY <2>1, <2>2, <2>3
<1>3. /\ DOMAIN e = DOMAIN cells /\ e = [i \in DOMAIN cells |-> e[i]]
      /\ \A i \in DOMAIN cells : e[i] \in DynCell
  BY <1>2
<1> HIDE DEF e
<1>4. IsList(e) /\ entries = e /\ Len(e) = Len(cells) /\ DOMAIN e = 1 .. Len(cells)
  BY <1>1, <1>3, ListMap
<1>5. e \in Seq(DynCell)
  BY <1>3, <1>4, ListTyped
<1>6. ReadDynArray(cells) = IF null = 0 THEN entries ELSE SubSeq(entries, 1, null)
  BY DEF ReadDynArray, SelectInSeq, e
<1>7. null = 0 \/ null \in 1 .. Len(cells)
  <2>1. N \subseteq 1 .. Len(cells)
    BY <1>4
  <2> HIDE DEF N
  <2> QED
    BY <1>1, <2>1, LeastIndex
<1> HIDE DEF null, entries
<1>8. null # 0 => SubSeq(entries, 1, null) \in Seq(DynCell)
  BY <1>1, <1>4, <1>5, <1>7
<1>9. cells = <<>> => null = 0 /\ e = <<>>
  <2> SUFFICES ASSUME cells = <<>> PROVE null = 0 /\ e = <<>>
    OBVIOUS
  <2>1. Len(cells) = 0
    BY <1>1, NotEmpty
  <2> QED
    BY <1>4, <1>5, <1>7, <2>1
<1> QED
  BY <1>4, <1>5, <1>6, <1>8, <1>9

(* What a coherent file is made of.                                         *)
LEMMA CoherentCells ==
  ASSUME NEW f, Coherent(f)
  PROVE  /\ CellList(f) /\ Len(f) \in Nat /\ Len(f) >= 1 /\ DOMAIN f = 1 .. Len(f)
         /\ f[1] \in EhdrCell
         /\ Phdrs(f) \in Seq(PhdrCell) /\ Shdrs(f) \in Seq(ShdrCell)
<1>1. CellList(f) /\ Len(f) \in Nat /\ DOMAIN f = 1 .. Len(f)
  <2>1. IsList(f)
    BY DEF Coherent, IsList
  <2> QED
    BY <2>1, ListSeq DEF Coherent, CellList, IsList
<1>2. TablesFit(f)
  BY DEF Coherent
<1>3. Len(f) >= 1 /\ 1 \in DOMAIN f /\ f[1].k = "ehdr"
  BY <1>1, <1>2 DEF TablesFit
<1>4. f[1] \in EhdrCell
  BY <1>1, <1>3 DEF CellList, Formed
<1>5. f[1].phoff \in Nat /\ f[1].phnum \in Nat /\ f[1].shoff \in Nat /\ f[1].shnum \in Nat
  BY <1>4 DEF EhdrCell
<1>6. CellList(Phdrs(f)) /\ CellList(Shdrs(f))
  BY <1>1, <1>2, <1>5, SliceCells DEF TablesFit, InFile, Phdrs, Shdrs
<1>7. Phdrs(f) \in Seq(PhdrCell)
  <2>1. \A i \in DOMAIN Phdrs(f) : Phdrs(f)[i].k = "phdr"
    BY <1>2 DEF TablesFit, KindIs
  <2>2. \A i \in DOMAIN Phdrs(f) : Phdrs(f)[i] \in PhdrCell
    BY <1>6, <2>1 DEF CellList, Formed
  <2> QED
    BY <1>6, <2>2, ListTyped DEF CellList
<1>8. Shdrs(f) \in Seq(ShdrCell)
  <2>1. \A i \in DOMAIN Shdrs(f) : Shdrs(f)[i].k = "shdr"
    BY <1>2 DEF TablesFit, KindIs
  <2>2. \A i \in DOMAIN Shdrs(f) : Shdrs(f)[i] \in ShdrCell
    BY <1>6, <2>1 DEF CellList, Formed
  <2> QED
    BY <1>6, <2>2, ListTyped DEF CellList
<1> QED
  BY <1>1, <1>3, <1>4, <1>7, <1>8

(* What is read is typed, and a section has the cells its header says.     *)
ReadData(f) ==
  [i \in DOMAIN Shdrs(f) |->
     IF Shdrs(f)[i].type = "NOBITS" THEN <<>>
     ELSE Slice(f, Shdrs(f)[i].offset, Shdrs(f)[i].size)]

(* What Elf::parse returns, field by field.                                *)
LEMMA ParseFields ==
  ASSUME NEW f, CellList(f), f[1] \in EhdrCell
  PROVE  /\ Fields(Parse(f), f[1], Phdrs(f), Shdrs(f), ReadData(f), ReadDynamic(f), "none")
         /\ IsList(ReadData(f)) /\ Len(ReadData(f)) = Len(Shdrs(f))
<1>1. IsList(Shdrs(f))
  BY TableLists
<1>2. DOMAIN ReadData(f) = DOMAIN Shdrs(f) /\ ReadData(f) = [i \in DOMAIN Shdrs(f) |-> ReadData(f)[i]]
  BY DEF ReadData
<1>3. IsList(ReadData(f)) /\ Len(ReadData(f)) = Len(Shdrs(f)) /\ Tuple(ReadData(f)) = ReadData(f)
  BY <1>1, <1>2, ListMap
<1>4. Parse(f) = Image(f[1], Phdrs(f), Shdrs(f), Tuple(ReadData(f)), ReadDynamic(f), "none")
  BY DEF Parse, Image, ReadData
<1>5. \A a, b, c, d, e, g : Fields(Image(a, b, c, d, e, g), a, b, c, d, e, g)
  BY DEF Fields, Image
<1> QED
  BY <1>3, <1>4, <1>5

(* The first header of a type, if there is one.                            *)
LEMMA FirstOfType ==
  ASSUME NEW s, IsList(s), NEW type
  PROVE  LET i == SelectInSeq(s, LAMBDA x : x.type = type)
         IN /\ i = 0 \/ (i \in DOMAIN s /\ s[i].type = type)
            /\ i = 0 => \A j \in DOMAIN s : s[j].type # type
            /\ i # 0 => \A j \in DOMAIN s : s[j].type = type => i <= j
<1> DEFINE S == {i \in 1 .. Len(s) : s[i].type = type}
           i == SelectInSeq(s, LAMBDA x : x.type = type)
<1>1. DOMAIN s = 1 .. Len(s) /\ Len(s) \in Nat
  BY ListSeq DEF IsList
<1>2. i = IF S # {} THEN Min(S) ELSE 0
  BY DEF SelectInSeq
<1>3. S \subseteq 1 .. Len(s) /\ \A j \in DOMAIN s : j \in S <=> s[j].type = type
  BY <1>1
<1> HIDE DEF S, i
<1>4. S # {} => Min(S) \in S /\ \A j \in S : Min(S) <= j
  BY <1>1, <1>3, LeastIndex
<1>5. S # {} => i \in DOMAIN s /\ i # 0 /\ i \in S
  <2>1. S # {} => i \in S
    BY <1>2, <1>4
  <2>2. S \subseteq 1 .. Len(s)
    BY <1>3
  <2>3. S # {} => i \in 1 .. Len(s)
    BY <2>1, <2>2
  <2> QED
    BY <1>1, <2>1, <2>3
<1> QED
  BY <1>1, <1>2, <1>3, <1>4, <1>5 DEF i

(* Parsing a coherent file gives an image fit to be laid out, and no error.*)
LEMMA ParseEdited ==
  ASSUME NEW f, Coherent(f)
  PROVE  Edited(Parse(f), f) /\ Parse(f).err = "none"
<1> DEFINE img == Parse(f)
           was == Shdrs(f)
           s == SelectInSeq(was, LAMBDA x : x.type = "DYNAMIC")
           p == SelectInSeq(Phdrs(f), LAMBDA x : x.type = "DYNAMIC")
<1>1. /\ CellList(f) /\ Len(f) \in Nat /\ Len(f) >= 1 /\ f[1] \in EhdrCell
      /\ Phdrs(f) \in Seq(PhdrCell) /\ was \in Seq(ShdrCell)
  BY CoherentCells
<1>2. /\ img = Image(f[1], Phdrs(f), was, ReadData(f), ReadDynamic(f), "none")
      /\ img.ehdr = f[1] /\ img.phdrs = Phdrs(f) /\ img.shdrs = was
      /\ img.data = ReadData(f) /\ img.dynamic = ReadDynamic(f) /\ img.err = "none"
      /\ IsList(ReadData(f)) /\ Len(ReadData(f)) = Len(was)
  <2> HIDE DEF img, was
  <2> QED
    BY <1>1, ParseFields DEF Fields, img, was
<1>3. TablesFit(f) /\ VerifyOK(img, Len(f))
  BY DEF Coherent
<1> HIDE DEF img
<1>4. \A i \in DOMAIN was :
        /\ was[i] \in ShdrCell /\ was[i].offset \in Nat /\ was[i].size \in Nat
        /\ was[i].type # "NOBITS" => was[i].offset + was[i].size <= Len(f)
  <2>1. \A i \in DOMAIN was : was[i] \in ShdrCell /\ was[i].offset \in Nat /\ was[i].size \in Nat
    <3>1. \A c \in ShdrCell : c.offset \in Nat /\ c.size \in Nat
      BY DEF ShdrCell
    <3> HIDE DEF was
    <3> QED
      BY <1>1, <3>1
  <2> QED
    BY <1>3, <2>1 DEF TablesFit, InFile
<1>5. \A i \in DOMAIN was : was[i].type # "NOBITS" =>
        /\ CellList(Slice(f, was[i].offset, was[i].size))
        /\ Len(Slice(f, was[i].offset, was[i].size)) = was[i].size
  BY <1>1, <1>4, SliceCells
<1>6. CellList(<<>>)
  <2>1. \A x : x = <<>> => Len(x) = 0 /\ DOMAIN x = {} /\ x \in Seq({})
    OBVIOUS
  <2> QED
    BY <2>1, SeqList DEF CellList
<1>7. \A i \in DOMAIN was :
        /\ CellList(ReadData(f)[i])
        /\ was[i].type # "NOBITS" => ReadData(f)[i] = Slice(f, was[i].offset, was[i].size)
  BY <1>5, <1>6 DEF ReadData
<1>8. s = DynIdx(img)
  BY <1>2 DEF DynIdx
<1>9. /\ s = 0 \/ (s \in DOMAIN was /\ was[s].type = "DYNAMIC")
      /\ p = 0 \/ (p \in DOMAIN Phdrs(f) /\ Phdrs(f)[p].type = "DYNAMIC")
  <2>1. IsList(was) /\ IsList(Phdrs(f))
    BY <1>1, TableLists
  <2> HIDE DEF was
  <2> QED
    BY <2>1, FirstOfType
<1>10. /\ s # 0 => ReadDynamic(f) = ReadDynArray(Slice(f, was[s].offset, was[s].size))
       /\ s = 0 /\ p # 0 => ReadDynamic(f)
            = ReadDynArray(Slice(f, Phdrs(f)[p].offset, Phdrs(f)[p].filesz))
       /\ s = 0 /\ p = 0 => ReadDynamic(f) = <<>>
  BY DEF ReadDynamic
<1> HIDE DEF s, p
<1>11. s # 0 => /\ CellList(ReadData(f)[s])
                /\ ReadDynamic(f) = ReadDynArray(ReadData(f)[s])
  BY <1>7, <1>9, <1>10
<1>12. s = 0 /\ p # 0 => CellList(Slice(f, Phdrs(f)[p].offset, Phdrs(f)[p].filesz))
  <2> SUFFICES ASSUME p # 0 PROVE CellList(Slice(f, Phdrs(f)[p].offset, Phdrs(f)[p].filesz))
    OBVIOUS
  <2>1. Phdrs(f)[p] \in PhdrCell
    BY <1>1, <1>9
  <2>2. Phdrs(f)[p].offset \in Nat /\ Phdrs(f)[p].filesz \in Nat
    BY <2>1 DEF PhdrCell
  <2>3. Phdrs(f)[p].offset + Phdrs(f)[p].filesz <= Len(f)
    BY <1>2, <1>3, <1>9 DEF VerifyOK, FileBounds, End
  <2> QED
    BY <1>1, <2>2, <2>3, SliceCells
<1>13. ReadDynamic(f) \in Seq(DynCell)
  <2>1. CASE s # 0
    BY <1>11, <2>1, DynArrayTyped
  <2>2. CASE s = 0 /\ p # 0
    BY <1>10, <1>12, <2>2, DynArrayTyped
  <2>3. CASE s = 0 /\ p = 0
    <3>1. <<>> \in Seq(DynCell)
      OBVIOUS
    <3> QED
      BY <1>10, <2>3, <3>1
  <2> QED
    BY <2>1, <2>2, <2>3
<1>14. IsImage(img)
  BY <1>1, <1>2, <1>7, <1>13 DEF IsImage
<1>15. \A i \in DOMAIN was : SectionOf(img, f, i)
  <2> SUFFICES ASSUME NEW i \in DOMAIN was PROVE SectionOf(img, f, i)
    OBVIOUS
  <2>1. was[i].type # "NOBITS" /\ ReadData(f)[i] = <<>> => was[i].size = 0
    <3>1. \A x : x = <<>> => Len(x) = 0
      OBVIOUS
    <3> QED
      BY <1>5, <1>7, <3>1
  <2> QED
    BY <1>2, <2>1 DEF SectionOf
<1>16. (s # 0 /\ ReadData(f)[s] = <<>>) => ReadDynamic(f) = <<>>
  BY <1>11, DynArrayTyped
<1>17. /\ Mapped(img.phdrs) \subseteq Range(Phdrs(f))
       /\ Addressed(ReadDynamic(f)) \subseteq Range(img.dynamic)
  BY <1>2 DEF Mapped, Addressed
<1>18. Len(Shdrs(f)) <= Len(img.shdrs)
  <2>1. Len(was) \in Nat
    BY <1>1
  <2> QED
    BY <1>2, <2>1
<1>19. Edited(img, f)
  BY <1>1, <1>2, <1>8, <1>14, <1>15, <1>16, <1>17, <1>18 DEF Edited
<1> QED
  BY <1>2, <1>19 DEF img
================================================================================
