------------------------------- MODULE ElfImage -------------------------------
(***************************************************************************)
(* The ELF file and its in-memory image (src/ir.rs, src/parser.rs and the  *)
(* record codecs of src/codec.rs).                                         *)
(*                                                                         *)
(* A file is a sequence of cells; the cell at file offset o is file[o+1].  *)
(* One cell holds one whole record: the ELF header, one program header,    *)
(* one section header, one dynamic entry, one relocation, one unit of a    *)
(* string, or one opaque byte.  Offsets, sizes and addresses are counted   *)
(* in cells, so every record has size 1 and the byte encoding of a record  *)
(* is abstracted away, while overlap, truncation, stale offsets and reads  *)
(* of the wrong place all remain visible: a reader that looks in the wrong *)
(* place finds a cell of the wrong kind.                                   *)
(***************************************************************************)
EXTENDS Integers, SequencesExt

CONSTANT
  Width      \* Width[s]: cells taken by string s (NUL included), note s or code s

ASSUME WidthAssumption == \A s \in DOMAIN Width : Width[s] \in Nat \ {0}

-----------------------------------------------------------------------------
(* A function on 1..n is a sequence already; written as a concatenation,   *)
(* TLC computes its elements once and not at every use.                    *)
Tuple(f) == f \o <<>>

(* Cells.                                                                  *)

Zero == [k |-> "zero"]
Byte(id, i) == [k |-> "byte", id |-> id, i |-> i]
Str(s) == Tuple([i \in 1..Width[s] |-> [k |-> "str", s |-> s, i |-> i]])
NameCell(n) == [k |-> "name", n |-> n]
Rel(at) == [k |-> "rel", at |-> at]
Note(id) == Tuple([i \in 1..Width[id] |-> [k |-> "note", id |-> id, i |-> i]])
SavedCell(entry) == [k |-> "saved", entry |-> entry]
Code(id) == Tuple([i \in 1..Width[id] |-> [k |-> "code", id |-> id, i |-> i]])

Ehdr(etype, entry, phoff, shoff, phnum, shnum, shstrndx) ==
  [k |-> "ehdr", abi |-> "sysv", etype |-> etype, entry |-> entry, phoff |-> phoff,
   shoff |-> shoff, phnum |-> phnum, shnum |-> shnum, shstrndx |-> shstrndx]

Phdr(type, flags, offset, vaddr, filesz, memsz, align) ==
  [k |-> "phdr", type |-> type, flags |-> flags, offset |-> offset,
   vaddr |-> vaddr, filesz |-> filesz, memsz |-> memsz, align |-> align]

Shdr(name, type, flags, addr, offset, size, addralign) ==
  [k |-> "shdr", name |-> name, type |-> type, flags |-> flags, addr |-> addr,
   offset |-> offset, size |-> size, addralign |-> addralign]

Dyn(tag, val) == [k |-> "dyn", tag |-> tag, val |-> val]

(* DT_NULL with value 0 is encoded as zero bytes, and padding reads back   *)
(* as DT_NULL; any other cell reads as an entry that means nothing.        *)
WriteDyn(d) == IF d = Dyn("NULL", 0) THEN Zero ELSE d
ReadDyn(c) ==
  CASE c = Zero -> Dyn("NULL", 0) [] c.k = "dyn" -> c [] OTHER -> Dyn("garbage", 0)

EhdrSize == 1
CodeOffset == 1          \* stub.rs CODE_OFFSET: the saved entry comes first
Interp == ".interp"
Dynstr == ".dynstr"
Stub == ".formatelf.entry"
LdCache == ".note.nixos.ldcache"
Bun == ".bun"
RldMap == ".rld_map"

-----------------------------------------------------------------------------
RoundUp(v, align) ==
  IF align <= 1 THEN v ELSE ((v + align - 1) \div align) * align

Slice(file, off, len) == SubSeq(file, off + 1, off + len)
InFile(file, off, len) == off >= 0 /\ off + len <= Len(file)

IsLoad(p) == p.type = "LOAD"
Loads(phdrs) == {phdrs[i] : i \in {j \in DOMAIN phdrs : IsLoad(phdrs[j])}}

-----------------------------------------------------------------------------
(* parser::parse.  Section indices are 1-based, 0 standing for none, and   *)
(* a NOBITS section has no data.                                           *)

KindIs(cells, kind) == \A i \in DOMAIN cells : cells[i].k = kind

(* The tables; in a file that parses the header's counts are the ones that *)
(* resolve_counts answers.                                                 *)
Phdrs(file) == Slice(file, file[1].phoff, file[1].phnum)
Shdrs(file) == Slice(file, file[1].shoff, file[1].shnum)

(* The header and the tables are in the file, and so is each section.      *)
TablesFit(file) ==
  /\ Len(file) > 0 /\ file[1].k = "ehdr"
  /\ InFile(file, file[1].phoff, file[1].phnum) /\ KindIs(Phdrs(file), "phdr")
  /\ InFile(file, file[1].shoff, file[1].shnum) /\ KindIs(Shdrs(file), "shdr")
  /\ \A i \in DOMAIN Shdrs(file) :
       LET s == Shdrs(file)[i]
       IN /\ s.type # "NOBITS" => InFile(file, s.offset, s.size)
          /\ s.type = "DYNAMIC" =>
               \A j \in 1..s.size : file[s.offset + j].k \in {"dyn", "zero"}

(* A dynamic array that only the PT_DYNAMIC segment leads to is in it too. *)
SegmentFits(file) ==
  LET p == SelectInSeq(Phdrs(file), LAMBDA x : x.type = "DYNAMIC")
  IN (p # 0 /\ SelectInSeq(Shdrs(file), LAMBDA x : x.type = "DYNAMIC") = 0) =>
       InFile(file, Phdrs(file)[p].offset, Phdrs(file)[p].filesz)

(* resolve_counts.  A header that counts no sections but says where their  *)
(* headers are sends the parser to the first of them, whose sh_size is the *)
(* count.  Real counts stay below the limits of the 16-bit fields here, so *)
(* that the header there must be all zero, a count of 0, to make sense.  A *)
(* header takes more than the one byte that ends an appended file: two     *)
(* cells stand for it.                                                     *)
Dangling(file) == file[1].shnum = 0 /\ file[1].shoff # 0
SectionZeroEmpty(file) ==
  /\ InFile(file, file[1].shoff, 2)
  /\ \A i \in 1..2 : file[file[1].shoff + i] = Zero

CanParse(file) ==
  /\ TablesFit(file) /\ SegmentFits(file)
  /\ Dangling(file) => SectionZeroEmpty(file)

(* The dynamic array: entries up to and including the first DT_NULL.       *)
ReadDynArray(cells) ==
  LET entries == Tuple([i \in DOMAIN cells |-> ReadDyn(cells[i])])
      null == SelectInSeq(entries, LAMBDA d : d.tag = "NULL")
  IN IF null = 0 THEN entries ELSE SubSeq(entries, 1, null)

(* The section when there is one, else the PT_DYNAMIC segment.             *)
ReadDynamic(file) ==
  LET s == SelectInSeq(Shdrs(file), LAMBDA x : x.type = "DYNAMIC")
      p == SelectInSeq(Phdrs(file), LAMBDA x : x.type = "DYNAMIC")
  IN CASE s # 0 -> ReadDynArray(Slice(file, Shdrs(file)[s].offset, Shdrs(file)[s].size))
       [] s = 0 /\ p # 0 ->
            ReadDynArray(Slice(file, Phdrs(file)[p].offset, Phdrs(file)[p].filesz))
       [] OTHER -> <<>>

Parse(file) ==
  [ehdr |-> file[1],
   phdrs |-> Phdrs(file),
   shdrs |-> Shdrs(file),
   data |-> Tuple([i \in DOMAIN Shdrs(file) |->
                     LET s == Shdrs(file)[i]
                     IN IF s.type = "NOBITS" THEN <<>> ELSE Slice(file, s.offset, s.size)]),
   dynamic |-> ReadDynamic(file),
   err |-> "none"]

-----------------------------------------------------------------------------
(* ElfImage methods.                                                       *)

SectionName(img, i) ==
  LET at == img.shdrs[i].name + 1
  IN IF /\ img.ehdr.shstrndx \in DOMAIN img.data
        /\ at \in DOMAIN img.data[img.ehdr.shstrndx]
     THEN LET c == img.data[img.ehdr.shstrndx][at]
          IN IF c.k = "name" THEN c.n ELSE "?"
     ELSE "?"

FindSection(img, name) ==
  LET named == {i \in DOMAIN img.shdrs : SectionName(img, i) = name}
  IN IF named = {} THEN 0 ELSE Min(named)

DynIdx(img) == SelectInSeq(img.shdrs, LAMBDA s : s.type = "DYNAMIC")

(* ir::cstr: the string that starts at off, as the pair of a string and    *)
(* the unit it is entered at (a tail-merged string is entered past 1).     *)
(* "?" when the cells from off on are not that string any more.            *)
CStr(tab, off) ==
  IF off + 1 \notin DOMAIN tab \/ tab[off + 1].k # "str" THEN <<"?", 1>>
  ELSE LET c == tab[off + 1]
           n == Width[c.s] - c.i + 1
       IN IF SubSeq(tab, off + 1, off + n) = SubSeq(Str(c.s), c.i, Width[c.s])
          THEN <<c.s, c.i>> ELSE <<"?", 1>>
(* Its length; an offset past the table has no room for any string.        *)
CStrLen(tab, off) ==
  LET c == CStr(tab, off)
  IN CASE off + 1 \notin DOMAIN tab -> 0
       [] off + 1 \in DOMAIN tab /\ c[1] = "?" -> 1
       [] OTHER -> Width[c[1]] - c[2] + 1
=============================================================================
