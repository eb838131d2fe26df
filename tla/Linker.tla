-------------------------------- MODULE Linker --------------------------------
(***************************************************************************)
(* The files formatelf is given: what a static linker lays out (external   *)
(* to this repository; the shapes are the ones its tests build).  A link   *)
(* configuration c is a record:                                            *)
(*   etype    "EXEC" or "DYN"                                              *)
(*   base     address of the first cell                                    *)
(*   exe      has PT_PHDR, PT_INTERP and .interp                           *)
(*   sepcode  .text has a segment of its own (ld -z separate-code, lld);   *)
(*            else the first segment, with the headers, is executable      *)
(*   bun      has a .bun section at the end of the writable segment        *)
(*   rpath    the DT_RUNPATH string, "" for none                           *)
(*   spare    spare DT_NULL slots after the dynamic array's terminator     *)
(*   stackhdr "GNU_STACK", "NULL" (a spare slot) or "none"                 *)
(*   pinned   a relocation targets .dynstr                                 *)
(*   stripped has no section headers                                       *)
(*   overlay  cells of payload after everything else                       *)
(***************************************************************************)
EXTENDS Layout

Payload(n) == Tuple([i \in 1..n |-> Byte("payload", i)])

(* The sections of configuration c: name, type, flags, cells.              *)
Content(c, dynCells) ==
  LET S(n, t, f, d) == [name |-> n, type |-> t, flags |-> f, cells |-> d]
      dynstr == Str("") \o Str("libc") \o (IF c.rpath = "" THEN <<>> ELSE Str(c.rpath))
  IN (IF c.exe THEN <<S(Interp, "PROGBITS", {"A"}, Str("ld"))>> ELSE <<>>)
     \o <<S(Dynstr, "STRTAB", {"A"}, dynstr),
          S(".text", "PROGBITS", {"A", "X"}, <<Byte("text", 1), Byte("text", 2)>>),
          S(".dynamic", "DYNAMIC", {"A"}, dynCells),
          S(".rela", "RELA", {"A"}, <<Rel(0)>>),
          S(RldMap, "PROGBITS", {"A"}, <<Byte("rld", 1)>>)>>
     \o (IF c.bun THEN <<S(Bun, "PROGBITS", {"A"}, <<Byte("bun", 1)>>)>> ELSE <<>>)
     \o <<S(".shstrtab", "STRTAB", {}, <<>>)>>

Phnum(c) == (IF c.exe THEN 2 ELSE 0) + (IF c.sepcode THEN 4 ELSE 3) + (IF c.stackhdr = "none" THEN 0 ELSE 1)

DynCount(c) == 6 + (IF c.rpath = "" THEN 0 ELSE 1) + c.spare

(* Offsets: a section that starts a segment starts a page.                 *)
Offsets(c) ==
  LET secs == Content(c, [i \in 1..DynCount(c) |-> Zero])
      Step(acc, s) ==
        LET starts == s.name = ".dynamic" \/ (c.sepcode /\ s.name = ".text")
            at == IF starts THEN RoundUp(acc.end, Page) ELSE acc.end
        IN [at |-> Append(acc.at, at), end |-> at + Len(s.cells)]
  IN FoldLeft(Step, [at |-> <<>>, end |-> EhdrSize + Phnum(c)], secs).at

Named(bare, name) == SelectInSeq(bare, LAMBDA s : s.name = name)

DynEntries(c, bare, at) ==
  LET addr(name) == c.base + at[Named(bare, name)]
  IN <<Dyn("NEEDED", 1)>>
       \o (IF c.rpath = "" THEN <<>> ELSE <<Dyn("RUNPATH", 1 + Width["libc"])>>)
       \o <<Dyn("INIT", addr(".text")), Dyn("STRTAB", addr(Dynstr)),
            Dyn("STRSZ", Len(bare[Named(bare, Dynstr)].cells)),
            Dyn("RLD_MAP_REL", addr(RldMap) - (IF c.rpath = "" THEN 4 ELSE 5)
                                 - addr(".dynamic")),
            Dyn("NULL", 0)>>
       \o [i \in 1..c.spare |-> Dyn("NULL", 0)]

(* The sections with the cells that depend on addresses.                   *)
Filled(c, bare, at) ==
  LET d == DynEntries(c, bare, at)
      target == at[Named(bare, IF c.pinned THEN Dynstr ELSE RldMap)]
      Cells(s) == CASE s.name = ".rela" -> <<Rel(c.base + target)>>
                    [] s.name = ".dynamic" -> [j \in DOMAIN d |-> WriteDyn(d[j])]
                    [] s.name = ".shstrtab" ->
                         [j \in DOMAIN bare |-> NameCell(bare[j].name)]
                    [] OTHER -> s.cells
  IN Tuple([i \in DOMAIN bare |-> [bare[i] EXCEPT !.cells = Cells(bare[i])]])

Headers(c, secs, at) ==
  Tuple([i \in DOMAIN secs |->
    Shdr(i - 1, secs[i].type, secs[i].flags,
         IF "A" \in secs[i].flags THEN c.base + at[i] ELSE 0,
         at[i], Len(secs[i].cells), 1)])

(* The segment of one section, and the segment from one offset to another. *)
SegOver(type, c, s, off) ==
  Phdr(type, {"R"}, off, c.base + off, Len(s.cells), Len(s.cells), 1)
SegTo(flags, c, from, to, tail) ==
  Phdr("LOAD", flags, from, c.base + from, to - from, to - from + tail, Page)

Segments(c, secs, at, rw) ==
  LET text == at[rw - 1]
      headEnd == at[rw - 2] + Len(secs[rw - 2].cells)
  IN (IF c.exe
      THEN <<Phdr("PHDR", {"R"}, EhdrSize, c.base + EhdrSize, Phnum(c), Phnum(c), 1),
             SegOver("INTERP", c, secs[1], at[1])>>
      ELSE <<>>)
     \o (IF c.sepcode
         THEN <<SegTo({"R"}, c, 0, headEnd, 0), SegTo({"R", "X"}, c, text, text + 2, 0)>>
         ELSE <<SegTo({"R", "X"}, c, 0, text + 2, 0)>>)
     \o <<SegTo({"R", "W"}, c, at[rw], at[Len(secs)], Page),
          SegOver("DYNAMIC", c, secs[rw], at[rw])>>
     \o (IF c.stackhdr = "none" THEN <<>>
         ELSE <<Phdr(c.stackhdr, {"R", "W"}, 0, 0, 0, 0, 1)>>)

(* The cells from the first page's start, gaps zero, up to offset n.       *)
Padded(front, secs, at, n) ==
  LET Here(o) == {i \in DOMAIN secs : at[i] <= o /\ o < at[i] + Len(secs[i].cells)}
      Cell(o) == IF o < Len(front) THEN front[o + 1]
                 ELSE IF Here(o) = {} THEN Zero
                 ELSE LET i == Min(Here(o)) IN secs[i].cells[o - at[i] + 1]
  IN Tuple([p \in 1..n |-> Cell(p - 1)])

(* .shstrtab is the last section; the section headers follow it.           *)
Joined(c, secs, at, rw) ==
  LET n == Len(secs)
      ehdr == Ehdr(c.etype, IF c.exe \/ c.etype = "EXEC" THEN c.base + at[rw - 1] ELSE 0, EhdrSize,
                   IF c.stripped THEN 0 ELSE at[n] + n, Phnum(c),
                   IF c.stripped THEN 0 ELSE n, IF c.stripped THEN 0 ELSE n)
  IN Padded(<<ehdr>> \o Segments(c, secs, at, rw), secs, at,
            IF c.stripped THEN at[n] ELSE at[n] + n)
       \o (IF c.stripped THEN <<>> ELSE Headers(c, secs, at))
       \o Payload(c.overlay)

LinkAt(c, bare, at) == Joined(c, Filled(c, bare, at), at, Named(bare, ".dynamic"))
Link(c) == LinkAt(c, Content(c, <<>>), Offsets(c))
=============================================================================
