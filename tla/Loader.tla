-------------------------------- MODULE Loader --------------------------------
(***************************************************************************)
(* How the kernel and the dynamic loader read a file: through the program  *)
(* headers only, never through section headers.  This is the yardstick of  *)
(* the properties, not a model of this repository's code.                  *)
(***************************************************************************)
EXTENDS Verify

Unmapped == [k |-> "unmapped"]

(* The cell mapped at address v.                                           *)
Mem(file, v) ==
  LET phdrs == Phdrs(file)
      i == SelectInSeq(phdrs, LAMBDA p : IsLoad(p) /\ Covers(p, v))
  IN IF i = 0 THEN Unmapped
     ELSE LET at == v - phdrs[i].vaddr
          IN IF at < phdrs[i].filesz THEN file[phdrs[i].offset + at + 1] ELSE Zero

MemRange(file, v, n) == Tuple([j \in 1..n |-> Mem(file, v + j - 1)])

SegOf(file, type) ==
  LET i == SelectInSeq(Phdrs(file), LAMBDA p : p.type = type)
  IN IF i = 0 THEN Phdr("NULL", {}, 0, 0, 0, 0, 1) ELSE Phdrs(file)[i]

(* The dynamic array and string table in memory.                           *)
LoaderDynamic(file) ==
  LET p == SegOf(file, "DYNAMIC")
  IN IF p.type = "NULL" THEN <<>> ELSE ReadDynArray(MemRange(file, p.vaddr, p.memsz))

Vals(dynamic, tag) ==
  LET es == SelectSeq(dynamic, LAMBDA d : d.tag = tag)
  IN Tuple([i \in DOMAIN es |-> es[i].val])

LoaderString(file, dynamic, off) ==
  IF Vals(dynamic, "STRTAB") = <<>> \/ Vals(dynamic, "STRSZ") = <<>> THEN <<"?", 1>>
  ELSE CStr(MemRange(file, Vals(dynamic, "STRTAB")[1], Vals(dynamic, "STRSZ")[1]), off)

KernelInterp(file) ==
  LET p == SegOf(file, "INTERP")
      cells == Slice(file, p.offset, p.filesz)
  IN IF p.type = "NULL" THEN <<"", 1>> ELSE CStr(cells, 0)

Strings(file, dynamic, tag) ==
  Tuple([i \in DOMAIN Vals(dynamic, tag) |->
           LoaderString(file, dynamic, Vals(dynamic, tag)[i])])
FirstOrAbsent(strings) == IF strings = <<>> THEN <<"", 1>> ELSE strings[1]

(* The stub in force, and where execution gets past it.                    *)
StubAt(file, entry) ==
  IF Mem(file, entry).k = "code" THEN Mem(file, entry).id ELSE ""
Saved(cell) == IF cell.k = "saved" THEN cell.entry ELSE -1
StartAt(file, entry) ==
  IF StubAt(file, entry) = "" THEN entry ELSE Saved(Mem(file, entry - CodeOffset))

StackOf(p) ==
  CASE p.type = "NULL" -> "?" [] "X" \in p.flags -> "X" [] OTHER -> "-"

Attributes(file, dynamic) ==
  [etype |-> file[1].etype,
   abi |-> file[1].abi,
   interp |-> KernelInterp(file),
   rpath |-> FirstOrAbsent(Strings(file, dynamic, "RUNPATH")
                             \o Strings(file, dynamic, "RPATH")),
   rpathTag |-> CASE Vals(dynamic, "RUNPATH") # <<>> -> "RUNPATH"
                  [] Vals(dynamic, "RUNPATH") = <<>> /\ Vals(dynamic, "RPATH") # <<>> -> "RPATH"
                  [] OTHER -> "",
   needed |-> Strings(file, dynamic, "NEEDED"),
   soname |-> FirstOrAbsent(Strings(file, dynamic, "SONAME")),
   stack |-> StackOf(SegOf(file, "GNU_STACK")),
   stub |-> StubAt(file, file[1].entry),
   start |-> StartAt(file, file[1].entry)]

(* The attributes of module ElfObject, as the loader finds them.           *)
View(file) == Attributes(file, LoaderDynamic(file))

(* The notes the loader finds through its PT_NOTE segments.                *)
LoaderNotes(file) ==
  {i \in DOMAIN Phdrs(file) :
     /\ Phdrs(file)[i].type = "NOTE"
     /\ Phdrs(file)[i].filesz > 0
     /\ Mem(file, Phdrs(file)[i].vaddr).k = "note"
     /\ Mem(file, Phdrs(file)[i].vaddr).i = 1}
=============================================================================
