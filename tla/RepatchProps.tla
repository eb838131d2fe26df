----------------------------- MODULE RepatchProps -----------------------------
(***************************************************************************)
(* What repeated patching must not break.                                  *)
(***************************************************************************)
EXTENDS Repatch

-----------------------------------------------------------------------------
(* What a linker promises, and every run leaves behind.                    *)

(* Strings; the names the tool writes itself are spelled out because the    *)
(* provers do not know a literal to be a string.                           *)
Text == STRING \cup
  {"LOAD", "GNU_STACK", "NOTE", "NULL", "PROGBITS", "R", "W", "X", "A", "NEEDED", "SONAME",
   "RPATH", "RUNPATH", "FLAGS_1", "DEBUG", "RLD_MAP_REL", "STRSZ", "garbage"}

EhdrCell == [k : {"ehdr"}, abi : Text, etype : Text, entry : Nat, phoff : Nat,
             shoff : Nat, phnum : Nat, shnum : Nat, shstrndx : Nat]
PhdrCell == [k : {"phdr"}, type : Text, flags : SUBSET Text, offset : Nat,
             vaddr : Nat, filesz : Nat, memsz : Nat, align : Nat]
ShdrCell == [k : {"shdr"}, name : Nat, type : Text, flags : SUBSET Text,
             addr : Nat, offset : Nat, size : Nat, addralign : Nat]
DynCell == [k : {"dyn"}, tag : Text, val : Int]

(* A cell that looks like a record is one.                                 *)
Formed(c) ==
  /\ c.k = "ehdr" => c \in EhdrCell
  /\ c.k = "phdr" => c \in PhdrCell
  /\ c.k = "shdr" => c \in ShdrCell
  /\ c.k = "dyn" => c \in DynCell

(* The header, the tables and the sections do not share a cell.            *)
Until(span) == span.at + Len(span.cells)
Apart(all) ==
  \A i, j \in DOMAIN all :
    (i # j /\ all[i].cells # <<>> /\ all[j].cells # <<>>)
      => Until(all[i]) <= all[j].at \/ Until(all[j]) <= all[i].at

(* One dynamic section at most, and section names in the file.             *)
Dynamics(phdrs) == {p \in Range(phdrs) : p.type = "DYNAMIC"}
Regular(img) ==
  /\ \A i \in DOMAIN img.shdrs : img.shdrs[i].type = "DYNAMIC" => i = DynIdx(img)
  /\ img.ehdr.shstrndx \in DOMAIN img.shdrs => img.shdrs[img.ehdr.shstrndx].type # "NOBITS"

(* Where no section has the dynamic array there are no sections, and the   *)
(* one segment that has it is clear of the header and of the program       *)
(* headers, those of an appended region included.                          *)
SegmentsClear(img) ==
  DynIdx(img) = 0 =>
    \A p \in Dynamics(img.phdrs) :
      /\ Dynamics(img.phdrs) = {p} /\ img.shdrs = <<>> /\ p.offset >= EhdrSize
      /\ End(p) <= img.ehdr.phoff \/ img.ehdr.phoff + Len(img.phdrs) <= p.offset
      /\ PriorRegion(img) # 0 => End(p) <= img.ehdr.phoff

(* All of it but where e_shoff leads in a file without section headers.    *)
Coherent(f) ==
  /\ Len(f) \in Nat /\ f = [i \in 1 .. Len(f) |-> f[i]] /\ \A i \in DOMAIN f : Formed(f[i])
  /\ TablesFit(f) /\ VerifyOK(Parse(f), Len(f))
  /\ Apart(AllSpans(Parse(f))) /\ Regular(Parse(f)) /\ SegmentsClear(Parse(f))

Readable(f) == CanParse(f) /\ VerifyOK(Parse(f), Len(f))
Usable(f) == Coherent(f) /\ Readable(f)

(* The files that always are: those of a linker that wrote section headers *)
(* and those that e_shoff does not lead astray.  (The layouts set e_shoff  *)
(* whether there are section headers or not: README, the run               *)
(* sectionless_unparsable.)                                                *)
Sectioned(f) == f[1].shnum # 0
Sure(f, origin) == Sectioned(origin) \/ ~Dangling(f)

ASSUME LinkerAssumption ==
  \A j \in Jobs : \A c \in j.inputs : Usable(Link(c)) /\ c.overlay \in {0, PayloadLen}

(* Two stretches of the file, m cells from a on and n cells from b on, do   *)
(* not meet.                                                               *)
Clear(a, m, b, n) == m = 0 \/ n = 0 \/ a + m <= b \/ b + n <= a
(* The sections that have cells in the file.                               *)
Solid(img) == {i \in DOMAIN img.shdrs : img.shdrs[i].type # "NOBITS"}

(* A stretch of n cells from a on that no part of an image owns, in a file *)
(* of that length.  It must not lie behind an appended region, whose place *)
(* the next region takes.                                                  *)
Aside(img, length, a, n) ==
  /\ a + n <= length /\ Clear(0, 1, a, n)
  /\ Clear(img.ehdr.phoff, Len(img.phdrs), a, n)
  /\ Clear(img.ehdr.shoff, Len(img.shdrs), a, n)
  /\ \A i \in Solid(img) : Clear(img.shdrs[i].offset, img.shdrs[i].size, a, n)
  /\ PriorRegion(img) # 0 => a + n <= img.ehdr.phoff
Idle(f, a, n) == Aside(Parse(f), Len(f), a, n)

(* A payload of n cells that no part of the file owns.                     *)
Overlaid(f, n) ==
  n > 0 => \E a \in 0 .. Len(f) : Idle(f, a, n) /\ Slice(f, a, n) = Payload(n)

(* What a linker's output carries behind its parts is a payload.           *)
ASSUME OverlayAssumption ==
  \A j \in Jobs : \A c \in j.inputs : Overlaid(Link(c), c.overlay)

-----------------------------------------------------------------------------
(* Types: the file is an ELF header and more cells, the bookkeeping is     *)
(* within its bounds (Repatch's variables).                                *)
TypeOK ==
  /\ Len(file) > 0 /\ file[1].k = "ehdr" /\ first[1].k = "ehdr"
  /\ payload \in {0, PayloadLen}
  /\ last.ops \in job.invocations \cup {<<>>}
  /\ last.err \in {"none", "parse", "missing", "unsupported", "cli", "verify", "size",
                   "overlap", "past_end"}
  /\ job \in Jobs /\ runs \in 0..job.maxRuns

(* Every run edits exactly the attributes asked for, as the loader finds   *)
(* them through the program headers, or refuses and changes none: patching *)
(* (main.rs run, down to serialize) implements ElfObject.                  *)
Object == INSTANCE ElfObject WITH
            Invocations <- UNION {j.invocations : j \in Jobs},
            obj <- seen, reply <- [ops |-> last.ops, ok |-> last.err = "none"]
ImplementsObject == Object!ObjSpec

(* Code and data outside the sections the tool edits stay mapped at their  *)
(* original addresses, with their contents and their protection, however   *)
(* often the file is laid out again (layout.rs relayout, relayout_shift).  *)
Prot(f, v) == UNION {p.flags : p \in {q \in Loads(Phdrs(f)) : Covers(q, v)}}
Fixed(f) ==
  {v \in UNION {p.vaddr .. p.vaddr + p.memsz - 1 : p \in Loads(Phdrs(f))} :
     \/ Mem(f, v).k \in {"byte", "rel"}
     \/ \E p \in Loads(Phdrs(f)) : p.vaddr + p.filesz <= v /\ Covers(p, v)}
ImageIntact ==
  \A v \in Fixed(first) : Mem(file, v) = Mem(first, v) /\ Prot(file, v) = Prot(first, v)

(* Whatever was written parses again and passes the tool's own checks, on  *)
(* the bytes of the file and not only on the image it was written from     *)
(* (tests/prop_ops.rs assert_sound), for every file that had section       *)
(* headers, and for the others as long as no layout has set their e_shoff. *)
OutputSound == Sure(file, first) => Readable(file)

(* More than that, the output is again a file as linkers make them: its    *)
(* cells are well formed, no two of its parts share a cell, and a dynamic  *)
(* array without a section is clear of the tables, so that the next run,   *)
(* whatever it is asked, has nothing to trip over but an e_shoff that      *)
(* leads to no section header (layout.rs relayout).                        *)
FileUsable == Coherent(file) /\ (Sure(file, first) => Usable(file))

(* Only such a file is refused as input.                                   *)
LedAstray == last.err = "parse" /\ ~Sure(file, first)

(* The span writer accepts every layout of the layout engine (serialize.rs *)
(* write_to_shifted), and every other file parses that a run starts from.  *)
WriterAccepts == last.err \notin {"parse", "size", "overlap", "past_end"} \/ LedAstray

(* The tool never trips over its own layout: a run is refused for what the *)
(* file or the operation lacks, never because verify::run or the span      *)
(* writer rejects what the layout engine produced, and by the parser only  *)
(* if an earlier run gave a file without section headers an e_shoff.       *)
LayoutNeverRejected == last.err \in {"none", "missing", "unsupported", "cli"} \/ LedAstray

(* Repeating an operation that states a value is a byte-identical no-op    *)
(* (tests/prop_ops.rs assert_idempotent).                                  *)
Declarative(ops) ==
  \A i \in DOMAIN ops :
    ops[i].op \in {"set_interpreter", "set_rpath", "remove_rpath", "set_soname",
                   "no_default_lib", "debug_tag", "execstack", "cache"}
RepeatIsNoop ==
  [][( /\ last.err = "none" /\ last'.err = "none" /\ runs' = runs + 1
       /\ last'.ops = last.ops /\ last.ops # <<>> /\ Declarative(last.ops))
     => file' = file]_vars

(* The debugger's pointer: DT_MIPS_RLD_MAP_REL, taken from its own slot in *)
(* memory, still leads to .rld_map after slots and sections moved          *)
(* (layout.rs fixup_mips_rld_map_rel).                                     *)
RldMapReachable ==
  LET d == LoaderDynamic(file)
      at == SegOf(file, "DYNAMIC").vaddr
  IN Len(first) > 0 /\ first[1].shnum # 0 =>
       \A i \in DOMAIN d :
         d[i].tag = "RLD_MAP_REL" => Mem(file, at + (i - 1) + d[i].val) = Byte("rld", 1)

(* An overlay is found by seeking back from the end of the file, so it     *)
(* stays the last thing in it as long as there is address space below the  *)
(* image (layout.rs module comment, tests/overlay_relayout.rs).            *)
PayloadLast ==
  (job.roomy /\ payload > 0) => Slice(file, Len(file) - payload, payload) = Payload(payload)

(* Even when there is no room to prepend, the overlay is appended past and *)
(* not written over (the warning of layout.rs finalize).                   *)
PayloadKept ==
  payload > 0 => \E o \in 0 .. Len(file) - payload :
                   Slice(file, o, payload) = Payload(payload)

(* The ld-cache note a run wrote is reachable through a PT_NOTE, after     *)
(* every later move (layout.rs sync_segments; tests/mutating_ops.rs        *)
(* "PT_NOTE must stay anchored on the note after a move").                 *)
Anchored(img, i) ==
  i # 0 => \E j \in LoaderNotes(file) :
    LET p == Phdrs(file)[j]
    IN /\ p.vaddr = img.shdrs[i].addr /\ p.filesz = img.shdrs[i].size
       /\ MemRange(file, p.vaddr, p.memsz) = img.data[i]
CacheAnchored(img) == Anchored(img, FindSection(img, LdCache))
NoteAnchored == CacheAnchored(Parse(file))

(* The same of files that are laid out by appending.                       *)
NoteAnchoredByAppend == payload = 0 => NoteAnchored

(* What bun build --compile needs of a template (tests/bun_template.rs):   *)
(* the writable segment that holds .bun is the highest mapping and the     *)
(* last loaded content, the program headers lie below its file end and the *)
(* section headers above.  A file with a payload is no template any more.  *)
BunLast(img, b) ==
  b # 0 => \E p \in Loads(img.phdrs) :
    /\ "W" \in p.flags /\ Covers(p, img.shdrs[b].addr)
    /\ \A q \in Loads(img.phdrs) :
         q.vaddr + q.memsz <= p.vaddr + p.memsz /\ End(q) <= End(p)
    /\ img.ehdr.phoff + Len(img.phdrs) <= End(p)
    /\ img.ehdr.shoff >= End(p)
    /\ \A i \in DOMAIN img.shdrs :
         ("A" \in img.shdrs[i].flags /\ img.shdrs[i].type # "NOBITS")
           => img.shdrs[i].offset + img.shdrs[i].size <= End(p)
IsTemplate(img) == BunLast(img, FindSection(img, Bun))
BunTemplate == payload = 0 => IsTemplate(Parse(file))

(* Re-patching replaces the appended region: without                       *)
(* --no-clobber-old-sections a run that finds a prior region adds no       *)
(* PT_LOAD, but for the stub's own (tests/mutating_ops.rs                  *)
(* repeated_patching_reuses_the_appended_region).                          *)
LoadCount(f) == Cardinality({i \in DOMAIN Phdrs(f) : IsLoad(Phdrs(f)[i])})
HasStub(f) == FindSection(Parse(f), Stub) # 0
RegionReplaced ==
  [][(/\ runs' = runs + 1 /\ last'.err = "none" /\ ~last'.noClobber
      /\ PriorRegion(Parse(file)) # 0 /\ (HasStub(file') => HasStub(file)))
     => LoadCount(file') <= LoadCount(file)]_vars

(* Shrinking the run path drops directories only where the loader would    *)
(* not look: each needed library is still found first where it was found   *)
(* before (rpath.rs shrink: "A directory is useful if it supplies a needed *)
(* lib of the right machine not yet found in an earlier                    *)
(* directory").                                                            *)
Provider(o, lib) ==
  LET dirs == Dirs[o.rpath[1]]
      at == SelectInSeq(dirs, LAMBDA d : lib \in Provided[d])
  IN IF at = 0 THEN "" ELSE dirs[at]
ShrinksOnly(ops) ==
  /\ ops # <<>> /\ ops[Len(ops)].op = "shrink_rpath"
  /\ ops[Len(ops)].allowed = DOMAIN Provided \ Relative
  /\ \A i \in DOMAIN ops : ops[i].op \in {"shrink_rpath", "add_needed"}
ShrinkResolves ==
  [][(runs' = runs + 1 /\ last'.err = "none" /\ ShrinksOnly(last'.ops)) =>
       \A n \in DOMAIN seen'.needed :
         Provider(seen', seen'.needed[n][1]) = Provider(seen, seen'.needed[n][1])]_vars

(* --set-entry-stub installs the stub as the entry point (README.md) of    *)
(* any program, whatever earlier runs did to its layout.                   *)
StubInstalls ==
  (last.ops # <<>> /\ last.ops[Len(last.ops)].op = "entry_stub") => last.err = "none"

(* What a run writes parses again (tests/prop_ops.rs assert_sound:         *)
(* "mutated output must re-parse"), files without section headers          *)
(* included.                                                               *)
OutputParses == CanParse(file)
=============================================================================
