--------------------------------- MODULE Ops ---------------------------------
(***************************************************************************)
(* The operations of src/ops.rs, src/rpath.rs, src/stub.rs and             *)
(* src/ldcache.rs: transforms of an image that never compute offsets.  An  *)
(* operation that fails sets img.err, and the invocation stops there.      *)
(***************************************************************************)
EXTENDS ElfImage

CONSTANTS
  Dirs,       \* Dirs[s]: the directories of the run path s
  Relative,   \* the directories that are not absolute paths
  Provided,   \* Provided[d]: the libraries of the file's machine in d
  Abis        \* the names --set-os-abi knows

Fail(img, why) == [img EXCEPT !.err = why]

RequireDynamic(img) == img.dynamic # <<>>

(* The entries before the terminator that carry one of these tags.         *)
Live(img, tags) ==
  LET null == SelectInSeq(img.dynamic, LAMBDA d : d.tag = "NULL")
  IN {i \in DOMAIN img.dynamic :
        (null = 0 \/ i < null) /\ img.dynamic[i].tag \in tags}

FirstDyn(img, tag) == SelectInSeq(img.dynamic, LAMBDA d : d.tag = tag)
(* Vec::retain: the entries but those at these indices.                    *)
Retain(dynamic, dropped) ==
  FlattenSeq([i \in DOMAIN dynamic |-> IF i \in dropped THEN <<>> ELSE <<dynamic[i]>>])

InsertFront(img, tag, val) == [img EXCEPT !.dynamic = <<Dyn(tag, val)>> \o @]

-----------------------------------------------------------------------------
(* String table edits.  DynstrSet reuses the slot at reuse when the new    *)
(* string fits there and otherwise appends; both return the new table and  *)
(* the offset of the string.                                               *)

DynstrAppend(tab, s) == [tab |-> tab \o Str(s), off |-> Len(tab)]

(* Mutant: a string one unit longer than the slot is put there.            *)
DynstrSetOver(tab, reuse, s) ==
  IF reuse >= 0 /\ Width[s] <= CStrLen(tab, reuse) + 1
  THEN [tab |-> SubSeq(tab, 1, reuse) \o Str(s)
                  \o SubSeq(tab, reuse + Width[s] + 1, Len(tab)),
        off |-> reuse]
  ELSE DynstrAppend(tab, s)

DynstrSet(tab, reuse, s) ==
  IF reuse >= 0 /\ Width[s] <= CStrLen(tab, reuse)
  THEN [tab |-> SubSeq(tab, 1, reuse) \o Str(s)
                  \o SubSeq(tab, reuse + Width[s] + 1, Len(tab)),
        off |-> reuse]
  ELSE DynstrAppend(tab, s)

-----------------------------------------------------------------------------
SetInterpreter(img, s) ==
  LET i == FindSection(img, Interp)
  IN IF i = 0 THEN Fail(img, "missing") ELSE [img EXCEPT !.data[i] = Str(s)]

(* One dynamic string tag with at most one entry to update: the slot of    *)
(* the first entry is reused, and an absent entry goes to the front.       *)
SetSoname(img, s) ==
  LET t == FindSection(img, Dynstr)
      i == FirstDyn(img, "SONAME")
      r == DynstrSet(img.data[t], IF i = 0 THEN -1 ELSE img.dynamic[i].val, s)
      edited == [img EXCEPT !.data[t] = r.tab]
  IN CASE img.ehdr.etype # "DYN" -> img
       [] img.ehdr.etype = "DYN" /\ (~RequireDynamic(img) \/ t = 0) -> Fail(img, "missing")
       [] OTHER -> IF i = 0 THEN InsertFront(edited, "SONAME", r.off)
                   ELSE [edited EXCEPT !.dynamic[i].val = r.off]

AddNeeded(img, s) ==
  LET t == FindSection(img, Dynstr)
      r == DynstrAppend(img.data[t], s)
  IN IF ~RequireDynamic(img) \/ t = 0 THEN Fail(img, "missing")
     ELSE InsertFront([img EXCEPT !.data[t] = r.tab], "NEEDED", r.off)

NeededNamed(img, t, s) ==
  {i \in DOMAIN img.dynamic :
     /\ img.dynamic[i].tag = "NEEDED"
     /\ CStr(img.data[t], img.dynamic[i].val) = <<s, 1>>}

RemoveNeeded(img, s) ==
  LET t == FindSection(img, Dynstr)
      targets == {img.dynamic[i].val : i \in NeededNamed(img, t, s)}
  IN IF ~RequireDynamic(img) \/ t = 0 THEN Fail(img, "missing")
     ELSE [img EXCEPT !.dynamic =
             Retain(@, {i \in DOMAIN @ : @[i].tag = "NEEDED" /\ @[i].val \in targets})]

ReplaceNeeded(img, old, new) ==
  LET t == FindSection(img, Dynstr)
      matches == NeededNamed(img, t, old)
      r == DynstrAppend(img.data[t], new)
  IN CASE ~RequireDynamic(img) \/ t = 0 -> Fail(img, "missing")
       [] RequireDynamic(img) /\ t # 0 /\ matches = {} -> img
       [] OTHER ->
            [img EXCEPT !.data[t] = r.tab,
               !.dynamic = Tuple([i \in DOMAIN @ |->
                  IF i \in matches THEN Dyn("NEEDED", r.off) ELSE @[i]])]

(* rpath::set.  Every RPATH and RUNPATH entry takes the tag policy's tag   *)
(* (RUNPATH unless forced) and the one offset of the new string.           *)
SetRpath(img, s, force) ==
  LET t == FindSection(img, Dynstr)
      existing == Live(img, {"RPATH", "RUNPATH"})
      hasRunpath == \E i \in existing : img.dynamic[i].tag = "RUNPATH"
      to == IF force THEN "RPATH" ELSE "RUNPATH"
      convert == IF force THEN hasRunpath ELSE ~hasRunpath
      r == DynstrSet(img.data[t],
                     IF existing = {} THEN -1 ELSE img.dynamic[Min(existing)].val, s)
      edited == [img EXCEPT !.data[t] = r.tab]
  IN IF ~RequireDynamic(img) \/ t = 0 THEN Fail(img, "missing")
     ELSE IF existing = {} THEN InsertFront(edited, to, r.off)
     ELSE [edited EXCEPT !.dynamic = Tuple([i \in DOMAIN @ |->
             IF i \in existing
             THEN Dyn(IF convert THEN to ELSE @[i].tag, r.off) ELSE @[i]])]

(* rpath::read: DT_RUNPATH before DT_RPATH.                                *)
ReadRpath(img) ==
  LET runpath == Live(img, {"RUNPATH"})
      rpath == Live(img, {"RPATH"})
      at == IF runpath # {} THEN Min(runpath) ELSE Max(rpath)
  IN IF runpath \cup rpath = {} THEN ""
     ELSE CStr(img.data[FindSection(img, Dynstr)], img.dynamic[at].val)[1]

(* A list of directories as a string: the name it has in Dirs.  Dirs names *)
(* every list the operations of an instance can make; any other would read *)
(* as the empty path.                                                      *)
JoinDirs(dirs) ==
  LET names == {s \in DOMAIN Dirs : Dirs[s] = dirs}
  IN IF names = {} THEN "" ELSE CHOOSE s \in names : TRUE

(* rpath::add.                                                             *)
AddRpath(img, dir, force) ==
  IF ~RequireDynamic(img) \/ FindSection(img, Dynstr) = 0 THEN Fail(img, "missing")
  ELSE SetRpath(img, JoinDirs(Append(Dirs[ReadRpath(img)], dir)), force)

NeededLibs(img) ==
  {CStr(img.data[FindSection(img, Dynstr)], img.dynamic[i].val)[1] : i \in Live(img, {"NEEDED"})}

(* filter_dirs with the keep closure of rpath::shrink: a directory is kept *)
(* if it has a library that no directory before it was kept for.           *)
(* Mutant: if every needed library it has is new.                          *)
KeepDirAllNew(acc, d, libs, allowed) ==
  LET has == IF d \in allowed THEN Provided[d] \cap libs ELSE {}
  IN IF d \in Relative THEN [acc EXCEPT !.dirs = Append(@, d)]
     ELSE IF has = {} \/ has \cap acc.found # {} THEN acc
     ELSE [dirs |-> Append(acc.dirs, d), found |-> acc.found \cup has]

KeepDir(acc, d, libs, allowed) ==
  LET new == IF d \in allowed THEN (Provided[d] \cap libs) \ acc.found ELSE {}
  IN IF d \in Relative THEN [acc EXCEPT !.dirs = Append(@, d)]
     ELSE IF new = {} THEN acc
     ELSE [dirs |-> Append(acc.dirs, d), found |-> acc.found \cup new]
FilterDirs(dirs, libs, allowed) ==
  LET Keep(acc, d) == KeepDir(acc, d, libs, allowed)
  IN FoldLeft(Keep, [dirs |-> <<>>, found |-> {}], dirs).dirs

(* rpath::shrink.  Without a .dynstr section the run path is still read,   *)
(* from the strings the program headers lead to, and cannot be set.        *)
ShrinkRpath(img, allowed, force) ==
  LET t == FindSection(img, Dynstr)
      none == Live(img, {"RPATH", "RUNPATH"}) = {}
  IN CASE ~RequireDynamic(img) -> Fail(img, "missing")
       [] RequireDynamic(img) /\ ~none /\ t = 0 -> Fail(img, "missing")
       [] RequireDynamic(img) /\ (none \/ (t # 0 /\ ReadRpath(img) = "")) -> img
       [] OTHER ->
            SetRpath(img, JoinDirs(FilterDirs(Dirs[ReadRpath(img)], NeededLibs(img), allowed)),
                     force)

RemoveRpath(img) ==
  [img EXCEPT !.dynamic = Retain(@, {i \in DOMAIN @ : @[i].tag \in {"RPATH", "RUNPATH"}})]

NODEFLIB == 2048
NoDefaultLib(img) ==
  LET i == FirstDyn(img, "FLAGS_1")
      WithBit(val) == IF (val \div NODEFLIB) % 2 = 1 THEN val ELSE val + NODEFLIB
  IN IF ~RequireDynamic(img) THEN Fail(img, "missing")
     ELSE IF i = 0 THEN InsertFront(img, "FLAGS_1", NODEFLIB)
     ELSE [img EXCEPT !.dynamic[i].val = WithBit(@)]

(* Mutant: an entry that is there already is added again.                  *)
AddDebugTagAgain(img) ==
  IF ~RequireDynamic(img) THEN Fail(img, "missing") ELSE InsertFront(img, "DEBUG", 0)

AddDebugTag(img) ==
  IF ~RequireDynamic(img) THEN Fail(img, "missing")
  ELSE IF FirstDyn(img, "DEBUG") # 0 THEN img
  ELSE InsertFront(img, "DEBUG", 0)

SetOsAbi(img, name) ==
  IF name \notin Abis THEN Fail(img, "cli") ELSE [img EXCEPT !.ehdr.abi = name]

(* modify_execstack: an absent PT_GNU_STACK takes a spare PT_NULL slot,    *)
(* else a new program header.                                              *)
SetExecstack(img, set) ==
  LET withX(flags) == IF set THEN flags \cup {"X"} ELSE flags \ {"X"}
      g == SelectInSeq(img.phdrs, LAMBDA p : p.type = "GNU_STACK")
      n == SelectInSeq(img.phdrs, LAMBDA p : p.type = "NULL")
      new == Phdr("GNU_STACK", withX({"R", "W"}), 0, 0, 0, 0, 1)
  IN IF g # 0 THEN [img EXCEPT !.phdrs[g].flags = withX(@)]
     ELSE IF n # 0 THEN [img EXCEPT !.phdrs[n] = new]
     ELSE [img EXCEPT !.phdrs = Append(@, new)]

-----------------------------------------------------------------------------
(* A section the layout engine has yet to place: size 0 with data.         *)
PushSection(img, name, type, flags, align, cells) ==
  LET str == img.ehdr.shstrndx
  IN IF str \notin DOMAIN img.data THEN Fail(img, "missing")
     ELSE [img EXCEPT
       !.shdrs = Append(@, Shdr(Len(img.data[str]), type, flags, 0, 0, 0, align)),
       !.data = Append([img.data EXCEPT ![str] = Append(img.data[str], NameCell(name))],
                       cells)]

(* New data for a section already there; size 0 forces its re-placement.   *)
ReplaceSection(img, i, cells) == [img EXCEPT !.data[i] = cells, !.shdrs[i].size = 0]

(* stub::set_bytes: an existing stub's saved entry is carried over.  Files *)
(* are ELF64, a blob is longer than its header, and a section of this name *)
(* is one that an earlier run wrote.                                       *)
SetEntryStub(img, id) ==
  LET i == FindSection(img, Stub)
      entry == IF i = 0 THEN img.ehdr.entry ELSE img.data[i][1].entry
      blob == <<SavedCell(entry)>> \o Code(id)
  IN IF img.ehdr.etype \notin {"EXEC", "DYN"} THEN Fail(img, "unsupported")
     ELSE IF i # 0 THEN ReplaceSection(img, i, blob)
     ELSE PushSection(img, Stub, "PROGBITS", {"A", "X"}, 2, blob)

(* ldcache::build and add_note_section.  What the search of the run path   *)
(* finds on disk is the note id, "none" when it finds nothing.  In a file  *)
(* without sections the parser reads .dynstr through DT_STRTAB.            *)
BuildCache(img, id) ==
  LET i == FindSection(img, LdCache)
      t == FindSection(img, Dynstr)
      pushed == PushSection(img, LdCache, "NOTE", {"A"}, 1, Note(id))
      tag == IF FirstDyn(img, "RUNPATH") # 0 THEN "RUNPATH" ELSE "RPATH"
      r == FirstDyn(img, tag)
      readable == RequireDynamic(img) /\ (t # 0 \/ DynIdx(img) = 0)
      nothing == \/ id = "none"
                 \/ Live(img, {"NEEDED"}) = {}
                 \/ r = 0
                 \/ t # 0 /\ CStr(img.data[t], img.dynamic[r].val)[1] = ""
  IN CASE ~readable -> Fail(img, "missing")
       [] readable /\ nothing -> img
       [] readable /\ ~nothing ->
            IF i # 0 THEN IF img.data[i] = Note(id) THEN img
                          ELSE ReplaceSection(img, i, Note(id))
            ELSE IF pushed.err # "none" THEN pushed
            ELSE [pushed EXCEPT !.phdrs = Append(@, Phdr("NOTE", {"R"}, 0, 0, 0, 0, 1))]
=============================================================================
