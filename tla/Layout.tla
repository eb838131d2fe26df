-------------------------------- MODULE Layout --------------------------------
(***************************************************************************)
(* The layout engine (src/layout.rs): from an edited image and the file it *)
(* was parsed from to the new file.  A grown section, a new section or a   *)
(* new program header forces a relayout: the append layout puts a fresh    *)
(* region (program headers, section headers, moved sections) at the end of *)
(* the file; the prepend layout, for files with an overlay or a .bun       *)
(* section, moves every original cell up and puts the region in front.     *)
(***************************************************************************)
EXTENDS Verify, Serialize

CONSTANTS
  Page,      \* page_size_for / --page-size
  SecAlign   \* the minimum alignment of a placed section or table

ASSUME LayoutAssumption == Page \in Nat \ {0} /\ SecAlign \in Nat \ {0}

None == -1

-----------------------------------------------------------------------------
(* Where the headers, sections and segments of the file end.               *)
Ends(img) ==
  {img.ehdr.phoff + Len(img.phdrs), img.ehdr.shoff + Len(img.shdrs)}
    \cup {End(img.phdrs[i]) : i \in DOMAIN img.phdrs}
    \cup {img.shdrs[i].offset + img.shdrs[i].size :
             i \in {j \in DOMAIN img.shdrs : img.shdrs[j].type # "NOBITS"}}

(* A nonzero cell past all of them.                                        *)
HasOverlay(original) ==
  \E p \in Max(Ends(Parse(original))) + 1 .. Len(original) : original[p] # Zero

(* A shrunk dynamic array keeps the section's size; other sections are as  *)
(* long as their data.                                                     *)
SectionLen(img, i) ==
  IF i = DynIdx(img) THEN Max({Len(img.dynamic), img.shdrs[i].size})
  ELSE Len(img.data[i])

Grown(img) ==
  {i \in DOMAIN img.shdrs :
     img.shdrs[i].type # "NOBITS" /\ SectionLen(img, i) # img.shdrs[i].size}

(* Encode the dynamic array into its section, zero-padded to the header's  *)
(* size.                                                                   *)
SyncDynamic(img) ==
  LET i == DynIdx(img)
      n == Max({Len(img.dynamic), img.shdrs[i].size})
  IN IF i = 0 THEN img
     ELSE [img EXCEPT !.data[i] =
             Tuple([j \in 1..n |->
               IF j <= Len(img.dynamic) THEN WriteDyn(img.dynamic[j]) ELSE Zero])]

-----------------------------------------------------------------------------
(* What to place afresh.                                                   *)

(* The R+X segment a prior run gave the entry stub, 0 if none.             *)
StubLoad(img) ==
  LET i == FindSection(img, Stub)
  IN IF i = 0 THEN 0
     ELSE SelectInSeq(img.phdrs, LAMBDA p :
            /\ IsLoad(p) /\ "X" \in p.flags
            /\ p.offset = img.shdrs[i].offset /\ p.vaddr = img.shdrs[i].addr)

(* The segment of a prior append layout: it starts at the program headers. *)
PriorRegion(img) ==
  SelectInSeq(img.phdrs, LAMBDA p : IsLoad(p) /\ p.offset = img.ehdr.phoff)

(* Mutant: the prior region's segment stays.                               *)
DropPhdrNot(img, i) == img

DropPhdr(img, i) == IF i = 0 THEN img ELSE [img EXCEPT !.phdrs = RemoveAt(@, i)]

(* A prior region goes, and with it the stub's segment.                    *)
DropStub(img) == DropPhdr(img, StubLoad(img))
DropRegion(img, prior) == IF prior = 0 THEN img ELSE DropStub(DropPhdr(img, prior))

ToPlace(img, grown, start) ==
  {i \in DOMAIN img.shdrs :
     /\ img.shdrs[i].type # "NOBITS" /\ img.data[i] # <<>>
     /\ i \in grown \/ (start # None /\ img.shdrs[i].offset >= start)}

Reclaim(img, grown, prior) ==
  LET start == IF prior = 0 THEN None ELSE img.phdrs[prior].offset
  IN [img |-> DropRegion(img, prior), start |-> start,
      relocate |-> ToPlace(img, grown, start)]

(* Mutant: the first writable segment is taken for the prior region.       *)
RelocationSetWritable(img, grown, reclaim) ==
  LET writable == SelectInSeq(img.phdrs, LAMBDA p : IsLoad(p) /\ "W" \in p.flags)
  IN Reclaim(img, grown, IF reclaim THEN writable ELSE 0)

RelocationSet(img, grown, reclaim) ==
  Reclaim(img, grown, IF reclaim THEN PriorRegion(img) ELSE 0)

-----------------------------------------------------------------------------
(* Region: where the sections go, relative to its start.                   *)

(* region_layout: offsets of these sections, in index order, from start;   *)
(* end[n] is the offset reached after the sections up to the n-th.         *)
PlaceAt(img, i, end) == RoundUp(end, Max({SecAlign, img.shdrs[i].addralign}))
PlaceEnds(img, secs, start) ==
  LET end[n \in 0 .. Len(img.shdrs)] ==
        IF n = 0 THEN start
        ELSE IF n \in secs THEN PlaceAt(img, n, end[n - 1]) + SectionLen(img, n)
        ELSE end[n - 1]
  IN end
Placed(img, secs, end) ==
  [at |-> [i \in secs |-> PlaceAt(img, i, end[i - 1])], end |-> end[Len(img.shdrs)]]
Place(img, secs, start) == Placed(img, secs, PlaceEnds(img, secs, start))

(* Region::plan.  Executable sections go last, on a page of their own;     *)
(* headSize[n] is the header size given n new segments.                    *)
PlanExec(data, exec, img) ==
  IF exec = {}
  THEN [at |-> data.at, dataLen |-> data.end, len |-> data.end, loads |-> 1]
  ELSE LET dataLen == RoundUp(data.end, Page)
           x == Place(img, exec, dataLen)
       IN [at |-> [i \in DOMAIN x.at \cup DOMAIN data.at |->
                     IF i \in DOMAIN x.at THEN x.at[i] ELSE data.at[i]],
           dataLen |-> dataLen, len |-> x.end, loads |-> 2]
Plan(img, relocate, headSize) ==
  LET exec == {i \in relocate : "X" \in img.shdrs[i].flags}
  IN PlanExec(Place(img, relocate \ exec, headSize[IF exec = {} THEN 1 ELSE 2]), exec, img)

(* assert_no_address_refs: a relocation that targets a section about to    *)
(* move cannot be followed.                                                *)
Referenced(img, relocate) ==
  \E i \in DOMAIN img.shdrs :
    /\ "A" \in img.shdrs[i].flags /\ img.shdrs[i].type = "RELA"
    /\ \E r \in DOMAIN img.data[i], m \in relocate :
         LET s == img.shdrs[m]
         IN s.addr # 0 /\ s.addr <= img.data[i][r].at
                       /\ img.data[i][r].at < s.addr + s.size

(* place_relocated: the new headers of the placed sections.                *)
PlaceRelocated(img, region, off, vaddr) ==
  [img EXCEPT !.shdrs = Tuple([i \in DOMAIN @ |->
     IF i \in DOMAIN region.at
     THEN [@[i] EXCEPT !.offset = off + region.at[i], !.addr = vaddr + region.at[i],
                       !.size = SectionLen(img, i)]
     ELSE @[i]])]

LoadSeg(flags, off, vaddr, size, align) ==
  Phdr("LOAD", flags, off, vaddr, size, size, align)

(* Region::emit.                                                           *)
Emit(img, region, off, vaddr, dataFilesz, align) ==
  LET placed == PlaceRelocated(img, region, off, vaddr)
      x == region.dataLen
      data == LoadSeg({"R", "W"}, off, vaddr, dataFilesz, align)
      exec == LoadSeg({"R", "X"}, off + x, vaddr + x, region.len - x, Page)
      i == FindSection(img, Stub)
  IN IF region.loads = 1 THEN [placed EXCEPT !.phdrs = Append(@, data)]
     ELSE [placed EXCEPT
             !.phdrs = @ \o <<data, exec>>,
             !.ehdr.entry = IF i = 0 THEN @ ELSE placed.shdrs[i].addr + CodeOffset]

-----------------------------------------------------------------------------
(* Fixups after the move.                                                  *)

(* Mutant: only a note with a place already is looked for.                 *)
LdCachePhdrPlaced(img) ==
  LET i == FindSection(img, LdCache)
  IN IF i = 0 \/ img.shdrs[i].offset = 0 THEN 0
     ELSE SelectInSeq(img.phdrs, LAMBDA p :
            p.type = "NOTE" /\ p.offset = img.shdrs[i].offset)

LdCachePhdr(img) ==
  LET i == FindSection(img, LdCache)
  IN IF i = 0 THEN 0
     ELSE SelectInSeq(img.phdrs, LAMBDA p :
            p.type = "NOTE" /\ p.offset = img.shdrs[i].offset)

SetSegment(p, off, addr, size) ==
  [p EXCEPT !.offset = off, !.vaddr = addr, !.filesz = size, !.memsz = size]

Frame(p, img, i) ==
  IF i = 0 THEN p
  ELSE SetSegment(p, img.shdrs[i].offset, img.shdrs[i].addr, img.shdrs[i].size)

SyncSegments(img, ldcachePhdr, phdrVaddr) ==
  LET note == FindSection(img, LdCache)
      anchored == IF ldcachePhdr = 0 THEN img
                  ELSE [img EXCEPT !.phdrs[ldcachePhdr] = Frame(@, img, note)]
      Sync(p) ==
        CASE p.type = "PHDR" -> SetSegment(p, img.ehdr.phoff, phdrVaddr, Len(img.phdrs))
          [] p.type = "INTERP" -> Frame(p, img, FindSection(img, Interp))
          [] p.type = "DYNAMIC" -> Frame(p, img, DynIdx(img))
          [] OTHER -> p
  IN [anchored EXCEPT !.phdrs = Tuple([i \in DOMAIN @ |-> Sync(@[i])])]

(* Mutant: the offset is taken from the array and not from the slot.       *)
FixupRldMapRelBase(img) ==
  LET d == DynIdx(img)
      r == FindSection(img, RldMap)
  IN [img EXCEPT !.dynamic = Tuple([i \in DOMAIN @ |->
        IF @[i].tag # "RLD_MAP_REL" \/ d = 0 \/ r = 0 THEN @[i]
        ELSE Dyn("RLD_MAP_REL", img.shdrs[r].addr - img.shdrs[d].addr)])]

(* The offset from the tag's own slot to .rld_map, 0 without that section. *)
FixupRldMapRel(img) ==
  LET d == DynIdx(img)
      r == FindSection(img, RldMap)
      dynAddr == IF d = 0 THEN 0 ELSE img.shdrs[d].addr
  IN [img EXCEPT !.dynamic = Tuple([i \in DOMAIN @ |->
        IF @[i].tag # "RLD_MAP_REL" THEN @[i]
        ELSE Dyn("RLD_MAP_REL", IF r = 0 THEN 0 ELSE img.shdrs[r].addr - (i - 1) - dynAddr)])]

(* Rebase the address tags that point into a section moved from before to  *)
(* after (each with an address before), then refresh DT_STRSZ.             *)
FixupDynamicAddrs(before, after, moved) ==
  LET Hit(v) == {i \in moved : /\ before.shdrs[i].addr # 0
                               /\ before.shdrs[i].addr <= v
                               /\ v < before.shdrs[i].addr + before.shdrs[i].size}
      Rebase(v) == IF Hit(v) = {} THEN v
                   ELSE LET i == Min(Hit(v))
                        IN after.shdrs[i].addr + (v - before.shdrs[i].addr)
      t == FindSection(after, Dynstr)
      rebased == [after EXCEPT !.dynamic = Tuple([i \in DOMAIN @ |->
                    IF @[i].tag \in AddrTags THEN Dyn(@[i].tag, Rebase(@[i].val)) ELSE @[i]])]
      fixed == FixupRldMapRel(rebased)
  IN [fixed EXCEPT !.dynamic = Tuple([i \in DOMAIN @ |->
        IF @[i].tag = "STRSZ" /\ t # 0 THEN Dyn("STRSZ", after.shdrs[t].size) ELSE @[i]])]

(* After the sections of img have been placed: all the fixups.             *)
FixAll(img, placed, phdrVaddr, moved) ==
  SyncDynamic(FixupDynamicAddrs(img,
    SyncSegments(placed, LdCachePhdr(img), phdrVaddr), moved))

Failure(why) == [err |-> why, file |-> <<>>]

(* The last steps of every path: verify, then write.                       *)
Finish(img, original, shift, total) ==
  IF VerifyOK(img, total) THEN WriteShifted(img, original, shift, total)
  ELSE Failure("verify")

-----------------------------------------------------------------------------
(* The append layout (relayout).                                           *)

(* Mutant: the zero-filled tail of a segment is forgotten.                 *)
StartPageFile(img, align) ==
  RoundUp(Max({0} \cup {img.phdrs[i].vaddr + img.phdrs[i].filesz : i \in DOMAIN img.phdrs}),
          align)

(* The first page past the memory image of every segment.                  *)
StartPage(img, align) ==
  RoundUp(Max({0} \cup {img.phdrs[i].vaddr + img.phdrs[i].memsz : i \in DOMAIN img.phdrs}),
          align)

(* Mutant: the region goes right behind the memory image.                  *)
StartOffImage(start, original, minOff, align) == RoundUp(minOff, align)

(* The region's offset: over the prior region if there is one, else past   *)
(* the end of the file, overlay included.                                  *)
StartOff(start, original, minOff, align) ==
  RoundUp(Max({IF start = None THEN Len(original) ELSE start, minOff}), align)

PhtSize(img, n) == RoundUp(EhdrSize + Len(img.phdrs) + n, SecAlign)

AppendRegion(set, original, region, startOff, base, align) ==
  LET headed == [set.img EXCEPT
                   !.ehdr.phoff = startOff,
                   !.ehdr.shoff = startOff + PhtSize(set.img, region.loads)]
      placed == Emit(headed, region, startOff, base + startOff, region.dataLen, align)
  IN IF Referenced(set.img, set.relocate) THEN Failure("unsupported")
     ELSE Finish(FixAll(set.img, placed, base + startOff, set.relocate),
                 original, 0, startOff + region.len + 1)

AppendLayout(set, original, base, align) ==
  AppendRegion(set, original,
    Plan(set.img, set.relocate,
         [n \in 1..2 |-> PhtSize(set.img, n) + RoundUp(Len(set.img.shdrs), SecAlign)]),
    StartOff(set.start, original, Max({0, StartPage(set.img, align) - base}), align),
    base, align)

RelayoutSet(set, original) ==
  LET loads == {p.vaddr : p \in Loads(set.img.phdrs)}
  IN AppendLayout(set, original, IF loads = {} THEN 0 ELSE Min(loads),
             Max({Page} \cup {set.img.phdrs[i].align : i \in DOMAIN set.img.phdrs}))

Relayout(image, original, grown, reclaim) ==
  RelayoutSet(RelocationSet(image, grown, reclaim), original)

-----------------------------------------------------------------------------
(* The prepend layout (relayout_shift).  "no_room" stands for Ok(false).   *)

(* phdrs[first_load..].rotate_right(n): the new segments come first.       *)
RotateLoads(phdrs, n) ==
  LET first == SelectInSeq(phdrs, IsLoad)
      last == Len(phdrs)
  IN SubSeq(phdrs, 1, first - 1) \o SubSeq(phdrs, last - n + 1, last)
       \o SubSeq(phdrs, first, last - n)

(* The original moves up by shift: its offsets do, its addresses do not.   *)
Raised(headers, shift) ==
  Tuple([i \in DOMAIN headers |-> [headers[i] EXCEPT !.offset = @ + shift]])
MoveUp(img, shift, shoff) ==
  [img EXCEPT
     !.phdrs = Raised(@, shift),
     !.shdrs = Raised(@, shift),
     !.ehdr.phoff = EhdrSize,
     !.ehdr.shoff = shoff]

PrependRegion(set, original, region, shift, base, align, keepTail) ==
  LET shoff == IF keepTail THEN PhtSize(set.img, region.loads)
               ELSE RoundUp(Len(original) + shift, SecAlign)
      total == IF keepTail THEN Len(original) + shift ELSE shoff + Len(set.img.shdrs)
      placed == Emit(MoveUp(set.img, shift, shoff), region, 0, base - shift,
                     IF region.loads = 1 THEN shift ELSE region.dataLen, align)
      rotated == [placed EXCEPT !.phdrs = RotateLoads(@, region.loads)]
  IN IF base % align # 0 \/ base < shift THEN Failure("no_room")
     ELSE IF Referenced(set.img, set.relocate) THEN Failure("unsupported")
     ELSE Finish(FixAll(set.img, rotated, base - shift + EhdrSize, set.relocate),
                 original, shift, total)

PrependPlanned(set, original, region, align, keepTail) ==
  PrependRegion(set, original, region, RoundUp(region.len, align),
                Min({p.vaddr : p \in Loads(set.img.phdrs)}), align, keepTail)

(* The section headers stay behind the original unless an overlay is there *)
(* to stay last.                                                           *)
PrependLayout(set, original, keepTail) ==
  LET shtSize == IF keepTail THEN RoundUp(Len(set.img.shdrs), SecAlign) ELSE 0
  IN IF Loads(set.img.phdrs) = {} THEN Failure("no_room")
     ELSE PrependPlanned(set, original,
            Plan(set.img, set.relocate, [n \in 1..2 |-> PhtSize(set.img, n) + shtSize]),
            Max({Page} \cup {p.align : p \in Loads(set.img.phdrs)}), keepTail)

RelayoutShift(image, original, grown, keepTail) ==
  PrependLayout(RelocationSet(image, grown, TRUE), original, keepTail)

-----------------------------------------------------------------------------
(* finalize with its decisions made: edit in place, or prepend if that is  *)
(* asked for and there is room, or append.                                 *)
InPlace(img, original) ==
  Finish(SyncDynamic(FixupRldMapRel(img)), original, 0, Len(original))
Fits(img, original) == Grown(img) = {} /\ Len(img.phdrs) <= original[1].phnum
FirstFitting(prepended, appended) ==
  IF prepended.err = "no_room" THEN appended ELSE prepended
Prepended(img, original) == RelayoutShift(img, original, Grown(img), HasOverlay(original))
Appended(img, original, noClobber) == Relayout(img, original, Grown(img), ~noClobber)

(* Mutants: the overlay, the .bun section or the lack of room below the    *)
(* base address is not looked at.                                          *)
RelaidNoOverlay(img, original, noClobber) ==
  IF FindSection(img, Bun) = 0 THEN Appended(img, original, noClobber)
  ELSE FirstFitting(Prepended(img, original), Appended(img, original, noClobber))
RelaidNoBun(img, original, noClobber) ==
  IF ~HasOverlay(original) THEN Appended(img, original, noClobber)
  ELSE FirstFitting(Prepended(img, original), Appended(img, original, noClobber))
RelaidNoFallback(img, original, noClobber) ==
  IF ~HasOverlay(original) /\ FindSection(img, Bun) = 0
  THEN Appended(img, original, noClobber)
  ELSE Prepended(img, original)

Relaid(img, original, noClobber) ==
  IF ~HasOverlay(original) /\ FindSection(img, Bun) = 0
  THEN Appended(img, original, noClobber)
  ELSE FirstFitting(Prepended(img, original), Appended(img, original, noClobber))

(* layout::finalize: the new file, or why there is none.                   *)
Finalize(img, original, noClobber) ==
  IF Fits(img, original) THEN InPlace(img, original)
  ELSE IF img.ehdr.etype \notin {"EXEC", "DYN"} THEN Failure("unsupported")
  ELSE Relaid(img, original, noClobber)
=============================================================================
