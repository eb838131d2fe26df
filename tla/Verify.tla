-------------------------------- MODULE Verify --------------------------------
(***************************************************************************)
(* verify::run (src/verify.rs): the invariants checked on the finalized    *)
(* image before anything is written.  One operator per check, true when    *)
(* the check passes.  Alignments are powers of two, sh_link fields are     *)
(* valid and the data of .interp ends in the last unit of a string, its    *)
(* NUL, in every image of the model, so those three checks are left out.   *)
(***************************************************************************)
EXTENDS ElfImage

AddrTags == {"STRTAB", "INIT", "HASH"}
StrTags == {"NEEDED", "SONAME", "RPATH", "RUNPATH"}

End(p) == p.offset + p.filesz
Covers(p, v) == p.vaddr <= v /\ v < p.vaddr + p.memsz

(* The first segment or entry of a type; a default record when there is none. *)
HasSeg(img, type) == \E i \in DOMAIN img.phdrs : img.phdrs[i].type = type
Seg(img, type) == img.phdrs[SelectInSeq(img.phdrs, LAMBDA p : p.type = type)]
HasTag(img, tag) == \E i \in DOMAIN img.dynamic : img.dynamic[i].tag = tag
DVal(img, tag) == img.dynamic[SelectInSeq(img.dynamic, LAMBDA d : d.tag = tag)].val

LoadsSound(img) ==
  \A p \in Loads(img.phdrs) :
    /\ p.align > 1 => p.vaddr % p.align = p.offset % p.align
    /\ ~({"W", "X"} \subseteq p.flags)
    /\ p.filesz <= p.memsz

LoadsDisjoint(img) ==
  \A i, j \in DOMAIN img.phdrs :
    (i # j /\ IsLoad(img.phdrs[i]) /\ IsLoad(img.phdrs[j])) =>
      LET p == img.phdrs[i]
          q == img.phdrs[j]
      IN p.vaddr + p.memsz <= q.vaddr \/ q.vaddr + q.memsz <= p.vaddr

PhtCovered(img) ==
  \E p \in Loads(img.phdrs) :
    p.offset <= img.ehdr.phoff /\ img.ehdr.phoff + Len(img.phdrs) <= End(p)

PhdrAnchor(img) ==
  HasSeg(img, "PHDR") =>
    LET phdr == Seg(img, "PHDR")
        low == Min({p.offset : p \in Loads(img.phdrs)})
        base == img.phdrs[SelectInSeq(img.phdrs, LAMBDA p : IsLoad(p) /\ p.offset = low)]
    IN /\ Loads(img.phdrs) # {}
       /\ phdr.offset = img.ehdr.phoff
       /\ phdr.vaddr = base.vaddr + (img.ehdr.phoff - base.offset)

FileBounds(img, total) ==
  /\ img.ehdr.phoff + Len(img.phdrs) <= total
  /\ img.ehdr.shoff # 0 => img.ehdr.shoff + Len(img.shdrs) <= total
  /\ \A i \in DOMAIN img.phdrs : End(img.phdrs[i]) <= total
  /\ \A i \in DOMAIN img.shdrs :
       img.shdrs[i].type # "NOBITS" => img.shdrs[i].offset + img.shdrs[i].size <= total

InterpFramed(img) ==
  HasSeg(img, "INTERP") =>
    LET seg == Seg(img, "INTERP")
        i == FindSection(img, Interp)
    IN /\ seg.filesz > 0
       /\ \E p \in Loads(img.phdrs) : p.offset <= seg.offset /\ End(seg) <= End(p)
       /\ i # 0 => /\ seg.offset = img.shdrs[i].offset
                   /\ seg.filesz = img.shdrs[i].size

EntryExecutable(img) ==
  (img.ehdr.entry # 0 /\ img.ehdr.etype \in {"EXEC", "DYN"}) =>
    \E p \in Loads(img.phdrs) : "X" \in p.flags /\ Covers(p, img.ehdr.entry)

DynamicConsistent(img) ==
  LET t == FindSection(img, Dynstr)
      s == DynIdx(img)
  IN /\ (t # 0 /\ HasTag(img, "STRTAB")) => DVal(img, "STRTAB") = img.shdrs[t].addr
     /\ (t # 0 /\ HasTag(img, "STRSZ")) => DVal(img, "STRSZ") <= img.shdrs[t].size
     /\ HasTag(img, "STRSZ") =>
          \A i \in DOMAIN img.dynamic :
            img.dynamic[i].tag \in StrTags => img.dynamic[i].val < DVal(img, "STRSZ")
     /\ (s # 0 /\ HasSeg(img, "DYNAMIC")) =>
          /\ Seg(img, "DYNAMIC").vaddr = img.shdrs[s].addr
          /\ Seg(img, "DYNAMIC").offset = img.shdrs[s].offset

DynamicMapped(img) ==
  Loads(img.phdrs) # {} =>
    \A i \in DOMAIN img.dynamic :
      (img.dynamic[i].tag \in AddrTags /\ img.dynamic[i].val # 0) =>
        \E p \in Loads(img.phdrs) : Covers(p, img.dynamic[i].val)

VerifyOK(img, total) ==
  /\ LoadsSound(img) /\ LoadsDisjoint(img) /\ PhtCovered(img) /\ PhdrAnchor(img)
  /\ FileBounds(img, total) /\ InterpFramed(img) /\ EntryExecutable(img)
  /\ DynamicConsistent(img) /\ DynamicMapped(img)
=============================================================================
