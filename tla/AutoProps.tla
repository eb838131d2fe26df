------------------------------- MODULE AutoProps -------------------------------
(***************************************************************************)
(* What a call of auto-formatelf must get right.                           *)
(***************************************************************************)
EXTENDS AutoFormatelf, Reachability

ASSUME FathomedAssumption == \A w \in Worlds : Fathomed(w)

(* Types (AutoFormatelf's variables).                                      *)
TypeOK ==
  /\ world \in Worlds
  /\ DOMAIN fs = DOMAIN world.fs
  /\ stage \in {"start", "scan", "parse", "collect", "walk", "patch", "done"}
  /\ \A w \in Workers :
       /\ pc[w] \in {"idle", "claim", "parse", "done"}
       /\ pc[w] = "parse" => taken[w] \in DOMAIN toParse
  /\ settled \subseteq DOMAIN files
  /\ answer.kind \in {"none", "ok", "err"}

(* The call keeps its promise: whichever worker parses what and in         *)
(* whatever order they finish, every file is linked to what can be found,  *)
(* and the answer is true (run, patch_one, report_missing).                *)
Call == INSTANCE Resolution WITH call <- world
ImplementsResolution == Call!CallSpec

(* "Results keep input order" (doc of par_map): whatever the number of     *)
(* workers and however they interleave, a level adds to the index, and to  *)
(* the next level, what one thread parsing item after item would have.     *)
InOrder == FlattenSeq([i \in DOMAIN toParse |-> ParseLib(toParse[i])])
MergedInOrder ==
  [][stage = "parse" /\ stage' # "parse" =>
       /\ index' = index \o [i \in DOMAIN InOrder |-> Entry(InOrder[i])]
       /\ frontier' = next \o FlattenSeq([i \in DOMAIN InOrder |-> InOrder[i].follow])]_vars

(* "Index every shared object reachable from roots (each a path paired     *)
(* with its recursion flag)" (doc of populate): every library reachable,   *)
(* under its canonical directory, and nothing else.                        *)
Populated == stage \in {"collect", "walk", "patch"}
AllIndexed == Populated => ToSet(index) = Libraries(world)

(* A library that a search root itself offers is taken from the first root *)
(* that does, in command-line order, however many more directories and     *)
(* RUNPATHs lead to others of its name (populate, find; tests              *)
(* auto_formatelf_resolves_duplicate_libraries_in_search_order).           *)
Offers(r, name, arch, osabi) ==
  \E p \in Objects(world, r.path) :
    LET l == Described(world, p)
    IN l.name = name /\ l.arch = arch /\ OsabiCompatible(osabi, l.osabi)
RootDir(r) == Canonical(world.fs, IF IsFile(world.fs, r.path) THEN Front(r.path) ELSE r.path)
RootsOutrank ==
  Populated =>
    \A l \in ToSet(index) :
      LET offering == {i \in DOMAIN Roots(world) :
                         Offers(Roots(world)[i], l.name, l.arch, l.osabi)}
      IN offering # {} =>
           FindDir(l.name, l.arch, l.osabi) = RootDir(Roots(world)[Min(offering)])

(* The part of the libc's directory that files of the loader's kind name   *)
(* serves them: nothing else is asked of it (InLibc looks at no more than  *)
(* whether the file exists).                                               *)
Candidates(elf) == ToSet(elf.needed) \cup UNION {ToSet(d) : d \in ToSet(elf.dlopen)}
LibcFits(w) ==
  LET ld == NodeAt(w.fs, w.interp)
      served == {p \in DOMAIN w.fs : w.fs[p].kind = "elf" /\ w.fs[p].arch = ld.arch}
  IN ld.kind = "elf" =>
       \A p \in served :
         \A c \in {x \in Candidates(w.fs[p]) : ~IsAbsolute(x) /\ IsFile(w.fs, Join(w.libc, x))} :
           LET lib == NodeAt(w.fs, Join(w.libc, c))
           IN lib.kind = "elf" /\ lib.arch = w.fs[p].arch
              /\ OsabiCompatible(w.fs[p].osabi, lib.osabi)

(* When the call has succeeded, the dynamic loader finds every dependency  *)
(* of every file patched, in its run path as it is now or in the libc's    *)
(* directory, but for those that were to be ignored (patch_one).           *)
Loadable(elf, p) ==
  LET lib == NodeAt(fs, p)
  IN lib.kind = "elf" /\ lib.arch = elf.arch /\ OsabiCompatible(elf.osabi, lib.osabi)
LoaderFinds(elf, cand) ==
  IF IsAbsolute(cand) THEN IsFile(fs, cand)
  ELSE \E d \in ToSet(elf.runpath) \cup ({world.libc} \ {NoPath}) : Loadable(elf, Join(d, cand))
Loads ==
  answer.kind = "ok" =>
    \A i \in DOMAIN files :
      LET elf == NodeAt(fs, files[i])
      IN Eligible(elf) => \A dep \in ToSet(Deps(elf)) :
           Ignored(dep) \/ \E k \in DOMAIN dep : LoaderFinds(elf, dep[k])

(* Every call comes to an answer, whatever circles the RUNPATHs and the    *)
(* links of the trees make (populate's visited).                           *)
Terminates == <>(answer # None)
=============================================================================
