----------------------------- MODULE AutoFormatelf -----------------------------
(***************************************************************************)
(* One call of auto-formatelf (run of src/autoformatelf.rs): index the     *)
(* libraries (LibCache), collect the files, resolve each file's            *)
(* dependencies, and answer for those that nothing satisfies.  The pool of *)
(* workers that patches the files, and how a file is replaced, is module   *)
(* PatchAll; here a file is patched in one step, in any order.             *)
(***************************************************************************)
EXTENDS LibCache

CONSTANT Chars   \* the characters of each name, for --ignore-missing

(* A dependency is a name or an absolute path.                             *)
Sonames ==
  {c \in Seq(STRING) :
     /\ c # NoPath /\ (IsAbsolute(c) <=> Len(c) > 1)
     /\ ToSet(Tail(c)) \cup {Last(c)} \subseteq DOMAIN Chars}
Elves ==
  [kind : {"elf"}, etype : {"REL", "EXEC", "DYN"}, debug : BOOLEAN, arch : STRING,
   osabi : STRING, interp : Seq(STRING), needed : Seq(Sonames), dlopen : Seq(Seq(Sonames)),
   runpath : Seq(Seq(STRING))]

(* No name has a star in it.                                               *)
ASSUME AutoAssumption ==
  /\ \A n \in DOMAIN Chars : Chars[n] \in Seq(STRING) /\ "*" \notin ToSet(Chars[n])
  /\ \A w \in Worlds :
       /\ w.runtime \in Seq(Seq(STRING)) /\ w.append \in Seq(Seq(STRING))
       /\ w.ignore \in Seq(Seq(STRING)) /\ w.interp \in Seq(STRING) /\ w.libc \in Seq(STRING)
       /\ \A p \in DOMAIN w.fs : w.fs[p].kind = "elf" => w.fs[p] \in Elves

VARIABLES
  stack,     \* directories collect_files has yet to list
  files,     \* the files it found
  settled,   \* the positions patch_one is done with
  missing,   \* dependencies found nowhere: the file and the text of each
  answer

vars == <<world, fs, stage, cacheVars, stack, files, settled, missing, answer>>

None == [kind |-> "none"]

Init ==
  /\ world \in Worlds
  /\ fs = world.fs
  /\ stage = "start"
  /\ CacheInit
  /\ stack = <<>> /\ files = <<>> /\ settled = {} /\ missing = {}
  /\ answer = None

Interpreter == NodeAt(fs, world.interp)

(* A call that ends before it looks at any file.                           *)
Quit(why) ==
  /\ answer' = [kind |-> "err", why |-> why]
  /\ stage' = "done"
  /\ UNCHANGED <<world, fs, cacheVars, stack, files, settled, missing>>

Start ==
  /\ stage = "start"
  /\ CASE world.paths = <<>> -> Quit("cli")
       [] world.paths # <<>> /\ ~IsFile(fs, world.interp) -> Quit("io")
       [] world.paths # <<>> /\ Interpreter.kind = "junk" -> Quit("parse")
       [] OTHER ->
            /\ stage' = "scan"
            /\ frontier' = Roots(world)
            /\ UNCHANGED <<world, fs, visited, toParse, next, levels, cursor, pc, taken, local,
                           index, stack, files, settled, missing, answer>>

Populate ==
  /\ Visit \/ Spawn \/ Merge \/ \E w \in Workers : Grab(w) \/ Parse(w)
  /\ UNCHANGED <<stack, files, settled, missing, answer>>

-----------------------------------------------------------------------------
(* collect_files: links are passed over, directories taken from the end of *)
(* the stack.                                                              *)
OfKind(paths, kinds) ==
  FlattenSeq([i \in DOMAIN paths |->
                IF LinkKind(fs, paths[i]) \in kinds THEN <<paths[i]>> ELSE <<>>])

CollectPaths ==
  /\ stage = "collect"
  /\ files' = OfKind(world.paths, FileKinds)
  /\ stack' = OfKind(world.paths, {"dir"})
  /\ stage' = "walk"
  /\ UNCHANGED <<world, fs, cacheVars, settled, missing, answer>>

CollectDir ==
  /\ stage = "walk" /\ stack # <<>>
  /\ \E entries \in {SortedEntries(Last(stack), Names(fs, Last(stack)))} :
       /\ files' = files \o OfKind(entries, FileKinds)
       /\ stack' = Front(stack) \o (IF world.recursive THEN OfKind(entries, {"dir"}) ELSE <<>>)
  /\ UNCHANGED <<world, fs, stage, cacheVars, settled, missing, answer>>

Collected ==
  /\ stage = "walk" /\ stack = <<>>
  /\ stage' = "patch"
  /\ UNCHANGED <<world, fs, cacheVars, stack, files, settled, missing, answer>>

-----------------------------------------------------------------------------
(* patch_one.                                                              *)

(* Files that are not for us: static programs, objects without program     *)
(* headers, detached debug information, other targets.                     *)
Eligible(elf) ==
  /\ elf.kind = "elf" /\ ~elf.debug /\ elf.etype # "REL"
  /\ elf.etype = "EXEC" => elf.interp # NoPath
  /\ elf.arch = Interpreter.arch /\ OsabiCompatible(Interpreter.osabi, elf.osabi)

Deps(elf) == [i \in DOMAIN elf.needed |-> <<elf.needed[i]>>] \o elf.dlopen

(* A soname that needs no directory: a file, or part of a libc that is not *)
(* to be kept in the run path.  Else the cache is asked, then the libc.    *)
InLibc(cand) == world.libc # NoPath /\ IsFile(fs, Join(world.libc, cand))
KeepLibc(elf) == world.keepLibc \/ elf.osabi \in {"freebsd", "openbsd"}
AtHand(elf, cand) ==
  \/ IsAbsolute(cand) /\ IsFile(fs, cand)
  \/ InLibc(cand) /\ ~KeepLibc(elf)
CacheDir(elf, cand) ==
  IF IsAbsolute(cand) THEN NoPath ELSE FindDir(cand[1], elf.arch, elf.osabi)
Found(elf, cand) == AtHand(elf, cand) \/ CacheDir(elf, cand) # NoPath \/ InLibc(cand)
FoundAny(elf, alternatives) == \E i \in DOMAIN alternatives : Found(elf, alternatives[i])

(* The first alternative that is found decides.                            *)
DirsFor(elf, alternatives) ==
  LET first == SelectInSeq(alternatives, LAMBDA cand : Found(elf, cand))
      dir == CacheDir(elf, alternatives[first])
  IN IF first = 0 \/ AtHand(elf, alternatives[first]) \/ dir = NoPath THEN <<>> ELSE <<dir>>

(* join_rpaths: duplicates dropped, the first of them kept.                *)
JoinRpaths[dirs \in Seq(Seq(STRING))] ==
  FlattenSeq([i \in DOMAIN dirs |->
                IF \E j \in 1 .. i - 1 : dirs[j] = dirs[i] THEN <<>> ELSE <<dirs[i]>>])

RunPath(elf) ==
  JoinRpaths[(IF elf.interp # NoPath THEN world.runtime ELSE <<>>)
               \o FlattenSeq([i \in DOMAIN Deps(elf) |-> DirsFor(elf, Deps(elf)[i])])
               \o world.append]

(* What is reported of a dependency, and matched against the patterns.     *)
Text(alternatives) ==
  LET Name(i) == Spelled(Chars, alternatives[i])
      After(i) == IF i = 1 THEN Name(1) ELSE <<",", " ">> \o Name(i)
  IN IF Len(alternatives) = 1 THEN Name(1)
     ELSE <<"a", "n", "y", "(">> \o FlattenSeq([i \in DOMAIN alternatives |-> After(i)])
                                \o <<")">>

Patched(elf, runpath) ==
  [elf EXCEPT !.interp = IF @ = NoPath THEN @ ELSE world.interp,
              !.runpath = IF runpath = <<>> THEN @ ELSE runpath]

PatchOne(i) ==
  /\ stage = "patch" /\ i \notin settled
  /\ settled' = settled \cup {i}
  /\ \E at \in {Canonical(fs, files[i])} :
       IF Eligible(fs[at])
       THEN /\ \E runpath \in {RunPath(fs[at])} :
                 fs' = [fs EXCEPT ![at] = Patched(@, runpath)]
            /\ missing' = missing \cup
                 {[file |-> at, dep |-> d] :
                    d \in {x \in ToSet(Deps(fs[at])) : ~FoundAny(fs[at], x)}}
       ELSE UNCHANGED <<fs, missing>>
  /\ UNCHANGED <<world, stage, cacheVars, stack, files, answer>>

-----------------------------------------------------------------------------
(* glob_match: pi and ti are the characters of the pattern and of the text *)
(* matched so far, star the last star met and mark where it was met.       *)
GlobStart == [pi |-> 0, ti |-> 0, star |-> -1, mark |-> 0, failed |-> FALSE]

(* Mutant: after a mismatch the star is not given more of the text.        *)
GlobStepOnce(p, t, g) ==
  IF g.pi < Len(p) /\ p[g.pi + 1] \in {"?", t[g.ti + 1]}
  THEN [g EXCEPT !.pi = @ + 1, !.ti = @ + 1]
  ELSE IF g.pi < Len(p) /\ p[g.pi + 1] = "*"
  THEN [g EXCEPT !.star = g.pi, !.mark = g.ti, !.pi = @ + 1]
  ELSE IF g.star # -1 /\ g.pi = g.star + 1
  THEN [g EXCEPT !.mark = @ + 1, !.ti = g.mark + 1]
  ELSE [g EXCEPT !.failed = TRUE]

GlobStep(p, t, g) ==
  IF g.pi < Len(p) /\ p[g.pi + 1] \in {"?", t[g.ti + 1]}
  THEN [g EXCEPT !.pi = @ + 1, !.ti = @ + 1]
  ELSE IF g.pi < Len(p) /\ p[g.pi + 1] = "*"
  THEN [g EXCEPT !.star = g.pi, !.mark = g.ti, !.pi = @ + 1]
  ELSE IF g.star # -1
  THEN [g EXCEPT !.pi = g.star + 1, !.mark = @ + 1, !.ti = g.mark + 1]
  ELSE [g EXCEPT !.failed = TRUE]

(* The loop ends when the text does; it never takes MaxTurns.              *)
GlobStates == [pi : Nat, ti : Nat, star : Nat \cup {-1}, mark : Nat, failed : BOOLEAN]
MaxTurns(p, t) == (Len(t) + 1) * (Len(p) + 1)

GlobMatch(p, t) ==
  LET Turn == [g \in GlobStates |-> IF g.failed \/ g.ti = Len(t) THEN g ELSE GlobStep(p, t, g)]
      Loop[n \in 0 .. MaxTurns(p, t)] == IF n = 0 THEN GlobStart ELSE Turn[Loop[n - 1]]
      end == Loop[MaxTurns(p, t)]
  IN ~end.failed /\ \A i \in end.pi + 1 .. Len(p) : p[i] = "*"

Ignored(dep) == \E i \in DOMAIN world.ignore : GlobMatch(world.ignore[i], Text(dep))

Report ==
  /\ stage = "patch" /\ settled = DOMAIN files
  /\ answer' = IF \A m \in missing : Ignored(m.dep) THEN [kind |-> "ok"]
               ELSE [kind |-> "err", why |-> "missing"]
  /\ stage' = "done"
  /\ UNCHANGED <<world, fs, cacheVars, stack, files, settled, missing>>

Next ==
  \/ Start \/ Populate \/ CollectPaths \/ CollectDir \/ Collected
  \/ (\E i \in DOMAIN files : PatchOne(i)) \/ Report

(* The system schedules every worker, and the main thread while it runs.   *)
Spec == Init /\ [][Next]_vars
FairSpec == Spec /\ WF_vars(Next)
=============================================================================
