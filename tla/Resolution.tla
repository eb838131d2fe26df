------------------------------ MODULE Resolution ------------------------------
(***************************************************************************)
(* What a call of auto-formatelf promises, without walks, caches, threads  *)
(* and search orders: every file of the target under --paths is given a    *)
(* run path of directories, each there for a reason, that holds whatever   *)
(* can be found for its dependencies, and the call succeeds if and only if *)
(* what cannot be found was to be ignored.                                 *)
(***************************************************************************)
EXTENDS Reachability

CONSTANT Chars   \* as in AutoFormatelf

VARIABLES
  call,     \* the call: a record of Worlds
  fs,       \* the tree
  answer    \* what the call returned

-----------------------------------------------------------------------------
(* The files to patch: those under --paths, no link on the way from there. *)
Under(given, p) ==
  \E g \in given :
    \/ p = g
    \/ /\ g \in DOMAIN call.fs /\ call.fs[g].kind = "dir"
       /\ IF call.recursive THEN IsStrictPrefix(g, p) ELSE g = Front(p)
Matching(a, b) == a = "sysv" \/ b = "sysv" \/ a = b
Targets ==
  LET loader == NodeAt(call.fs, call.interp)
      given == {Unfollowed(call.fs, path) : path \in ToSet(call.paths)}
  IN {p \in DOMAIN call.fs :
        LET elf == call.fs[p]
        IN /\ Under(given, p) /\ elf.kind = "elf" /\ ~elf.debug
           /\ elf.etype = "DYN" \/ (elf.etype = "EXEC" /\ elf.interp # NoPath)
           /\ elf.arch = loader.arch /\ Matching(elf.osabi, loader.osabi)}

Wanted(elf) == {<<n>> : n \in ToSet(elf.needed)} \cup ToSet(elf.dlopen)

(* A candidate needs no directory when it is a file, or part of the libc.  *)
Elsewhere(cand) ==
  \/ IsAbsolute(cand) /\ IsFile(call.fs, cand)
  \/ call.libc # NoPath /\ IsFile(call.fs, Join(call.libc, cand))
Providers(libs, elf, cand) ==
  {l \in libs : /\ cand = <<l.name>> /\ l.arch = elf.arch
                     /\ Matching(elf.osabi, l.osabi)}
Available(libs, elf, dep) ==
  \E i \in DOMAIN dep : Elsewhere(dep[i]) \/ Providers(libs, elf, dep[i]) # {}

(* The run paths a file may be given, when these libraries are reachable.  *)
Suits(libs, elf, runpath) ==
  LET Provide(d) == UNION {Providers(libs, elf, d[i]) : i \in DOMAIN d}
      provided == {l.dir : l \in UNION {Provide(d) : d \in Wanted(elf)}}
      runtime == IF elf.interp = NoPath THEN {} ELSE ToSet(call.runtime)
      asked == runtime \cup ToSet(call.append)
      dirs == ToSet(runpath)
  IN /\ asked \subseteq dirs /\ dirs \subseteq asked \cup provided
     /\ Cardinality(dirs) = Len(runpath)
     /\ \A d \in Wanted(elf) : Available(libs, elf, d) =>
          \/ \E i \in DOMAIN d : Elsewhere(d[i])
          \/ \E l \in Provide(d) : l.dir \in dirs

-----------------------------------------------------------------------------
(* A pattern matches if the text can be cut into one piece per character   *)
(* of the pattern: any piece for *, any single character for ?.            *)
Matches(pattern, text) ==
  \E cut \in [0 .. Len(pattern) -> 0 .. Len(text)] :
    /\ cut[0] = 0 /\ cut[Len(pattern)] = Len(text)
    /\ \A i \in DOMAIN pattern :
         IF pattern[i] = "*" THEN cut[i - 1] <= cut[i]
         ELSE cut[i] = cut[i - 1] + 1 /\ pattern[i] \in {"?", text[cut[i]]}

Named(dep) ==
  LET Listed(i) == (IF i = 1 THEN <<>> ELSE <<",", " ">>) \o Spelled(Chars, dep[i])
  IN IF Len(dep) = 1 THEN Spelled(Chars, dep[1])
     ELSE <<"a", "n", "y", "(">> \o FlattenSeq([i \in DOMAIN dep |-> Listed(i)]) \o <<")">>
Excused(dep) == \E i \in DOMAIN call.ignore : Matches(call.ignore[i], Named(dep))

Init == fs = call.fs /\ answer = [kind |-> "none"]

(* A file is linked; without any directory its run path is left alone.     *)
Link(p) ==
  LET elf == fs[p]
      new == fs'[p].runpath
      linked(runpath) == [elf EXCEPT !.interp = IF @ = NoPath THEN @ ELSE call.interp,
                                     !.runpath = runpath]
  IN /\ answer.kind = "none" /\ p \in Targets
     /\ fs' = [fs EXCEPT ![p] = linked(new)]
     /\ LET libs == Libraries(call)
        IN Suits(libs, elf, new) \/ (new = elf.runpath /\ Suits(libs, elf, <<>>))
     /\ UNCHANGED <<call, answer>>

Linked(libs, p) ==
  /\ fs[p].interp \in {NoPath, call.interp}
  /\ \/ Suits(libs, fs[p], fs[p].runpath)
     \/ fs[p].runpath = call.fs[p].runpath /\ Suits(libs, fs[p], <<>>)

Succeed ==
  /\ answer.kind = "none" /\ answer' = [kind |-> "ok"]
  /\ LET libs == Libraries(call)
     IN \A p \in Targets :
          /\ Linked(libs, p)
          /\ \A d \in Wanted(fs[p]) : Available(libs, fs[p], d) \/ Excused(d)
  /\ UNCHANGED <<call, fs>>

ReportMissing ==
  /\ answer.kind = "none" /\ answer' = [kind |-> "err", why |-> "missing"]
  /\ LET libs == Libraries(call)
     IN /\ \A p \in Targets : Linked(libs, p)
        /\ \E p \in Targets : \E d \in Wanted(fs[p]) :
             ~Available(libs, fs[p], d) /\ ~Excused(d)
  /\ UNCHANGED <<call, fs>>

(* The call itself is no good.                                             *)
Refuse ==
  /\ answer.kind = "none"
  /\ call.paths = <<>> \/ NodeAt(fs, call.interp).kind # "elf"
  /\ \E why \in {"cli", "io", "parse"} : answer' = [kind |-> "err", why |-> why]
  /\ UNCHANGED <<call, fs>>

Next == (\E p \in Targets : Link(p)) \/ Succeed \/ ReportMissing \/ Refuse

CallSpec == Init /\ [][Next]_<<call, fs, answer>>
=============================================================================
