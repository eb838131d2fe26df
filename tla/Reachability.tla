----------------------------- MODULE Reachability -----------------------------
(***************************************************************************)
(* What the search roots of a call of auto-formatelf lead to, without      *)
(* walks, caches and threads: the paths within a number of steps along the *)
(* directories and the RUNPATHs of a tree, and the libraries there.        *)
(***************************************************************************)
EXTENDS FileTree

CONSTANT Depth   \* steps that reach everything in the trees

ASSUME DepthAssumption == Depth \in Nat

(* A place is a path and its recursion flag.  It leads to the objects it   *)
(* offers, to its subdirectories if it is recursive, and to the            *)
(* directories that its objects name in their RUNPATH.                     *)
Usable(w, p) == NodeAt(w.fs, p).kind = "elf" /\ ~NodeAt(w.fs, p).debug
Objects(w, path) ==
  {p \in IF IsFile(w.fs, path) THEN {path}
         ELSE {Append(path, n) : n \in Names(w.fs, path) \cap Shared} : Usable(w, p)}
Subdirs(w, path) ==
  {d \in {Append(path, n) : n \in Names(w.fs, path)} : IsDir(w.fs, d)}
RunPathDirs(w, p) == {d \in ToSet(NodeAt(w.fs, p).runpath) : Followable(d)}
Onward(w, r) ==
  {<<d, r[2]>> : d \in (IF r[2] THEN Subdirs(w, r[1]) ELSE {})
                         \cup UNION {RunPathDirs(w, p) : p \in Objects(w, r[1])}}

GivenRoots(w) ==
  {<<p, FALSE>> : p \in ToSet(w.libs)}
    \cup (IF w.existing THEN {<<p, w.recursive>> : p \in ToSet(w.paths)} ELSE {})
Reachable(w) ==
  LET Within[n \in 0 .. Depth] ==
        IF n = 0 THEN GivenRoots(w)
        ELSE LET before == Within[n - 1] IN before \cup UNION {Onward(w, r) : r \in before}
  IN Within[Depth]

Described(w, p) ==
  LET elf == NodeAt(w.fs, p)
  IN [name |-> Last(p), arch |-> elf.arch, osabi |-> elf.osabi,
      dir |-> Canonical(w.fs, Front(p))]
Libraries(w) == {Described(w, p) : p \in UNION {Objects(w, r[1]) : r \in Reachable(w)}}

(* No step leads out of what is reachable.                                 *)
Fathomed(w) == \A r \in Reachable(w) : Onward(w, r) \subseteq Reachable(w)

(* No path is reached both with and without its subdirectories.            *)
OneWay(w) == \A r, s \in Reachable(w) : r[1] = s[1] => r[2] = s[2]
=============================================================================
