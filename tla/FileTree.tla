------------------------------- MODULE FileTree -------------------------------
(***************************************************************************)
(* The directory trees auto-formatelf walks (external: the kernel and      *)
(* std::fs, from how src/autoformatelf.rs uses them).  A tree is a         *)
(* function from canonical paths to nodes; a path is a sequence of names   *)
(* that starts with "/" when it is absolute.  A node is a directory, a     *)
(* link with the canonical path it leads to, an ELF file, or a file that   *)
(* is none or cannot be parsed ("junk").                                   *)
(***************************************************************************)
EXTENDS Integers, SequencesExt

CONSTANTS
  MaxLinks,   \* symbolic links followed in one path before ELOOP
  NameOrder,  \* the names in byte order
  Shared      \* those that look like a shared object's (is_shared_object)

ASSUME FileTreeAssumption ==
  /\ MaxLinks \in Nat
  /\ NameOrder \in Seq(STRING)
  /\ \A i, j \in DOMAIN NameOrder : i # j => NameOrder[i] # NameOrder[j]

NoPath == <<>>

(* What makes a function a tree: every node but the root is in a directory,*)
(* and a link leads to a node, or nowhere.                                 *)
IsTree(fs) ==
  /\ <<"/">> \in DOMAIN fs /\ fs[<<"/">>].kind = "dir"
  /\ \A p \in DOMAIN fs :
       /\ p \in Seq(STRING)
       /\ Front(p) = NoPath => p = <<"/">>
       /\ Front(p) # NoPath =>
            /\ Front(p) \in DOMAIN fs /\ fs[Front(p)].kind = "dir"
            /\ \E i \in DOMAIN NameOrder : NameOrder[i] = Last(p)
       /\ fs[p].kind = "link" => fs[p].to \in DOMAIN fs \cup {NoPath}
       /\ fs[p].kind = "elf" => fs[p].runpath \in Seq(Seq(STRING))

FileKinds == {"elf", "junk"}
IsAbsolute(path) == path[1] = "/"
Join(path, name) == IF IsAbsolute(name) THEN name ELSE path \o name
(* A path written out, given the characters of each name.                  *)
Spelled(chars, path) ==
  IF IsAbsolute(path)
  THEN FlattenSeq([i \in DOMAIN Tail(path) |-> <<"/">> \o chars[Tail(path)[i]]])
  ELSE chars[Last(path)]
(* An entry of a RUNPATH that a search can follow as it stands.            *)
Followable(dir) == dir # NoPath /\ "$ORIGIN" \notin ToSet(dir)

(* Resolving a path name by name; the spot is where the names so far lead. *)
Spots == [path : Seq(STRING), links : Nat]
Enter(fs, spot, name) ==
  LET p == Append(spot.path, name)
  IN IF spot.path = NoPath \/ p \notin DOMAIN fs THEN [spot EXCEPT !.path = NoPath]
     ELSE IF fs[p].kind # "link" THEN [spot EXCEPT !.path = p]
     ELSE IF spot.links = MaxLinks THEN [spot EXCEPT !.path = NoPath]
     ELSE [path |-> fs[p].to, links |-> spot.links + 1]
Canonical(fs, path) ==
  LET Step(name) == [spot \in Spots |-> Enter(fs, spot, name)]
      Spot[n \in 0 .. Len(path)] ==
        IF n <= 1 THEN [path |-> <<"/">>, links |-> 0] ELSE Step(path[n])[Spot[n - 1]]
  IN Spot[Len(path)].path

NodeAt(fs, path) ==
  IF Canonical(fs, path) = NoPath THEN [kind |-> "none"] ELSE fs[Canonical(fs, path)]
IsDir(fs, path) == NodeAt(fs, path).kind = "dir"
IsFile(fs, path) == NodeAt(fs, path).kind \in FileKinds

(* The path itself, its last name not followed, and its kind.              *)
Unfollowed(fs, path) ==
  LET dir == Canonical(fs, Front(path))
  IN IF path = <<"/">> \/ dir = NoPath THEN dir ELSE Append(dir, Last(path))
LinkKind(fs, path) ==
  IF Unfollowed(fs, path) \in DOMAIN fs THEN fs[Unfollowed(fs, path)].kind ELSE "none"

(* The entries of a directory, none when it is not one.                    *)
Names(fs, dir) ==
  LET c == Canonical(fs, dir)
  IN {Last(p) : p \in {q \in DOMAIN fs : Len(q) = Len(c) + 1 /\ Front(q) = c /\ c # NoPath}}

(* The names of a set in byte order.                                       *)
InByteOrder(names) ==
  LET upTo[n \in 0 .. Len(NameOrder)] ==
        IF n = 0 THEN <<>>
        ELSE IF NameOrder[n] \in names THEN Append(upTo[n - 1], NameOrder[n])
        ELSE upTo[n - 1]
  IN upTo[Len(NameOrder)]
=============================================================================
