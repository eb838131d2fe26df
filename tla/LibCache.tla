------------------------------- MODULE LibCache -------------------------------
(***************************************************************************)
(* The library cache of src/autoformatelf.rs: Cache::populate walks the    *)
(* search roots level by level, par_map parses the shared objects of a     *)
(* level on worker threads, and their results are merged in input order.   *)
(***************************************************************************)
EXTENDS FileTree

CONSTANTS
  Worlds,      \* the calls and the trees they are made in: records of
               \*   fs         the tree
               \*   paths      --paths          libs      --libs
               \*   recursive  no --no-recurse  existing  no --ignore-existing
               \*   keepLibc   --keep-libc      libc      the libc directory or NoPath
               \*   runtime    --runtime-dependencies
               \*   append     --append-rpaths  ignore    --ignore-missing
               \*   interp     --interpreter
  NumWorkers,
  MaxLevels    \* bound on the levels of a walk; no walk reaches it

ASSUME LibCacheAssumption ==
  /\ NumWorkers \in Nat \ {0} /\ MaxLevels \in Nat
  /\ \A w \in Worlds :
       /\ IsTree(w.fs)
       /\ w.paths \in Seq(Seq(STRING)) /\ w.libs \in Seq(Seq(STRING))
       /\ \A p \in ToSet(w.paths) : p # NoPath /\ IsAbsolute(p)
       /\ w.recursive \in BOOLEAN

VARIABLES
  world,     \* the call
  fs,        \* the tree
  stage,     \* where the main thread is
  frontier,  \* the paths of this level still to visit
  visited,
  toParse,   \* the shared objects of this level
  next,      \* the paths of the next level
  levels,    \* levels walked so far
  cursor,    \* the next item to hand out
  pc,        \* where each worker is
  taken,     \* the item it took last
  local,     \* its results, with their items
  index      \* by_soname: the libraries in the order they were merged

cacheVars == <<frontier, visited, toParse, next, levels, cursor, pc, taken, local, index>>

Workers == 1..NumWorkers
Item(path, rec) == [path |-> path, rec |-> rec]

-----------------------------------------------------------------------------
(* Roots: what run passes to populate.                                     *)
Items(paths, rec) == [i \in DOMAIN paths |-> Item(paths[i], rec)]
Roots(w) ==
  (IF w.existing THEN Items(w.paths, w.recursive) ELSE <<>>) \o Items(w.libs, FALSE)

CacheInit ==
  /\ frontier = <<>> /\ visited = {} /\ toParse = <<>> /\ next = <<>> /\ levels = 0
  /\ cursor = 1
  /\ pc = [w \in Workers |-> "idle"]
  /\ taken = [w \in Workers |-> 0]
  /\ local = [w \in Workers |-> <<>>]
  /\ index = <<>>

(* sorted_entries: the paths of these entries of a directory by their names. *)
SortedEntries(dir, names) ==
  LET sorted == InByteOrder(names) IN [i \in DOMAIN sorted |-> Append(dir, sorted[i])]

(* Mutant: an entry that is a link to a directory is taken for a file.     *)
IsSubdirUnfollowed(path) == LinkKind(fs, path) = "dir"

(* entry.path().is_dir().                                                  *)
IsSubdir(path) == IsDir(fs, path)

Seen(path) == path \in visited

(* One path of the frontier: a file is to be parsed, a directory listed.   *)
VisitFile(item) ==
  /\ toParse' = Append(toParse, item)
  /\ UNCHANGED next

VisitDir(item) ==
  LET subdirs == {n \in Names(fs, item.path) : IsSubdir(Append(item.path, n))}
      objects == (Names(fs, item.path) \ subdirs) \cap Shared
  IN /\ toParse' = toParse \o Items(SortedEntries(item.path, objects), item.rec)
     /\ next' = IF item.rec THEN next \o Items(SortedEntries(item.path, subdirs), TRUE) ELSE next

Visit ==
  /\ stage = "scan" /\ frontier # <<>>
  /\ frontier' = Tail(frontier)
  /\ visited' = visited \cup {Head(frontier).path}
  /\ CASE Seen(Head(frontier).path) -> UNCHANGED <<toParse, next>>
       [] ~Seen(Head(frontier).path) /\ IsFile(fs, Head(frontier).path) -> VisitFile(Head(frontier))
       [] OTHER -> VisitDir(Head(frontier))
  /\ UNCHANGED <<world, fs, stage, levels, cursor, pc, taken, local, index>>

(* par_map: no more workers than items.                                    *)
Spawn ==
  /\ stage = "scan" /\ frontier = <<>> /\ levels < MaxLevels
  /\ stage' = "parse"
  /\ levels' = levels + 1
  /\ cursor' = 1
  /\ pc' = [w \in Workers |-> IF w <= Len(toParse) THEN "claim" ELSE "done"]
  /\ local' = [w \in Workers |-> <<>>]
  /\ UNCHANGED <<world, fs, frontier, visited, toParse, next, taken, index>>

(* Mutant: a worker takes an item past the end.                            *)
GrabPastEnd(w) ==
  /\ pc[w] = "claim"
  /\ cursor' = cursor + 1
  /\ taken' = [taken EXCEPT ![w] = cursor]
  /\ pc' = [pc EXCEPT ![w] = IF cursor <= Len(toParse) + 1 THEN "parse" ELSE "done"]
  /\ UNCHANGED <<world, fs, stage, frontier, visited, toParse, next, levels, local, index>>

(* cursor.fetch_add.                                                       *)
Grab(w) ==
  /\ pc[w] = "claim"
  /\ cursor' = cursor + 1
  /\ taken' = [taken EXCEPT ![w] = cursor]
  /\ pc' = [pc EXCEPT ![w] = IF cursor <= Len(toParse) THEN "parse" ELSE "done"]
  /\ UNCHANGED <<world, fs, stage, frontier, visited, toParse, next, levels, local, index>>

(* parse_lib: nothing for a file that is no library, and for the detached  *)
(* debug information of one.  Empty RUNPATH entries and those with $ORIGIN *)
(* are dropped, the others inherit the library's recursion flag.           *)
LibOf(elf, item) ==
  LET Follow(dir) == IF Followable(dir) THEN <<Item(dir, item.rec)>> ELSE <<>>
  IN IF elf.kind # "elf" \/ elf.debug THEN <<>>
     ELSE <<[name |-> Last(item.path), arch |-> elf.arch, osabi |-> elf.osabi,
             dir |-> Front(item.path),
             follow |-> FlattenSeq([k \in DOMAIN elf.runpath |-> Follow(elf.runpath[k])])]>>
ParseLib(item) == LibOf(NodeAt(fs, item.path), item)

(* Mutant: the item is looked up in the cursor once it is parsed.          *)
ParseAtCursor(w) ==
  /\ pc[w] = "parse"
  /\ \E result \in {ParseLib(toParse[taken[w]])} :
       local' = [local EXCEPT ![w] =
                   @ \o [i \in DOMAIN result |-> [at |-> cursor - 1, lib |-> result[i]]]]
  /\ pc' = [pc EXCEPT ![w] = "claim"]
  /\ UNCHANGED <<world, fs, stage, frontier, visited, toParse, next, levels, cursor, taken,
                 index>>

Parse(w) ==
  /\ pc[w] = "parse"
  /\ \E result \in {ParseLib(toParse[taken[w]])} :
       local' = [local EXCEPT ![w] =
                   @ \o [i \in DOMAIN result |-> [at |-> taken[w], lib |-> result[i]]]]
  /\ pc' = [pc EXCEPT ![w] = "claim"]
  /\ UNCHANGED <<world, fs, stage, frontier, visited, toParse, next, levels, cursor, taken,
                 index>>

(* Mutant: the results stay in the order of the workers.                   *)
Joined == FlattenSeq([w \in Workers |-> local[w]])
GatherUnsorted == Joined

(* The workers are joined and their results sorted by their items: the     *)
(* k-th is the one before which k - 1 others come.                         *)
Gather ==
  LET all == Joined
      Before(i, j) == all[i].at < all[j].at \/ (all[i].at = all[j].at /\ i < j)
      Rank(j) == Cardinality({i \in DOMAIN all : Before(i, j)}) + 1
  IN [k \in DOMAIN all |-> all[CHOOSE j \in DOMAIN all : Rank(j) = k]]

Entry(lib) ==
  LET real == Canonical(fs, lib.dir)
  IN [name |-> lib.name, arch |-> lib.arch, osabi |-> lib.osabi,
      dir |-> IF real = NoPath THEN lib.dir ELSE real]

(* Mutant: the walk goes on when there is nothing left to visit.           *)
MergeForever ==
  /\ stage = "parse" /\ \A w \in Workers : pc[w] = "done"
  /\ \E results \in {Gather} :
       /\ index' = index \o [i \in DOMAIN results |-> Entry(results[i].lib)]
       /\ frontier' = next \o FlattenSeq([i \in DOMAIN results |-> results[i].lib.follow])
  /\ toParse' = <<>> /\ next' = <<>>
  /\ pc' = [w \in Workers |-> "idle"]
  /\ stage' = "scan"
  /\ UNCHANGED <<world, fs, visited, levels, cursor, taken, local>>

(* The next level: the subdirectories met, then the RUNPATH directories.   *)
Merge ==
  /\ stage = "parse" /\ \A w \in Workers : pc[w] = "done"
  /\ \E results \in {Gather} :
       /\ index' = index \o [i \in DOMAIN results |-> Entry(results[i].lib)]
       /\ frontier' = next \o FlattenSeq([i \in DOMAIN results |-> results[i].lib.follow])
  /\ toParse' = <<>> /\ next' = <<>>
  /\ pc' = [w \in Workers |-> "idle"]
  /\ stage' = IF frontier' = <<>> THEN "collect" ELSE "scan"
  /\ UNCHANGED <<world, fs, visited, levels, cursor, taken, local>>

(* osabi_compatible and Cache::find.                                       *)
OsabiCompatible(wanted, got) == wanted = got \/ wanted = "sysv" \/ got = "sysv"

Entries(name, arch) == {i \in DOMAIN index : index[i].name = name /\ index[i].arch = arch}
First(entries) == IF entries = {} THEN NoPath ELSE index[Min(entries)].dir

(* Mutant: any library of that name and architecture.                      *)
FindDirAnyAbi(name, arch, osabi) == First(Entries(name, arch))

FindDir(name, arch, osabi) ==
  First({i \in Entries(name, arch) : OsabiCompatible(osabi, index[i].osabi)})
=============================================================================
