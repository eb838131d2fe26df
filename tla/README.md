# formatelf in TLA+

formatelf edits ELF executables and shared libraries in place: interpreter, run path, needed libraries, soname, symbol names, stack flags, an entry stub, a resolution cache note.
`auto-formatelf` finds the libraries that the files of a package need and links them, in parallel.
This directory models both, checks the models with TLC and proves facts about them with TLAPS.

## The system

| Component | Source (`src/src/`) | State | Operations |
|---|---|---|---|
| file format, parser | `ir.rs`, `parser.rs`, `codec.rs` | the image: header, program and section headers, section data, dynamic array | `parse`, find a section, read a string |
| operations | `ops.rs`, `rpath.rs` | edits the image; never computes an offset | one per command line option |
| entry stub | `stub.rs` | a section, the saved entry | install, replace |
| resolution cache note | `ldcache.rs` | a section, a `PT_NOTE` | add, replace |
| layout engine | `layout.rs` | the image, the input file | `finalize`: in place, append layout, prepend layout |
| verifier | `verify.rs` | none | `run`, before anything is written |
| serializer | `serialize.rs` | the span list, the offset reached | `write_to_shifted`, one pass |
| atomic replacement | `patch.rs`, `main.rs` | a temporary file | write, flush, chmod, rename |
| `auto-formatelf` pool | `autoformatelf.rs` | a shared cursor, one list of unresolved dependencies per worker | `patch_all`, `patch_one` |
| library cache, dependency resolution | `autoformatelf.rs` | map from soname to directories, the paths visited; per-thread results | `populate`, `find`, `par_map`, `collect_files`, `report_missing` |
| symbol renaming | `symbols.rs` | `.dynsym`, `.hash`, `.gnu.hash`, versions, relocations | `rename_dynamic_symbols` |
| command lines | `cli.rs`, `main.rs` | none | parse, loop over files |

Components call one another; the only shared mutable state is the cursors of the two pools and the file system.
What is hard about them:

* **Sequences of runs.** Nothing records what an earlier run did.
  The layout engine recognises its own traces (a `PT_LOAD` that starts at `e_phoff`, a segment that starts at the stub's section) and takes them away again.
  Every sequence of runs, with either layout, with and without `--no-clobber-old-sections`, and with other tools in between, must leave a file the loader reads as intended.
* **Stale positions.** Moving sections and slots invalidates addresses in the dynamic array, offsets relative to a slot, indices into the program headers, string offsets and the saved entry.
* **Boundaries.** Zero-filled tails that the file does not hold, string slots one unit too short, windows clipped at both ends.
* **Tables that must agree.** Renaming a symbol moves it to another bucket, so the symbols are reordered, and versions, relocations and two hash tables, of which one is rebuilt from values taken before, must follow.
* **Search order.** Which of several libraries of a name is taken is the user's choice on the command line; it must not depend on threads, on how the walk of RUNPATHs and links went, or on the file system's order, and the walk must come to an end.
* **Threads, failures, crashes.** Workers race for files, one file may be listed twice, any read or write may fail, the process may be killed.

What makes a component correct is stated with its module below.
The complete list of what is hard to test, line by line, is `hazards` in `PROJECT.json`.

## The modules

    ElfImage ── Ops ───────────────────────┐
       ├────── Verify ──┬── Layout ── Linker ├── Repatch ── RepatchProps ── MCRepatch, OpsProofs
       │                └── Loader ────────┘                   └ implements ElfObject
       └────── Serialize ──┬── (Layout)
                           └── SpanWriter ── MCSpanWriter, SpanWriterProofs
    SymbolRename ── SymbolProps ── MCSymbolRename, SymbolRenameProofs
                       └ implements SymbolSet
    FileTree ─┬── LibCache ── AutoFormatelf ──┬── AutoProps ── MCAutoFormatelf, AutoProofs
              │                               │      └ implements Resolution
              └── Reachability ───────────────┴── Resolution
    PatchAll ── MCPatchAll, PatchAllProofs;  implements PatchSet
    OpsProofs ── SerializeProofs ── RepatchProofs
    SeqFacts ── the modules of proofs

| Module | Models |
|---|---|
| `ElfImage` | files and images; `parser::parse`; the methods of `ElfImage` |
| `Ops` | the operations as functions from image to image |
| `Verify` | `verify::run`, one operator per check |
| `Serialize` | what `write_to_shifted` must write; the errors it returns |
| `Layout` | `layout::finalize` with both layouts and all fixups |
| `Repatch` | one file under repeated runs (`main.rs` with all it calls) and a packer that appends a payload |
| `RepatchProps` | the properties of `Repatch` |
| `ElfObject` | abstract: an object with attributes, and edits that all happen or none |
| `Loader` | how the kernel and `ld.so` read a file; the yardstick, not code of this repository |
| `Linker` | the input files: what a static linker lays out |
| `SpanWriter` | the streaming loop of `write_to_shifted`, step by step |
| `SymbolRename` | `rename_dynamic_symbols` and `clear_symbol_version` under repeated runs |
| `SymbolSet` | abstract: symbols are a set, relocations are bound to symbols, renaming changes names only |
| `SymbolProps` | how a loader looks symbols up, and the properties of `SymbolRename` |
| `FileTree` | directories, files and symbolic links, as the kernel resolves them |
| `LibCache` | `populate`: the walk, the parsing threads (`par_map`), the merge; `find` |
| `AutoFormatelf` | a whole call: checks, cache, `collect_files`, `patch_one`, `glob_match`, the report |
| `Reachability` | what the search roots lead to, as a closure: no walk, visited set or threads |
| `Resolution` | abstract: what can be found is linked, what cannot is reported unless ignored; no walks, threads or orders |
| `AutoProps` | the properties of `AutoFormatelf` |
| `PatchAll` | worker pool, per-file steps, temporary file and rename, crash and restart |
| `PatchSet` | abstract: files replaced whole or not at all, and an answer that is true of all of them |
| `MC...` | small instances for TLC |
| `...Proofs` | theorems |
| `SeqFacts` | lemmas on numbers and induction, and on sequences, concatenation, flattening, filters and counting |

Operators marked *Mutant* in a comment are slips a programmer could make in the definition that follows.
Nothing uses them; put in the definition's place, each one breaks a property, which shows that the property can fail (`mutants` in `PROJECT.json`).

### From bytes to cells

A file is a sequence of cells, and a cell holds one whole record: the ELF header, a program header, a section header, a dynamic entry, a relocation, one unit of a string, or one opaque byte.
Offsets, sizes and addresses count cells.
The encoding of a record is abstracted away; everything about positions is kept, and a reader that looks in the wrong place finds a cell of the wrong kind.
`Width` gives each string, note and stub its length, so that strings that fit a slot, and strings one or two units too long, are both among the inputs.
A page is 8 cells, and tables and sections are aligned to 2.

### From code to actions

`Repatch.Formatelf` is a whole run: `parser::parse` (`Parse`), `ops::apply` for each operation in order (`Apply`), `layout::finalize` (`Finalize`, which ends in `verify::run` and `serialize`), then the rename.
It ends in `Patch`, the rename, or in `Reject`, a failure anywhere before it.
The functional style of the code, one image passed from call to call, makes an operator of each function: names, order and early returns are the code's.
A long function is a chain of operators, each taking what the one before computed (`RelayoutSet`, `AppendLayout`, `AppendRegion` are the thirds of `relayout`): TLC then computes every intermediate image once.
The loader never sees section headers, so all claims about a patched file are made on `View(file)`, which follows program headers and mapped addresses only.

`PatchAll` has one action per step another thread, a failure or a crash can come between: `Claim` (the `fetch_add`), `Examine` (read and decide), `Create`, `Write`, `Flush`, `Chmod`, `Persist`, and `Fail` and `PassOver` for the errors.
What `patch_one` decides about a file is the constant `Fate`.

`SymbolRename` has one action per operation, each run on the output of the one before; the stages of `rename_dynamic_symbols` are operators in the order of the code (`Renamed`, `Reordered`, `Refilled`, `RebuildSysv`).
A symbol is its name, an identity that stands for the rest of its record, and whether it is a definition.
`.dynstr` only ever grows, so a name is kept in place of its offset.
A step that would index past the end of a table is the action `RenamePanics`, which writes nothing.

Collections are sets or functions wherever the code's order does not matter, and where it does, the order is stated: `Gather` gives a result its place by the number of items before it, which is what the stable sort in `par_map` computes and what the provers can reason about (`SelectSeq` and `SortSeq` they cannot expand).

`LibCache` has one action per path the main thread visits (`Visit`), and `Grab` and `Parse` per worker: the `fetch_add`, and one call of `parse_lib`, whose result stays with the thread until it is joined in `Merge`.
In `AutoFormatelf` the files collected are patched in any order, one step each, because `PatchAll` has the interleavings of that part.
A file is what decides about it: type, interpreter, needed libraries, alternatives of `.note.dlopen`, run path, architecture, base ABI, and whether it is detached debug information.
A dependency is a single name or an absolute path (`Sonames`), and a name has no star in it (`AutoAssumption`); ignore patterns are matched against all of it, slashes included (`Spelled`).
A RUNPATH entry that is empty or has `$ORIGIN` in it leads nowhere (`Followable`); the inputs have both.
The loop of `glob_match` is a function of the number of turns, up to `MaxTurns`: each turn either moves on in the text, or passes a star of the pattern, or moves the mark, so it never takes that many.

`SpanWriter` has one action per turn of the loop: `PutSpan`, `RejectSpan`, and `PutTail` after it; `IoError` may come at any point.

## What the runs check

| Run | Instance | Question |
|---|---|---|
| `repatch` | 14 files, 5 jobs of 5 to 11 command lines, 3 runs (4 without room), packer, with and without `--no-clobber-old-sections` | does every run edit what it should and nothing else, with either layout and with the fallback between them; does the payload stay last, does a Bun template stay one; do operations compose, within a command line and over runs? |
| `rename` | 7 objects, 6 rename maps, 2 version resets, 4 runs | do both hash tables find what is there, and does everything that counts symbols follow them? |
| `auto` | 5 trees, 343 calls, 2 threads | is the index complete and in search order, is what can be found linked, is the answer true, does the call end? |
| `span_writer` | all lists of up to 3 spans | does one pass write the right file, and reject the right lists? |
| `pool` | 3 workers, 4 positions, 1 write error, 1 read error, 1 crash | are files whole, is every position done, do failures stay where they happen and are they reported, is there an answer? |

The properties, with the code they are about, are stated in comments at their definitions.
The most telling ones:

* `ImplementsObject`: what the loader reads after a run is what it read before with the requested edits, or the run was refused. The refinement covers all of `ops.rs`, `layout.rs`, `verify.rs` and `serialize.rs` at once.
* `ImageIntact`: code and data outside the edited sections stay mapped where they were, with contents and protection, however often the file is laid out again.
* `LayoutNeverRejected`: the verifier and the serializer are a safety net the layout engine never falls into.
* `OutputSound`: the bytes written parse and verify again, if the file had section headers or no layout gave it an `e_shoff` (`Sure`); the finding `sectionless_unparsable` is the exception, and these three properties name it.
* `FileUsable`: beyond that, and without the exception as far as it is not about parsing, they are a file as linkers make them, whose header, tables and sections share no byte, with one dynamic section at most; so the next run starts where the first did.
* `RldMapReachable`, `NoteAnchoredByAppend`, `PayloadLast`, `BunTemplate`: what a debugger, the loader, a self-extracting archive and `bun build --compile` need.
* `RegionReplaced`: a run replaces the region of the run before.
* `RepeatIsNoop`: an operation that states a value, repeated, changes no byte.
* `ShrinkResolves`: `--shrink-rpath`, when no directory is disallowed, leaves every needed library to be found in the directory it was found in.
* `GnuFinds`, `SysvFinds`: a lookup as the loader does it, through bloom filter, bucket and chain, finds exactly the definitions there are.
* `ImplementsSymbolSet`: versions, bodies and relocations stay with their symbols.
* `RootsOutrank`: a library that a search root offers is taken from the first root that does, however the threads raced.
* `MergedInOrder`: the results of the parsing threads are merged in the order of the items, each once, whichever thread took it.
* `AllIndexed`: the index holds what is reachable from the roots, defined without a walk, and nothing else.
* `ImplementsResolution`: run paths and answer are those of a declarative specification; `Loads` adds the loader's side: after a success every dependency is where the loader looks.
* `ImplementsPatchSet`: threads, temporary files and crashes do not show.

### Bounds

Three runs are what it takes to lay a file out, lay it out again over the first region, and see what the second left behind; without room it takes four, one of them before the room is used up.
Inputs differ in what the layout engine branches on: fixed or relocatable address, interpreter, spare dynamic slots, a spare or missing `PT_GNU_STACK`, section headers or none, text in a segment of its own or not, an overlay, a `.bun` section, a relocation that pins a section.
Each operation has arguments that fit their slot and arguments that do not.
Two workers are enough for every pair of steps to interleave; with three and a path listed twice, two can hold the same file while the third fails.
One write error, one read error and one crash can hit any step of any worker, and the crash is followed by a whole second call.
Four renamings reach a name that was freed, taken again and freed again; the hash values put several names in one bucket, an empty one beside it, and two names that differ in the lowest bit of the chain word only.
Two parsing threads and levels of up to five libraries give every order in which results can be handed in.
`MaxLinks` (the kernel's ELOOP limit) is 2, which lets a link to a directory above it be followed twice; `MaxLevels` is never reached, and `Depth` is more than the longest chain of directories and RUNPATHs.
Ignore patterns are all those of up to three characters of a, b, * and ?, and those of four without ?, against texts in which the right match is not the first.
Three spans are enough for a gap, an adjacency and an overlap in one list.

### Deadlock and fairness

The models stop when the bound on runs is reached, or when the answer is given; deadlock is not an error there.
Only the two `Terminates` need fairness.
For `AutoFormatelf` it is that the program runs at all, `WF_vars(Next)`: no thread waits for another but the main thread, and there is always one that can go on.
For `PatchAll` it is weak fairness of each worker and of the joining thread, which is what the operating system's scheduler gives every thread; `thread::scope` joins all of them, and no worker waits for another.
A crash is never assumed to happen, and after the bound on crashes none does.

## Where code and words disagree

Seven runs show a disagreement between the code and something the repository says of it (`findings` in `PROJECT.json`):

| Run | What happens |
|---|---|
| `stale_note` | after a prepend layout the new `PT_NOTE` is not anchored: its index was taken before the headers were rotated |
| `payload_clobbered` | a payload appended behind an appended region is overwritten by the next run that has no room to prepend |
| `text_unmapped` | a new stub, at 0 until placed, makes the program's own segment at 0 look like a stub's |
| `sectionless_unparsable` | a file without section headers that is laid out again does not parse any more: `e_shoff` is set all the same (`layout.rs:541`), and the parser looks there for the section count (`parser.rs:142`), past the end of the file |
| `rename_panics` | renaming a symbol of a program whose `.gnu.hash` is the empty table of `ld.bfd` panics |
| `nested_libs` | a `--libs` directory that lies below `--paths` is visited first, without recursion, and what is below it is not indexed |
| `unread_skipped` | a file that cannot be read is skipped, and the call succeeds |

More were met while modelling and have no run:

* `--remove-rpath` on a file without section headers succeeds and does nothing: `sync_dynamic` finds no section to write to (`layout.rs:89`);
* the region is stacked: `relayout` derives the new offset from every remaining segment, those that point into the dropped region included, so the next region starts behind the reclaimed one although `relocation_set` speaks of "reusing the space";
* after a prepend layout `--set-entry-stub` leaves the segment of the earlier stub in place (`layout.rs:205`), where the README says that re-running replaces the stub;
* a stub installed with `--no-clobber-old-sections` loses its segment in the next run without the flag (`layout.rs:208`), and the verifier refuses that run;
* when several workers fail, `patch_all` names the error of the one spawned first, where its doc says the first error. `PatchSet` accepts any file that failed;
* on the BSDs "libc must stay in the rpath" (`autoformatelf.rs:494`), but a libc that is not among the libraries indexed counts as found and adds no directory (`autoformatelf.rs:518`);
* relocation sections for `.symtab` are permuted as if they were for `.dynsym` (`symbols.rs:345`); the inputs hold one, and no loader reads it;
* a second call of `auto-formatelf` no longer follows the RUNPATHs the first one has overwritten.

The runs that must pass stay clear of these by their inputs: in `repatch`, files with a payload get no stub, and the job with stubs has no `--no-clobber-old-sections` and no executable segment at 0; where there is no room the packer does not run, and `NoteAnchoredByAppend` claims `NoteAnchored` only of files laid out by appending.
Files without section headers are among them, with both layouts and in several runs, but get no operation that edits the dynamic array and needs no `.dynstr`, since the edit would be lost; `OutputSound`, `FileUsable` and `LayoutNeverRejected` say what holds of them once a layout has set their `e_shoff`: the parts are sound as ever, and the next run is refused by the parser or finds a section header of zeros and goes on.
In `auto` no directory is both a root without recursion and below a recursive one.
`rename` has the table that panics; a run that panics must leave the file as it was.

## What is proved

TLC checks small instances; the theorems hold for every value of the constants, under the assumptions the modules name.

**`SpanWriterProofs`** (under `SpanWriterAssumption`: the span lists are sorted, their spans not empty, the input a sequence of cells).
`WriterFaithful`: a finished pass has written exactly the file `Serialize` states.
`WriterRejectsOverlap`: it rejects exactly the lists with an overlap or an overrun.
`WriterTypeCorrect`: it never passes the end.
The claim about the finished file says nothing about the loop, so the invariant `IInv` says what the loop has done so far: the spans before `next` lie one after the other below `cur` (`InOrder`), their cells are in place (`Placed`), and every other offset below `cur` holds the gap copy's cell (`Gaps`).
`FillCorrect` shows the clipped window of `fill` to be those cells, whatever the shift and the length.
That one comparison with the end of the previous span is enough follows from `InOrder` and the sorting.

**`PatchAllProofs`** (under `PatchAllAssumption`).
`FilesWhole`: at every moment, the file at each path is the old or the new one, complete and with its mode, for any number of workers, files, faults and crashes, and for paths listed twice.
`OneOwnerPerFile`: no position is handed out twice.
`PoolTypeCorrect`: the types.
`Whole` is not inductive: it needs what a temporary file holds at each step (`Temps`), which needs that what was read was a whole file, which is `Whole` again; and `OneOwner` needs that the cursor is past every position handed out (`Taken`).

`PatchingImplementsSet`: every behaviour of `PatchAll`, its liveness conjuncts aside, is one of `PatchSet`: whatever the threads, faults and crashes, files are seen to be replaced whole or not at all, and the answer names a file that failed, or says truly that none did and lists what is missing.
`OnlyFailuresStopPatching` (`OthersGoOn`): a position is never handed out, in a call that answers, only if every worker has failed.
The invariant `RInv` adds to that of `PatchAllProofs` what the answer is computed from: a position handed out is unreadable, settled, or with a worker that holds it or failed at it (`Accounted`); a missing dependency is with the worker that will list it or listed, once over all workers (`Told`, `Listed`, `Distinct`); and a worker returns only when none is left, or for a reason (`Returned`).

**`SymbolRenameProofs`** (under `SymbolRenameAssumption`, which types the constants, and `LinkerAssumption`: the input's hash tables list every definition).
`RenamingImplementsSet`: the permutation never shows; `SymbolSet` is implemented for every object, map and number of runs.
`GnuLookupFinds`: a lookup through `.gnu.hash` finds exactly the definitions of a name and version, for all hash functions, word sizes, numbers of buckets and symbols.
`SysvLookupFinds`: the same through `.hash`, which is patched link by link and not rebuilt by counting.
`TablesTypeCorrect`: sizes and indices.
The base is `OrderPermutes`: a stable sort by bucket, defined by counting what comes before, is a permutation, and `BackInverts` it.
From it follow that entries move as a whole (`EntriesMove`) and that relocations follow them (`RemapFollows`).
`GnuFinds` alone is not inductive, since a lookup of one name says nothing of a symbol about to be renamed to it; the invariant is `Indexed`: every definition is visited by a lookup of its own hash.
`ResultVisited` shows it of a rebuilt table: the symbols of a bucket are neighbours (`BucketsSorted`), so the chain from the first of them does not end before the one sought.
For `.hash` the walk is a recursive function, of which the proof needs two facts: a chain only goes down, so the walk ends at 0 within the number of symbols, and a link cannot step over a symbol of its own bucket.

**`AutoProofs`** (under `FileTreeAssumption`, `DepthAssumption`, `LibCacheAssumption` and `AutoAssumption`, which say that the trees are trees and type the paths and the ELF files of a call, and `FathomedAssumption`: `Depth` steps reach everything, so that `Reachable` is the closure it is meant to be; TLC evaluates all of them on the calls of the run).
`ParMapKeepsOrder` (`MergedInOrder`): for any number of threads and items, what `par_map` returns is what one thread working through the list would.
`CallTypeCorrect`: the types of a whole call, through the walk, the threads and the patching.
The invariant `CInv` follows every item: it is ahead of the cursor, held by one thread, or in one thread's results, once (`Holding`, `Kept`, `Accounted`), and when the threads are joined none is left (`Exhausted`).
That the joined results, ranked by item, are the list in order is then a matter of counting.

`LibrariesIndexed` (`AllIndexed`): when the walk has ended, the index holds exactly the libraries that the roots lead to, for every tree, every list of roots and any number of threads.
It has one condition, `OneWay`: no path is reached both with and without its subdirectories.
The condition cannot be dropped, since `visited` does not keep the flag; run `nested_libs` is a call that violates it and misses a library.
`FlatLibrariesIndexed` shows that calls with `--no-recurse`, with `--ignore-existing` or without `--libs` always meet it, and `OnlyReachableIndexed` that the other half, nothing is indexed that is not reachable, needs no condition.
`AllIndexed` speaks of the end of the walk only; the invariant `SInv` says what holds on the way:

* `Phases`: which lists are empty at which stage;
* `Sound`: what is to be visited is a reachable place, what is to be parsed is an object such a place offers, and what is indexed is a library there;
* `Thorough`: the roots lie ahead or behind, and every path visited is `Explored` with one of the flags it is reached with: its objects are indexed or about to be parsed, and its subdirectories and the directories its objects name are visited or ahead.

When nothing is ahead, what has been visited is closed under the steps of the search, and `ReachableLeast` makes that all there is (`AllVisited`).
Below these lie facts about trees: names are resolved one by one whatever links are on the way (`Resolving`, `CanonicalFront`), and `sorted_entries` lists each entry (`ByteOrder`).

`RootsOutrankLater` (`RootsOutrank`): a library that a root offers is taken from the first root that does, in any call and any tree.
Its invariant `RInv` is about order: whatever the roots themselves offer is parsed in the first level and in the order of the roots (`FirstScan`), so that each of these libraries is indexed before anything that neither its root nor an earlier one offers (`Indexed`), and the index only grows.

`EveryDependencyLoads` (`Loads`): when a call has answered that all is well, the dynamic loader finds every dependency of every file patched, unless it was to be ignored, for any tree, any number of threads and any order of the files.
It is the theorem about what users call `auto-formatelf` for, and it joins everything above: the walk, the cache, `patch_one` and the report.
Its condition is `LibcFits`: what the libc's directory holds under the names the files ask for are libraries of their target.
It cannot be dropped, since of that directory `patch_one` asks only whether a file exists (`autoformatelf.rs:509`); `LibcAssumption` shows that the calls of the run meet it.
The property speaks of the end of the call and of the tree as it is then, while a dependency is looked up earlier, through an index filled from a tree that patching changes all along.
The invariant `LInv` therefore says at each moment of the patching:

* the tree is the first one but for run paths and interpreters (`Alike`), so that every path leads where it led (`AlikeCanonical`) and a file keeps its target and its dependencies (`SameBut`);
* the files listed are nodes of it (`ListsPaths`);
* each dependency of a file settled is noted as missing, or the loader finds it now (`Served`).

The step that needs proof is a file patched among others: what is found for it, the loader finds through the run path written (`FoundLoads`, with `RunPathSet` and `FoundInReal`: an object found in a directory is found under that directory's canonical name), what was found for the others is found still (`StillFinds`), and a file listed twice is served by its second run path as it was by its first.

`GlobMatches`: `glob_match`, which goes back to the last star only, answers yes exactly when the text can be cut into one piece per character of the pattern.
The invariant of its loop (`Searching`) says that what is left of the pattern matches what is left of the text, or the last star met can be given more, if and only if the whole pattern matches the whole text: once a later star is met, what the earlier one took can stay as it is, since the later one takes anything (`MatchesStar`, `MatchesRun`).
Each turn is `Progress`, so that the loop ends within `MaxTurns`.
The text must have no star: the code compares characters before it looks for a star (`autoformatelf.rs:628`), so that `*` does not match `*x`; `AutoAssumption` says that no name has one.

`ResolutionImplemented` (`ImplementsResolution`): the call keeps the promise of `Resolution`, for any tree, any number of threads and any order of the files.
Each step of the code is a step of the promise or changes nothing it sees: a file that is a target is linked to what the libraries its roots lead to provide, nothing else is written, and a call succeeds if and only if what cannot be obtained was to be ignored, answering only when every target has been linked.
The condition is `OneWay`, as for `AllIndexed`, and calls that are flat meet it (`FlatOneWay`).
To the invariants above it adds two, both checked by TLC on the calls of the run before they were proved:

* `KInv`, of `collect_files`: what is collected and what is to be listed lies under `--paths`, and every file under them is collected or in a directory still to be listed (`Covered`), so that when the walk ends every target is in `files`;
* `WInv`, of `patch_one`: every file is as it was or a `LinkedFile`, which its run path suits; a target settled is linked, and whatever it cannot obtain is noted (`Noted`); nothing is noted that could be obtained (`Unobtained`).

A file patched twice is linked twice, to the same libraries, since what it has of the cache does not depend on its run path; the promise allows that.

**`OpsProofs`, `SerializeProofs`, `RepatchProofs`** (under `RepatchAssumption`, which types the jobs; `LayoutAssumption` and `WidthAssumption`, which type pages and string widths; and `LinkerAssumption`: the files a static linker makes are usable, which TLC evaluates on the inputs of the runs).
`OutputStaysUsable` (`FileUsable`): whatever operations the runs apply, in whatever number and order, whichever layout they take, and whoever appends a payload in between, the file is one the next run can work on.
`OutputStaysSound` (`OutputSound`): what is written parses and passes the tool's checks when it is read back from the bytes.
`SpanWriterAccepts`: the errors of the serializer are never reported; no two spans overlap, and none ends past the file.
All three name one exception, a file whose first version had no section headers and that a layout has given an `e_shoff` (`Dangling`); it cannot be dropped, as the run `sectionless_unparsable` shows.
Of such a file the parser may refuse the section count, and then the next run is refused and changes nothing; all else the theorems say holds of it too (`Coherent`).
A file that has section headers keeps them (`Sectioned`), so it never gets there.
`RepatchTypeCorrect`: the types.

`OutputSound` alone is not inductive: that a file passes the checks says nothing about what the next layout makes of it.
A file can pass them with two sections that share a byte, and an edit of one of them destroys the other; with two dynamic sections, of which the code follows the first and the loader the one mapped; or with a dynamic array, in a file without section headers, that the next program header table is written over.
The invariant `RepatchInv` therefore says that the file, and the first one, are `Coherent`:

* it is a list of cells, and a cell that looks like a record is one (`Formed`);
* its tables and sections are in the file (`TablesFit`), and it passes the checks;
* header, tables and sections share no cell (`Apart`);
* it has one dynamic section at most, and names have bytes in the file (`Regular`);
* where no section has the dynamic array, the segment that has it is alone and clear of the header and of the tables, those of an appended region included (`SegmentsClear`).

With section headers, or without an `e_shoff`, this is `Usable` (`CoherentUsable`): the count in the header is the real one, and where no section leads to the dynamic array, `SegmentsClear` has its segment in the file.

The proof follows a run from call to call.
Parsing a coherent file gives an image that is `Edited`, a relation between image and file that every operation keeps (`ParseEdited`, one lemma per operation, `ApplyEdited`, `ApplyAllEdited`): entries that hold addresses and mapped segments are still the file's, an old section has its type, its place, and its size or a size reset for the layout to set, and a new section has content and no size yet.
The layouts take it from there.
`Placing` shows what `region_layout` computes to be disjoint, for any sections, alignments and lengths; `RelocationSets` shows that what a reclaimed region held is placed again and that everything else ends before it; `RegionAppended` and `RegionPrepended` put the two together, so that header tables, placed sections and sections left in place share no cell (`Tidy`).
The fixups after that change values and not places (`AllFixed`), which makes the image one that can be written (`Laid`, by `LaidFrom`).
`Written` is the theorem about the writer: the spans dropped as unchanged are found in the gaps all the same, so the file that results holds every span of the image, parses to an image alike, and passes the checks the image has passed.
In-place edits reach the same point by `EditedInPlace`.
A payload behind the end changes none of it (`Packed`).

`UnownedStays` (`UnownedKept`): the layouts write over nothing they do not know of.
Every stretch of the first file that no header, table or section owns (`Idle`), a payload between or behind the parts included, is in the file after any sequence of runs, unbroken and still unowned; only what lies behind a region appended earlier is left out, since the next region takes that place.
The relation between a file and the one written from it is `Kept`, which is transitive, so that it is the invariant as it stands.
Each layout shows that it leaves free, moved by its shift, what was free (`Skirts`: nothing moves when the region is appended or the edit is in place, all of it moves by the region's length when it is prepended), and `Spared` follows the bytes through the writer.
`PayloadStays` (`PayloadKept`): so a payload stays readable.
It has a condition, `PacksBeforeRegion`: no packer appends its payload behind the region of an earlier run, and it is needed, since the run `payload_clobbered` shows what happens to one that does; TLC finds it true of all steps of the run `repatch`.
It also has the assumption `OverlayAssumption`, which TLC evaluates: the payload a linker's output comes with is no part of the file.
That the payload is the last thing in the file is a stronger property of the prepend layout alone, and stays with TLC (`PayloadLast`).

What these theorems do not say is that a run succeeds: `finalize` may still answer that `verify::run` refused the layout, which only the runs exclude (`LayoutNeverRejected`).

**`SeqFacts`** holds the lemmas the proofs share.
The library's induction theorems take an operator as a parameter, which the provers cannot instantiate; `SeqFacts` has induction over a set of numbers instead (`InductionOnSet`, `InductionUpTo`), and the existence of a recursive function (`RecursionExists`), with which the walk of `.hash`, the places of `region_layout`, the operations of a command line and the folds of sequences are proved about.

Only model-checked:

* of `RepatchProps`: what the loader makes of the file (`ImageIntact`, `ImplementsObject`, `NoteAnchoredByAppend`, `RldMapReachable`, `ShrinkResolves`), where the payload is (`PayloadLast`, `BunTemplate`), that no layout is refused (`LayoutNeverRejected`), and `RegionReplaced` and `RepeatIsNoop`;
* liveness (TLAPS has no ENABLED): `Terminates`.

## What is not modelled

* Byte encodings, both word sizes and byte orders (files are ELF64), and counts too large for the 16-bit fields. Of the escape to section 0 what is modelled is the other reason to take it, a section count of 0 with an `e_shoff`.
* The errors of `stub.rs` for a blob or a stub section that is too short, and those of `symbols.rs` for tables that are missing or cut short; both write nothing.
* Operations that only print.
* `.MIPS.abiflags`, references through symbol tables (a relocation stands for both), and the verifier's checks of alignments, of section links and of the NUL that ends the interpreter.
* The syntax of `.note.dlopen`, and a library that cannot be read while the cache is filled.
* Temporary files that a killed call leaves behind and the next one collects.
* Several files on one command line, and `--output`.
* A crash of the machine, with the loss of cached data; the model's crash is the death of the process.
* `cli.rs`, `error.rs`, `lib.rs`: no state.

## Plan

1. `Driver`: the loop of `main.rs` over several files, `--output`, errors part way.
2. `AutoFormatelf` over `PatchAll`: leftover temporary files collected by a second call.
3. `ExtCounts`: 16-bit counts and the section 0 escape.
4. Proofs: `ImageIntact`, for which `Written` gives the bytes and the lemmas on `Raise` and `SegmentsFrom` the addresses; `DynstrSet` leaves every other string alone; `LayoutNeverRejected`; `PayloadLast`.
