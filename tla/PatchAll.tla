------------------------------- MODULE PatchAll -------------------------------
(***************************************************************************)
(* patch_all and patch_one of src/autoformatelf.rs with patch_data of      *)
(* src/patch.rs: worker threads take files from a shared cursor, and each  *)
(* file is written to a temporary file and renamed into place.  The        *)
(* process may be killed at any moment and started again.                  *)
(*                                                                         *)
(* With one worker this is the sequential loop of patch_all: it, too,      *)
(* takes the files in order and stops at the first error.                  *)
(***************************************************************************)
EXTENDS Integers, Sequences, FiniteSets

CONSTANTS
  N,           \* number of files collected (collect_files lists a path twice
               \* when two of the given paths lead to it)
  Paths,
  PathOf,      \* the path of each position
  Fate,        \* what patch_one makes of a path (see below)
  Unresolved,  \* the paths with a dependency that no library satisfies
  NumWorkers,
  MaxFaults,   \* bound on the I/O errors of one call while writing
  MaxUnread,   \* bound on the I/O errors of one call while reading
  MaxCrashes   \* bound on the crashes of a behaviour

(* "skip": no ELF file of the target architecture; "leave": nothing to     *)
(* change; "edit": patched; "refuse": an operation fails; "reject": the    *)
(* layout engine fails.                                                    *)
Fates == {"skip", "leave", "edit", "refuse", "reject"}

ASSUME PatchAllAssumption ==
  /\ N \in Nat /\ NumWorkers \in Nat \ {0}
  /\ PathOf \in [1..N -> Paths]
  /\ Fate \in [Paths -> Fates]
  /\ Unresolved \subseteq Paths
  /\ MaxFaults \in Nat /\ MaxUnread \in Nat /\ MaxCrashes \in Nat

VARIABLES
  cursor,    \* the next position to hand out
  pc,        \* where each worker is
  item,      \* the position a worker took last, 0 if none
  data,      \* the contents it read
  tmp,       \* its temporary file, Gone if there is none
  missing,   \* the positions whose unresolved dependencies it recorded
  unread,    \* the positions whose file could not be read
  errors,    \* the positions that failed, in the order in which they did
  disk,      \* the file at each path
  answer,    \* what the call returned
  crashes    \* number of crashes so far

vars == <<cursor, pc, item, data, tmp, missing, unread, errors, disk, answer,
          crashes>>

Workers == 1..NumWorkers
Gone == [data |-> "none", mode |-> "none"]
File(d, m) == [data |-> d, mode |-> m]
None == [kind |-> "none"]

(* In the middle of a file; done with all of them; stopped by an error.    *)
Busy == {"open", "create", "write", "flush", "chmod", "persist"}
Stopped == {"ok", "err"}

Path(w) == PathOf[item[w]]

-----------------------------------------------------------------------------
Init ==
  /\ cursor = 1
  /\ pc = [w \in Workers |-> "claim"]
  /\ item = [w \in Workers |-> 0]
  /\ data = [w \in Workers |-> "none"]
  /\ tmp = [w \in Workers |-> Gone]
  /\ missing = [w \in Workers |-> <<>>]
  /\ unread = {}
  /\ errors = <<>>
  /\ disk = [p \in Paths |-> File("old", "own")]
  /\ answer = None
  /\ crashes = 0

(* Mutants: the cursor is read and not advanced; a worker takes a file     *)
(* past the end; every worker stops once one has failed.                   *)
Take(w, take, position) ==
  /\ pc[w] = "claim"
  /\ cursor' = position
  /\ IF take
     THEN pc' = [pc EXCEPT ![w] = "open"] /\ item' = [item EXCEPT ![w] = cursor]
     ELSE pc' = [pc EXCEPT ![w] = "ok"] /\ UNCHANGED item
  /\ UNCHANGED <<data, tmp, missing, unread, errors, disk, answer, crashes>>
ClaimStill(w) == Take(w, cursor <= N, cursor)
ClaimPastEnd(w) == Take(w, cursor <= N + 1, cursor + 1)
ClaimUntilError(w) ==
  Take(w, cursor <= N /\ errors = <<>>, IF errors = <<>> THEN cursor + 1 ELSE cursor)

(* cursor.fetch_add; a worker that finds no file left returns its list.    *)
Claim(w) ==
  /\ pc[w] = "claim"
  /\ cursor' = cursor + 1
  /\ IF cursor <= N
     THEN pc' = [pc EXCEPT ![w] = "open"] /\ item' = [item EXCEPT ![w] = cursor]
     ELSE pc' = [pc EXCEPT ![w] = "ok"] /\ UNCHANGED item
  /\ UNCHANGED <<data, tmp, missing, unread, errors, disk, answer, crashes>>

(* patch_one up to patch_data: read the file, decide whether it is for us, *)
(* and record the dependencies that no library satisfies.                  *)
Examine(w) ==
  /\ pc[w] = "open"
  /\ data' = [data EXCEPT ![w] = disk[Path(w)].data]
  /\ missing' = IF Fate[Path(w)] # "skip" /\ Path(w) \in Unresolved
                THEN [missing EXCEPT ![w] = Append(@, item[w])] ELSE missing
  /\ pc' = [pc EXCEPT ![w] =
              IF Fate[Path(w)] \in {"skip", "leave"} THEN "claim" ELSE "create"]
  /\ UNCHANGED <<cursor, item, tmp, unread, errors, disk, answer, crashes>>

(* read_if_elf turns an error into None: the file is passed over.          *)
PassOver(w) ==
  /\ pc[w] = "open" /\ Cardinality(unread) < MaxUnread
  /\ unread' = unread \cup {item[w]}
  /\ pc' = [pc EXCEPT ![w] = "claim"]
  /\ UNCHANGED <<cursor, item, data, tmp, missing, errors, disk, answer, crashes>>

(* The operations have been applied in memory; NamedTempFile::new_in.      *)
Create(w) ==
  /\ pc[w] = "create" /\ Fate[Path(w)] # "refuse"
  /\ tmp' = [tmp EXCEPT ![w] = File("torn", "tmp")]
  /\ pc' = [pc EXCEPT ![w] = "write"]
  /\ UNCHANGED <<cursor, item, data, missing, unread, errors, disk, answer, crashes>>

(* layout::finalize streams into the BufWriter; its tail is still there.   *)
Write(w) ==
  /\ pc[w] = "write" /\ Fate[Path(w)] # "reject"
  /\ pc' = [pc EXCEPT ![w] = "flush"]
  /\ UNCHANGED <<cursor, item, data, tmp, missing, unread, errors, disk, answer, crashes>>

(* Mutant: the BufWriter is not flushed.                                   *)
FlushNot(w) ==
  /\ pc[w] = "flush"
  /\ pc' = [pc EXCEPT ![w] = "chmod"]
  /\ UNCHANGED <<cursor, item, data, tmp, missing, unread, errors, disk, answer, crashes>>

(* What is written is the patched form of what was read; patching a        *)
(* patched file changes nothing (module Repatch).                          *)
Flush(w) ==
  /\ pc[w] = "flush"
  /\ tmp' = [tmp EXCEPT ![w].data = IF data[w] = "torn" THEN "torn" ELSE "new"]
  /\ pc' = [pc EXCEPT ![w] = "chmod"]
  /\ UNCHANGED <<cursor, item, data, missing, unread, errors, disk, answer, crashes>>

(* The temporary file takes the mode of the file at the path now.          *)
Chmod(w) ==
  /\ pc[w] = "chmod"
  /\ tmp' = [tmp EXCEPT ![w].mode = disk[Path(w)].mode]
  /\ pc' = [pc EXCEPT ![w] = "persist"]
  /\ UNCHANGED <<cursor, item, data, missing, unread, errors, disk, answer, crashes>>

(* tmp.persist: the rename; then on to the next file.                      *)
Persist(w) ==
  /\ pc[w] = "persist"
  /\ disk' = [disk EXCEPT ![Path(w)] = tmp[w]]
  /\ tmp' = [tmp EXCEPT ![w] = Gone]
  /\ pc' = [pc EXCEPT ![w] = "claim"]
  /\ UNCHANGED <<cursor, item, data, missing, unread, errors, answer, crashes>>

(* patch_one returns an error: dropping the NamedTempFile deletes it, the  *)
(* worker's list is lost and the worker takes no more files.               *)
Fail(w) ==
  /\ \/ pc[w] = "create" /\ Fate[Path(w)] = "refuse"
     \/ pc[w] = "write" /\ Fate[Path(w)] = "reject"
     \/ /\ pc[w] \in {"create", "write", "flush", "persist"}
        /\ Len(errors) < MaxFaults
  /\ errors' = Append(errors, item[w])
  /\ tmp' = [tmp EXCEPT ![w] = Gone]
  /\ missing' = [missing EXCEPT ![w] = <<>>]
  /\ pc' = [pc EXCEPT ![w] = "err"]
  /\ UNCHANGED <<cursor, item, data, unread, disk, answer, crashes>>

-----------------------------------------------------------------------------
(* All workers are joined, in the order they were spawned; the first that  *)
(* returned an error decides, else the lists are put together.             *)
Failed == {w \in Workers : pc[w] = "err"}
Lowest(S) == CHOOSE w \in S : \A v \in S : w <= v
Items(w) == {missing[w][i] : i \in DOMAIN missing[w]}
Lines == {<<w, i>> : w \in Workers, i \in 1..N}
Total == Cardinality({l \in Lines : l[2] \in DOMAIN missing[l[1]]})

(* Mutants: only the first worker's list is kept; the workers that fail    *)
(* are waited for as well.                                                 *)
JoinFirst ==
  /\ answer = None
  /\ \A w \in Workers : pc[w] \in Stopped
  /\ answer' = IF Failed # {} THEN [kind |-> "err", at |-> item[Lowest(Failed)]]
               ELSE [kind |-> "ok", missing |-> Items(1), count |-> Len(missing[1])]
  /\ UNCHANGED <<cursor, pc, item, data, tmp, missing, unread, errors, disk, crashes>>
JoinAllOk ==
  /\ answer = None
  /\ \A w \in Workers : pc[w] = "ok"
  /\ answer' = [kind |-> "ok", missing |-> UNION {Items(w) : w \in Workers}, count |-> Total]
  /\ UNCHANGED <<cursor, pc, item, data, tmp, missing, unread, errors, disk, crashes>>

Join ==
  /\ answer = None
  /\ \A w \in Workers : pc[w] \in Stopped
  /\ answer' = IF Failed # {} THEN [kind |-> "err", at |-> item[Lowest(Failed)]]
               ELSE [kind |-> "ok", missing |-> UNION {Items(w) : w \in Workers},
                     count |-> Total]
  /\ UNCHANGED <<cursor, pc, item, data, tmp, missing, unread, errors, disk, crashes>>

(* The process is killed and auto-formatelf is started again: nothing but  *)
(* the files themselves survives.                                          *)
Crash ==
  /\ answer = None /\ crashes < MaxCrashes
  /\ crashes' = crashes + 1
  /\ cursor' = 1
  /\ pc' = [w \in Workers |-> "claim"]
  /\ item' = [w \in Workers |-> 0]
  /\ data' = [w \in Workers |-> "none"]
  /\ tmp' = [w \in Workers |-> Gone]
  /\ missing' = [w \in Workers |-> <<>>]
  /\ unread' = {}
  /\ errors' = <<>>
  /\ UNCHANGED <<disk, answer>>

Step(w) ==
  \/ Claim(w) \/ Examine(w) \/ PassOver(w) \/ Create(w)
  \/ Write(w) \/ Flush(w) \/ Chmod(w) \/ Persist(w) \/ Fail(w)

Next == (\E w \in Workers : Step(w)) \/ Join \/ Crash

Spec == Init /\ [][Next]_vars

(* The operating system schedules every thread, the main thread included.  *)
FairSpec == Spec /\ (\A w \in Workers : WF_vars(Step(w))) /\ WF_vars(Join)

-----------------------------------------------------------------------------
(* Types (PatchAll's variables).                                           *)
Data == {"old", "new"}
TypeOK ==
  /\ cursor \in Nat \ {0}
  /\ pc \in [Workers -> {"claim"} \cup Busy \cup Stopped]
  /\ item \in [Workers -> 0..N]
  /\ data \in [Workers -> Data \cup {"none"}]
  /\ tmp \in [Workers -> [data : {"none", "torn", "new"}, mode : {"none", "tmp", "own"}]]
  /\ missing \in [Workers -> Seq(1..N)]
  /\ unread \subseteq 1..N
  /\ errors \in Seq(1..N)
  /\ disk \in [Paths -> [data : Data \cup {"torn"}, mode : {"tmp", "own"}]]
  /\ answer.kind \in {"none", "ok", "err"}
  /\ crashes \in 0..MaxCrashes

(* A crash or a failing write never leaves a half-written file, and the    *)
(* original mode is preserved (doc of patch_data), also when two workers   *)
(* hold the same path at once.                                             *)
Whole == \A p \in Paths : disk[p] \in {File("old", "own"), File("new", "own")}

(* The shared cursor gives every file to one worker (patch_all,            *)
(* fetch_add): two workers on the same file have taken two positions.      *)
OneOwner ==
  \A v, w \in Workers : (v # w /\ item[v] # 0) => item[v] # item[w]

(* A failing file stops only the worker that had it (patch_all): files     *)
(* stay untouched at the end only if every worker failed.                  *)
Abandoned == {i \in 1..N : i >= cursor}
OthersGoOn == (answer # None /\ Abandoned # {}) => Failed = Workers

(* Threads, temporary files and crashes do not show: the call replaces     *)
(* files whole and answers for all of them that it could read.             *)
Set == INSTANCE PatchSet WITH Faults <- MaxFaults > 0, omitted <- unread
ImplementsPatchSet == Set!SetSpec

(* Every call comes to an answer unless it is killed (thread::scope joins  *)
(* all workers).                                                           *)
Terminates == <>(answer # None)

(* "Returns an error [...] if a file cannot be patched" (doc of run): with  *)
(* an answer of success, every file that wanted it is patched.             *)
SuccessMeansPatched ==
  answer.kind = "ok" =>
    \A i \in 1..N : Fate[PathOf[i]] = "edit" => disk[PathOf[i]].data = "new"
=============================================================================
