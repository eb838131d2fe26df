------------------------------- MODULE PatchSet -------------------------------
(***************************************************************************)
(* What auto-formatelf promises of a set of files, without its threads:    *)
(* every file is replaced whole or not at all, and the answer tells the    *)
(* truth about all of them, but for those that could not be read.          *)
(***************************************************************************)
EXTENDS Integers, FiniteSets

CONSTANTS
  N,           \* number of files collected, each by its position
  Paths,
  PathOf,      \* the path of each position
  Fate,        \* what becomes of a path: "skip", "leave", "edit", "refuse", "reject"
  Unresolved,  \* the paths with a dependency that no library satisfies
  Faults       \* may reading or writing files fail?

VARIABLES
  disk,        \* the file at each path
  omitted,     \* the positions whose file could not be read
  answer       \* "none", or the outcome of the call

Old == [data |-> "old", mode |-> "own"]
New == [data |-> "new", mode |-> "own"]
None == [kind |-> "none"]

Seen == (1..N) \ omitted
Wanted == {p \in Paths : Fate[p] = "edit"}
Bad == {p \in Paths : Fate[p] \in {"refuse", "reject"}}
Reported == {i \in Seen : PathOf[i] \in Unresolved /\ Fate[PathOf[i]] # "skip"}

Init == disk = [p \in Paths |-> Old] /\ omitted = {} /\ answer = None

Replace(p) ==
  /\ p \in Wanted /\ answer = None
  /\ disk' = [disk EXCEPT ![p] = New]
  /\ UNCHANGED <<omitted, answer>>

Omit(i) ==
  /\ answer = None
  /\ omitted' = omitted \cup {i}
  /\ UNCHANGED <<disk, answer>>

(* The call is made once more, after a crash.                              *)
Again ==
  /\ answer = None
  /\ omitted' = {}
  /\ UNCHANGED <<disk, answer>>

(* All files are patched, and every unresolved dependency is reported once.*)
Succeed ==
  /\ answer = None
  /\ \A i \in Seen : PathOf[i] \notin Bad
  /\ \A i \in Seen : PathOf[i] \in Wanted => disk[PathOf[i]] = New
  /\ answer' = [kind |-> "ok", missing |-> Reported, count |-> Cardinality(Reported)]
  /\ UNCHANGED <<disk, omitted>>

(* Some file could not be patched, and the answer names one such.          *)
GiveUp ==
  /\ answer = None
  /\ \E i \in Seen :
       /\ Faults \/ PathOf[i] \in Bad
       /\ answer' = [kind |-> "err", at |-> i]
  /\ UNCHANGED <<disk, omitted>>

Next ==
  \/ \E p \in Paths : Replace(p)
  \/ \E i \in 1..N : Omit(i)
  \/ Again \/ Succeed \/ GiveUp

SetSpec == Init /\ [][Next]_<<disk, omitted, answer>>
=============================================================================
