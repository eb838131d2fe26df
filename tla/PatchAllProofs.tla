---------------------------- MODULE PatchAllProofs ----------------------------
(***************************************************************************)
(* Proofs about PatchAll, for any number of files, workers, faults and     *)
(* crashes: no file is ever half-written, no position is handed out twice, *)
(* and it implements PatchSet: what the threads did in between never shows,*)
(* the answer is true, and every unresolved dependency is reported once.   *)
(***************************************************************************)
EXTENDS PatchAll, SeqFacts

(* What a worker's temporary file holds at each point of patch_data.       *)
Temps ==
  \A w \in Workers :
    /\ pc[w] \in {"create", "write", "flush"} => data[w] \in Data
    /\ pc[w] \in {"write", "flush"} => tmp[w] = File("torn", "tmp")
    /\ pc[w] = "chmod" => tmp[w] = File("new", "tmp")
    /\ pc[w] = "persist" => tmp[w] = File("new", "own")

(* The cursor has passed every position handed out.                        *)
Taken ==
  \A w \in Workers :
    /\ item[w] < cursor
    /\ pc[w] \in Busy => item[w] \in 1..N

IInv == TypeOK /\ Temps /\ Taken /\ Whole /\ OneOwner

LEMMA InitInv == Init => IInv
<1> SUFFICES ASSUME Init PROVE IInv
  OBVIOUS
<1>1. TypeOK
  BY PatchAllAssumption DEF Init, TypeOK, File, Gone, None, Data, Workers
<1>2. Temps /\ Taken /\ Whole /\ OneOwner
  BY DEF Init, Temps, Taken, Whole, OneOwner, Busy
<1> QED  BY <1>1, <1>2 DEF IInv

-----------------------------------------------------------------------------
(* One lemma per action of a worker.                                       *)
LEMMA ClaimInv == ASSUME IInv, NEW w \in Workers, Claim(w) PROVE IInv'
<1>1. cursor' = cursor + 1 /\ cursor \in Nat \ {0} /\ N \in Nat
  BY PatchAllAssumption DEF IInv, TypeOK, Claim
<1>2. UNCHANGED <<data, tmp, missing, unread, errors, disk, answer, crashes>>
  BY DEF Claim
<1>3. /\ pc \in [Workers -> {"claim"} \cup Busy \cup Stopped]
      /\ item \in [Workers -> 0..N]
  BY DEF IInv, TypeOK
<1>4. CASE /\ cursor <= N
           /\ pc' = [pc EXCEPT ![w] = "open"] /\ item' = [item EXCEPT ![w] = cursor]
  <2>1. cursor \in 1..N
    BY <1>1, <1>4
  <2>2. item' \in [Workers -> 0..N]
    BY <1>1, <1>3, <1>4, <2>1
  <2>3. pc' \in [Workers -> {"claim"} \cup Busy \cup Stopped]
    BY <1>3, <1>4 DEF Busy
  <2>4. TypeOK'
    BY <1>1, <1>2, <2>2, <2>3 DEF IInv, TypeOK
  <2>5. Temps'
    BY <1>2, <1>3, <1>4 DEF IInv, Temps
  <2>6. Taken'
    <3>1. ASSUME NEW v \in Workers
          PROVE  item'[v] < cursor' /\ (pc'[v] \in Busy => item'[v] \in 1..N)
      <4>1. item[v] < cursor /\ item[v] \in 0..N /\ (pc[v] \in Busy => item[v] \in 1..N)
        BY <1>3 DEF IInv, Taken
      <4>2. CASE v = w
        BY <1>1, <1>3, <1>4, <2>1, <4>2
      <4>3. CASE v # w
        <5>1. item'[v] = item[v] /\ pc'[v] = pc[v]
          BY <1>3, <1>4, <4>3
        <5> QED  BY <1>1, <4>1, <5>1
      <4> QED  BY <4>2, <4>3
    <3> QED  BY <3>1 DEF Taken
  <2>7. Whole'
    BY <1>2 DEF IInv, Whole
  <2>8. OneOwner'
    <3>1. \A v \in Workers : item[v] \in 0..N /\ item[v] # cursor
      BY <1>1, <1>3 DEF IInv, Taken
    <3> QED  BY <1>3, <1>4, <3>1 DEF IInv, OneOwner
  <2> QED  BY <2>4, <2>5, <2>6, <2>7, <2>8 DEF IInv
<1>5. CASE pc' = [pc EXCEPT ![w] = "ok"] /\ UNCHANGED item
  <2>1. pc' \in [Workers -> {"claim"} \cup Busy \cup Stopped]
    BY <1>3, <1>5 DEF Stopped
  <2>2. TypeOK'
    BY <1>1, <1>2, <1>5, <2>1 DEF IInv, TypeOK
  <2>3. Temps'
    BY <1>2, <1>3, <1>5 DEF IInv, Temps
  <2>4. Taken'
    <3>1. \A v \in Workers : item[v] \in 0..N
      BY <1>3
    <3> QED  BY <1>1, <1>3, <1>5, <3>1 DEF IInv, Taken, Busy
  <2>5. Whole' /\ OneOwner'
    BY <1>2, <1>5 DEF IInv, Whole, OneOwner
  <2> QED  BY <2>2, <2>3, <2>4, <2>5 DEF IInv
<1> QED  BY <1>4, <1>5 DEF Claim

LEMMA ExamineInv == ASSUME IInv, NEW w \in Workers, Examine(w) PROVE IInv'
<1> USE DEF Examine
<1>1. item[w] \in 1..N /\ Path(w) \in Paths
  BY PatchAllAssumption DEF IInv, Taken, Busy, Path
<1>2. disk[Path(w)].data \in Data
  BY <1>1 DEF IInv, Whole, File, Data
<1>3. missing' \in [Workers -> Seq(1..N)]
  <2>1. Append(missing[w], item[w]) \in Seq(1..N)
    BY <1>1 DEF IInv, TypeOK
  <2> QED  BY <2>1 DEF IInv, TypeOK
<1>4. TypeOK'
  BY <1>2, <1>3 DEF IInv, TypeOK, Busy
<1>5. Temps'
  BY <1>2 DEF IInv, TypeOK, Temps
<1>6. Taken'
  BY <1>1 DEF IInv, TypeOK, Taken, Busy
<1>7. Whole' /\ OneOwner'
  BY DEF IInv, Whole, OneOwner
<1> QED  BY <1>4, <1>5, <1>6, <1>7 DEF IInv

LEMMA PassOverInv == ASSUME IInv, NEW w \in Workers, PassOver(w) PROVE IInv'
<1> USE DEF PassOver
<1>1. item[w] \in 1..N
  BY DEF IInv, Taken, Busy
<1>2. TypeOK'
  BY <1>1 DEF IInv, TypeOK, Busy
<1>3. Temps' /\ Taken'
  BY DEF IInv, TypeOK, Temps, Taken, Busy
<1>4. Whole' /\ OneOwner'
  BY DEF IInv, Whole, OneOwner
<1> QED  BY <1>2, <1>3, <1>4 DEF IInv

LEMMA CreateInv == ASSUME IInv, NEW w \in Workers, Create(w) PROVE IInv'
<1> USE DEF Create
<1>1. TypeOK'
  BY DEF IInv, TypeOK, Busy, File
<1>2. Temps'
  BY DEF IInv, TypeOK, Temps
<1>3. Taken'
  BY DEF IInv, TypeOK, Taken, Busy
<1>4. Whole' /\ OneOwner'
  BY DEF IInv, Whole, OneOwner
<1> QED  BY <1>1, <1>2, <1>3, <1>4 DEF IInv

LEMMA WriteInv == ASSUME IInv, NEW w \in Workers, Write(w) PROVE IInv'
<1> USE DEF Write
<1>1. TypeOK'
  BY DEF IInv, TypeOK, Busy
<1>2. Temps' /\ Taken'
  BY DEF IInv, TypeOK, Temps, Taken, Busy
<1>3. Whole' /\ OneOwner'
  BY DEF IInv, Whole, OneOwner
<1> QED  BY <1>1, <1>2, <1>3 DEF IInv

LEMMA FlushInv == ASSUME IInv, NEW w \in Workers, Flush(w) PROVE IInv'
<1> USE DEF Flush
<1>1. tmp' = [tmp EXCEPT ![w] = File("new", "tmp")]
  <2>1. data[w] # "torn" /\ tmp[w] = File("torn", "tmp")
    BY DEF IInv, Temps, Data
  <2>2. tmp' = [tmp EXCEPT ![w] = [@ EXCEPT !.data = "new"]]
    BY <2>1
  <2>3. [tmp[w] EXCEPT !.data = "new"] = File("new", "tmp")
    BY <2>1 DEF File
  <2> QED  BY <2>2, <2>3
<1>2. TypeOK'
  <2>1. File("new", "tmp") \in [data : {"none", "torn", "new"}, mode : {"none", "tmp", "own"}]
    BY DEF File
  <2>2. tmp' \in [Workers -> [data : {"none", "torn", "new"}, mode : {"none", "tmp", "own"}]]
    <3>1. tmp \in [Workers -> [data : {"none", "torn", "new"}, mode : {"none", "tmp", "own"}]]
      BY DEF IInv, TypeOK
    <3> QED  BY <3>1, <1>1, <2>1, SMTT(30)
  <2> QED  BY <2>2 DEF IInv, TypeOK, Busy
<1>3. Temps'
  BY <1>1 DEF IInv, TypeOK, Temps
<1>4. Taken'
  BY DEF IInv, TypeOK, Taken, Busy
<1>5. Whole' /\ OneOwner'
  BY DEF IInv, Whole, OneOwner
<1> QED  BY <1>2, <1>3, <1>4, <1>5 DEF IInv

LEMMA ChmodInv == ASSUME IInv, NEW w \in Workers, Chmod(w) PROVE IInv'
<1> USE DEF Chmod
<1>1. Path(w) \in Paths
  BY PatchAllAssumption DEF IInv, Taken, Busy, Path
<1>2. tmp' = [tmp EXCEPT ![w] = File("new", "own")]
  <2>1. disk[Path(w)].mode = "own" /\ tmp[w] = File("new", "tmp")
    BY <1>1 DEF IInv, Temps, Whole, File
  <2>2. tmp' = [tmp EXCEPT ![w] = [@ EXCEPT !.mode = "own"]]
    BY <2>1
  <2>3. [tmp[w] EXCEPT !.mode = "own"] = File("new", "own")
    BY <2>1 DEF File
  <2> QED  BY <2>2, <2>3
<1>3. TypeOK'
  <2>1. File("new", "own") \in [data : {"none", "torn", "new"}, mode : {"none", "tmp", "own"}]
    BY DEF File
  <2>2. tmp' \in [Workers -> [data : {"none", "torn", "new"}, mode : {"none", "tmp", "own"}]]
    BY <1>2, <2>1 DEF IInv, TypeOK
  <2> QED  BY <2>2 DEF IInv, TypeOK, Busy
<1>4. Temps'
  BY <1>2 DEF IInv, TypeOK, Temps
<1>5. Taken'
  BY DEF IInv, TypeOK, Taken, Busy
<1>6. Whole' /\ OneOwner'
  BY DEF IInv, Whole, OneOwner
<1> QED  BY <1>3, <1>4, <1>5, <1>6 DEF IInv

LEMMA PersistInv == ASSUME IInv, NEW w \in Workers, Persist(w) PROVE IInv'
<1> USE DEF Persist
<1>1. Path(w) \in Paths /\ tmp[w] = File("new", "own")
  BY PatchAllAssumption DEF IInv, Taken, Temps, Busy, Path
<1>2. TypeOK'
  BY <1>1 DEF IInv, TypeOK, File, Gone, Data
<1>3. Temps'
  BY DEF IInv, TypeOK, Temps
<1>4. Taken'
  BY DEF IInv, TypeOK, Taken, Busy
<1>5. Whole'
  BY <1>1 DEF IInv, TypeOK, Whole
<1>6. OneOwner'
  BY DEF IInv, OneOwner
<1> QED  BY <1>2, <1>3, <1>4, <1>5, <1>6 DEF IInv

LEMMA FailInv == ASSUME IInv, NEW w \in Workers, Fail(w) PROVE IInv'
<1> USE DEF Fail
<1>1. item[w] \in 1..N
  BY DEF IInv, Taken, Busy
<1>2. errors' \in Seq(1..N) /\ <<>> \in Seq(1..N)
  BY <1>1 DEF IInv, TypeOK
<1>3. TypeOK'
  BY <1>2 DEF IInv, TypeOK, Stopped, Gone
<1>4. Temps'
  BY DEF IInv, TypeOK, Temps
<1>5. Taken'
  BY DEF IInv, TypeOK, Taken, Busy
<1>6. Whole' /\ OneOwner'
  BY DEF IInv, Whole, OneOwner
<1> QED  BY <1>3, <1>4, <1>5, <1>6 DEF IInv

LEMMA JoinInv == ASSUME IInv, Join PROVE IInv'
<1> USE DEF Join
<1>1. answer'.kind \in {"ok", "err"}
  OBVIOUS
<1>2. TypeOK'
  BY <1>1 DEF IInv, TypeOK
<1>3. Temps' /\ Taken' /\ Whole' /\ OneOwner'
  BY DEF IInv, Temps, Taken, Whole, OneOwner
<1> QED  BY <1>2, <1>3 DEF IInv

LEMMA CrashInv == ASSUME IInv, Crash PROVE IInv'
<1> USE DEF Crash
<1>1. <<>> \in Seq(1..N)
  OBVIOUS
<1>2. TypeOK'
  BY <1>1, PatchAllAssumption DEF IInv, TypeOK, Gone
<1>3. Temps' /\ Taken' /\ Whole' /\ OneOwner'
  BY DEF IInv, Temps, Taken, Whole, OneOwner, Busy
<1> QED  BY <1>2, <1>3 DEF IInv

LEMMA NextInv == IInv /\ [Next]_vars => IInv'
<1> SUFFICES ASSUME IInv, [Next]_vars PROVE IInv'
  OBVIOUS
<1>1. ASSUME NEW w \in Workers, Step(w) PROVE IInv'
  BY <1>1, ClaimInv, ExamineInv, PassOverInv, CreateInv, WriteInv, FlushInv,
     ChmodInv, PersistInv, FailInv DEF Step
<1>2. CASE UNCHANGED vars
  BY <1>2 DEF vars, IInv, TypeOK, Temps, Taken, Whole, OneOwner
<1> QED  BY <1>1, <1>2, JoinInv, CrashInv DEF Next

LEMMA Inductive == Spec => []IInv
<1>1. Init => IInv
  BY InitInv
<1>2. IInv /\ [Next]_vars => IInv'
  BY NextInv
<1> QED  BY <1>1, <1>2, PTL DEF Spec

-----------------------------------------------------------------------------
(* TypeOK for any number of files, workers, faults and crashes.            *)
THEOREM PoolTypeCorrect == Spec => []TypeOK
<1>1. IInv => TypeOK
  BY DEF IInv
<1> QED  BY <1>1, Inductive, PTL

(* Whole: whatever the interleaving, wherever a write fails and whenever   *)
(* the process is killed, the file at each path is the old or the new one, *)
(* complete and with its mode (patch_data's temporary file and rename).    *)
THEOREM FilesWhole == Spec => []Whole
<1>1. IInv => Whole
  BY DEF IInv
<1> QED  BY <1>1, Inductive, PTL

(* OneOwner: no two workers ever hold the same position, because the       *)
(* cursor patch_all shares has already passed every position handed out.   *)
THEOREM OneOwnerPerFile == Spec => []OneOwner
<1>1. IInv => OneOwner
  BY DEF IInv
<1> QED  BY <1>1, Inductive, PTL

(* A file that reaches a step of patch_data is one that gets there.        *)
Edited ==
  \A w \in Workers :
    /\ pc[w] = "create" => Fate[Path(w)] \in {"edit", "refuse", "reject"}
    /\ pc[w] = "write" => Fate[Path(w)] \in {"edit", "reject"}
    /\ pc[w] \in {"flush", "chmod", "persist"} => Fate[Path(w)] = "edit"

(* Nobody works any more once there is an answer; a worker returns its     *)
(* list only when no file is left, and an error only for a reason.         *)
Answered == answer # None => \A w \in Workers : pc[w] \in Stopped
Returned ==
  \A w \in Workers :
    /\ pc[w] = "ok" => cursor > N
    /\ pc[w] = "err" => /\ item[w] \in 1..N
                        /\ MaxFaults > 0 \/ Fate[Path(w)] \in {"refuse", "reject"}

(* A file in a worker's hands has been read.                               *)
Held(w) == pc[w] \in Busy \cup {"err"}
Readable ==
  /\ \A w \in Workers : Held(w) => item[w] \notin unread
  /\ \A i \in unread : i < cursor

(* What is listed as missing: once, and for good reason.                   *)
Lacks(i) == PathOf[i] \in Unresolved /\ Fate[PathOf[i]] # "skip"
Listed ==
  \A w \in Workers : \A k \in DOMAIN missing[w] :
    /\ missing[w][k] < cursor /\ missing[w][k] \notin unread /\ Lacks(missing[w][k])
    /\ \A v \in Workers : pc[v] = "open" => missing[w][k] # item[v]
Distinct ==
  \A v, w \in Workers : \A j \in DOMAIN missing[v], k \in DOMAIN missing[w] :
    missing[v][j] = missing[w][k] => v = w /\ j = k

(* Every position handed out is accounted for.                             *)
Settled(i) ==
  \/ Fate[PathOf[i]] \in {"skip", "leave"}
  \/ Fate[PathOf[i]] = "edit" /\ disk[PathOf[i]] = File("new", "own")
Accounted ==
  \A i \in 1..N : i < cursor =>
    i \in unread \/ Settled(i) \/ \E w \in Workers : item[w] = i /\ Held(w)
Told ==
  \A i \in 1..N : (i < cursor /\ Lacks(i)) =>
    \/ i \in unread
    \/ \E w \in Workers : pc[w] = "err" \/ (item[w] = i /\ pc[w] = "open") \/ i \in Items(w)

RInv ==
  /\ IInv /\ Edited /\ Answered /\ Returned /\ Readable
  /\ Listed /\ Distinct /\ Accounted /\ Told

(* IInv is proved inductive in PatchAllProofs; Extra is the rest.          *)
Extra ==
  Edited /\ Answered /\ Returned /\ Readable /\ Listed /\ Distinct /\ Accounted /\ Told

LEMMA Facts ==
  ASSUME RInv
  PROVE  /\ N \in Nat /\ cursor \in Nat /\ Workers = 1..NumWorkers /\ MaxFaults \in Nat
         /\ pc \in [Workers -> {"claim"} \cup Busy \cup Stopped]
         /\ item \in [Workers -> 0..N]
         /\ missing \in [Workers -> Seq(1..N)]
         /\ unread \in SUBSET (1..N)
         /\ disk \in [Paths -> [data : Data \cup {"torn"}, mode : {"tmp", "own"}]]
         /\ \A w \in Workers : /\ item[w] < cursor
                               /\ pc[w] \in Busy => item[w] \in 1..N
BY PatchAllAssumption DEF RInv, IInv, TypeOK, Taken, Workers

LEMMA InitExtra == Init => Extra
<1> SUFFICES ASSUME Init PROVE Extra
  OBVIOUS
<1>1. Edited /\ Answered /\ Returned /\ Readable
  BY DEF Init, Edited, Answered, Returned, Readable, Held, Busy, Stopped, None
<1>2. Listed /\ Distinct
  BY DEF Init, Listed, Distinct
<1>3. Accounted /\ Told
  BY PatchAllAssumption DEF Init, Accounted, Told
<1> QED
  BY <1>1, <1>2, <1>3 DEF Extra

(* A step of patch_data between two of its points: only the worker's place *)
(* and its temporary file change.                                          *)
LEMMA MiddleExtra ==
  ASSUME RInv, NEW w \in Workers, NEW s \in Busy \ {"open", "create"},
         pc[w] \in Busy \ {"open"}, pc' = [pc EXCEPT ![w] = s],
         UNCHANGED <<cursor, item, missing, unread, disk, answer>>,
         s = "write" => Fate[Path(w)] \in {"edit", "reject"},
         s \in {"flush", "chmod", "persist"} => Fate[Path(w)] = "edit"
  PROVE  Extra'
<1>1. /\ pc'[w] = s
      /\ \A v \in Workers : v # w => pc'[v] = pc[v]
      /\ \A v \in Workers : Path(v)' = Path(v)
  BY Facts DEF Path
<1>2. Edited'
  BY <1>1 DEF RInv, Edited, Busy
<1>3. Answered'
  BY <1>1 DEF RInv, Answered, Busy, Stopped
<1>4. Returned'
  BY <1>1 DEF RInv, Returned, Busy
<1>5. \A v \in Workers : Held(v)' <=> Held(v)
  BY <1>1 DEF Held, Busy
<1>6. \A v \in Workers : (pc'[v] = "open" <=> pc[v] = "open") /\ (pc'[v] = "err" <=> pc[v] = "err")
  BY <1>1 DEF Busy
<1>7. Readable'
  BY <1>5 DEF RInv, Readable
<1>8. Listed' /\ Distinct'
  BY <1>6 DEF RInv, Listed, Distinct, Lacks
<1>9. Accounted'
  BY <1>5 DEF RInv, Accounted, Settled
<1>10. Told'
  BY <1>6 DEF RInv, Told, Lacks, Items
<1> QED
  BY <1>2, <1>3, <1>4, <1>7, <1>8, <1>9, <1>10 DEF Extra

LEMMA CreateExtra == ASSUME RInv, NEW w \in Workers, Create(w) PROVE Extra'
<1>1. Fate[Path(w)] \in {"edit", "reject"}
  BY DEF Create, RInv, Edited
<1> QED
  BY <1>1, MiddleExtra DEF Create, Busy

LEMMA WriteExtra == ASSUME RInv, NEW w \in Workers, Write(w) PROVE Extra'
<1>1. Fate[Path(w)] = "edit"
  BY DEF Write, RInv, Edited
<1> QED
  BY <1>1, MiddleExtra DEF Write, Busy

LEMMA FlushExtra == ASSUME RInv, NEW w \in Workers, Flush(w) PROVE Extra'
<1>1. Fate[Path(w)] = "edit"
  BY DEF Flush, RInv, Edited
<1> QED
  BY <1>1, MiddleExtra DEF Flush, Busy

LEMMA ChmodExtra == ASSUME RInv, NEW w \in Workers, Chmod(w) PROVE Extra'
<1>1. Fate[Path(w)] = "edit"
  BY DEF Chmod, RInv, Edited
<1> QED
  BY <1>1, MiddleExtra DEF Chmod, Busy

(* A new position: nobody has it, nothing is known of it.                  *)
LEMMA ClaimExtra == ASSUME RInv, NEW w \in Workers, Claim(w) PROVE Extra'
<1>1. /\ cursor' = cursor + 1
      /\ UNCHANGED <<missing, unread, disk, answer>>
      /\ pc[w] = "claim"
  BY DEF Claim
<1>2. answer = None
  BY <1>1 DEF RInv, Answered, Stopped
<1>3. \A v \in Workers : \A k \in DOMAIN missing[v] : missing[v][k] \in 1..N
  BY Facts
<1>4. CASE /\ cursor <= N
           /\ pc' = [pc EXCEPT ![w] = "open"] /\ item' = [item EXCEPT ![w] = cursor]
  <2>1. /\ pc'[w] = "open" /\ item'[w] = cursor
        /\ \A v \in Workers : v # w => pc'[v] = pc[v] /\ item'[v] = item[v] /\ Path(v)' = Path(v)
    BY <1>4, Facts DEF Path
  <2>2. Edited' /\ Answered'
    BY <1>1, <1>2, <2>1 DEF RInv, Edited, Answered
  <2>3. Returned'
    BY <1>1, <2>1, Facts DEF RInv, Returned
  <2>4. cursor \notin unread
    BY Facts DEF RInv, Readable
  <2>5. \A v \in Workers : v # w => (Held(v)' <=> Held(v))
    BY <2>1 DEF Held
  <2>6. Readable'
    <3>1. \A v \in Workers : Held(v)' => item'[v] \notin unread
      BY <2>1, <2>4, <2>5 DEF RInv, Readable
    <3>2. \A i \in unread : i < cursor + 1
      BY Facts DEF RInv, Readable
    <3> QED
      BY <1>1, <3>1, <3>2 DEF Readable
  <2>7. Listed'
    <3> SUFFICES ASSUME NEW v \in Workers, NEW k \in DOMAIN missing[v]
                 PROVE  /\ missing[v][k] < cursor + 1
                        /\ missing[v][k] \notin unread /\ Lacks(missing[v][k])
                        /\ \A u \in Workers : pc'[u] = "open" => missing[v][k] # item'[u]
      BY <1>1 DEF Listed, Lacks
    <3>1. /\ missing[v][k] < cursor /\ missing[v][k] \notin unread /\ Lacks(missing[v][k])
          /\ \A u \in Workers : pc[u] = "open" => missing[v][k] # item[u]
      BY DEF RInv, Listed
    <3>2. missing[v][k] \in 1..N
      BY <1>3
    <3>3. ASSUME NEW u \in Workers, pc'[u] = "open" PROVE missing[v][k] # item'[u]
      <4>1. CASE u = w
        BY <2>1, <3>1, <3>2, <4>1, Facts
      <4>2. CASE u # w
        BY <2>1, <3>1, <3>3, <4>2
      <4> QED
        BY <4>1, <4>2
    <3> QED
      BY <3>1, <3>2, <3>3, Facts
  <2>8. Distinct'
    BY <1>1 DEF RInv, Distinct
  <2>9. Accounted'
    <3> SUFFICES ASSUME NEW i \in 1..N, i < cursor + 1
                 PROVE  i \in unread \/ Settled(i) \/ \E v \in Workers : item'[v] = i /\ Held(v)'
      BY <1>1 DEF Accounted, Settled
    <3>1. CASE i = cursor
      BY <2>1, <3>1 DEF Held, Busy
    <3>2. CASE i < cursor
      <4>1. \A v \in Workers : Held(v) => v # w
        BY <1>1 DEF Held, Busy
      <4>2. i \in unread \/ Settled(i) \/ \E v \in Workers : item[v] = i /\ Held(v)
        BY <3>2 DEF RInv, Accounted
      <4> QED
        BY <2>1, <2>5, <4>1, <4>2
    <3> QED
      BY <3>1, <3>2, Facts
  <2>10. Told'
    <3> SUFFICES ASSUME NEW i \in 1..N, i < cursor + 1, Lacks(i)
                 PROVE  \/ i \in unread
                        \/ \E v \in Workers : \/ pc'[v] = "err" \/ (item'[v] = i /\ pc'[v] = "open")
                                             \/ i \in Items(v)
      BY <1>1 DEF Told, Lacks, Items
    <3>1. CASE i = cursor
      BY <2>1, <3>1
    <3>2. CASE i < cursor
      <4>1. PICK v \in Workers : \/ i \in unread
                                \/ pc[v] = "err" \/ (item[v] = i /\ pc[v] = "open") \/ i \in Items(v)
        BY <3>2 DEF RInv, Told
      <4> QED
        BY <1>1, <2>1, <4>1
    <3> QED
      BY <3>1, <3>2, Facts
  <2> QED
    BY <2>2, <2>3, <2>6, <2>7, <2>8, <2>9, <2>10 DEF Extra
<1>5. CASE cursor > N /\ pc' = [pc EXCEPT ![w] = "ok"] /\ UNCHANGED item
  <2>1. /\ pc'[w] = "ok"
        /\ \A v \in Workers : v # w => pc'[v] = pc[v]
        /\ \A v \in Workers : Path(v)' = Path(v)
    BY <1>5, Facts DEF Path
  <2>2. Edited' /\ Answered'
    BY <1>1, <1>2, <2>1 DEF RInv, Edited, Answered
  <2>3. Returned'
    BY <1>1, <1>5, <2>1, Facts DEF RInv, Returned
  <2>4. ASSUME NEW v \in Workers
        PROVE  (Held(v)' <=> Held(v)) /\ (pc'[v] = "open" <=> pc[v] = "open")
    <3>1. CASE v = w
      BY <1>1, <2>1, <3>1 DEF Held, Busy
    <3>2. CASE v # w
      BY <2>1, <3>2 DEF Held
    <3> QED
      BY <3>1, <3>2
  <2>5. \A i \in 1..N : i < cursor
    BY <1>5, Facts
  <2>6. Readable'
    BY <1>1, <1>5, <2>4, <2>5, Facts DEF RInv, Readable
  <2>7. Listed'
    <3>1. \A v \in Workers : \A k \in DOMAIN missing[v] : missing[v][k] < cursor'
      BY <1>1, <1>3, <2>5, Facts
    <3> QED
      BY <1>1, <1>5, <2>4, <3>1 DEF RInv, Listed, Lacks
  <2>8. Distinct'
    BY <1>1 DEF RInv, Distinct
  <2>9. Accounted'
    BY <1>1, <1>5, <2>4, <2>5 DEF RInv, Accounted, Settled
  <2>10. Told'
    <3>1. \A v \in Workers : pc'[v] = "err" <=> pc[v] = "err"
      BY <1>1, <2>1
    <3> QED
      BY <1>1, <1>5, <2>4, <2>5, <3>1 DEF RInv, Told, Lacks, Items
  <2> QED
    BY <2>2, <2>3, <2>6, <2>7, <2>8, <2>9, <2>10 DEF Extra
<1> QED
  BY <1>4, <1>5, Facts DEF Claim

(* The file is read: its missing dependencies go on the worker's list, or  *)
(* it is settled, or it goes on to patch_data.                             *)
LEMMA ExamineExtra == ASSUME RInv, NEW w \in Workers, Examine(w) PROVE Extra'
<1>1. /\ UNCHANGED <<cursor, item, unread, disk, answer>>
      /\ pc[w] = "open" /\ item[w] \in 1..N /\ item[w] < cursor /\ item[w] \notin unread
      /\ answer = None
  BY Facts DEF Examine, RInv, Readable, Answered, Held, Busy, Stopped
<1>2. /\ pc'[w] = IF Fate[Path(w)] \in {"skip", "leave"} THEN "claim" ELSE "create"
      /\ \A v \in Workers : v # w => pc'[v] = pc[v]
      /\ \A v \in Workers : Path(v)' = Path(v)
  BY <1>1, Facts DEF Examine, Path
<1>3. Path(w) \in Paths /\ Fate[Path(w)] \in Fates /\ Path(w) = PathOf[item[w]]
  BY <1>1, PatchAllAssumption DEF Path
<1>4. \A v \in Workers : v # w => item[v] # item[w]
  BY <1>1 DEF RInv, IInv, OneOwner
<1>5. /\ \A v \in Workers : v # w => (Held(v)' <=> Held(v))
      /\ \A v \in Workers : Held(v)' => Held(v)
      /\ ~Settled(item[w]) => Held(w)'
  <2>1. \A v \in Workers : v # w => (Held(v)' <=> Held(v))
    BY <1>2 DEF Held
  <2>2. Held(w)
    BY <1>1 DEF Held, Busy
  <2>3. ~Settled(item[w]) => Held(w)'
    BY <1>2, <1>3 DEF Settled, Held, Busy
  <2> QED
    BY <2>1, <2>2, <2>3
<1>6. Edited'
  BY <1>2, <1>3 DEF RInv, Edited, Fates
<1>7. Answered' /\ Returned'
  BY <1>1, <1>2 DEF RInv, Answered, Returned
<1>8. Readable'
  BY <1>1, <1>5 DEF RInv, Readable
<1>9. Accounted'
  <2> SUFFICES ASSUME NEW i \in 1..N, i < cursor
               PROVE  i \in unread \/ Settled(i) \/ \E v \in Workers : item[v] = i /\ Held(v)'
    BY <1>1 DEF Accounted, Settled
  <2>1. i \in unread \/ Settled(i) \/ \E v \in Workers : item[v] = i /\ Held(v)
    BY DEF RInv, Accounted
  <2> QED
    BY <1>5, <2>1
<1>10. CASE Lacks(item[w]) /\ missing' = [missing EXCEPT ![w] = Append(@, item[w])]
  <2>1. /\ missing'[w] = Append(missing[w], item[w]) /\ missing[w] \in Seq(1..N)
        /\ \A v \in Workers : v # w => missing'[v] = missing[v]
    BY <1>10, Facts
  <2>2. /\ DOMAIN missing[w] = 1..Len(missing[w]) /\ Len(missing[w]) \in Nat
        /\ DOMAIN missing'[w] = 1..Len(missing[w]) + 1
        /\ missing'[w][Len(missing[w]) + 1] = item[w]
        /\ \A k \in DOMAIN missing[w] : missing'[w][k] = missing[w][k]
    BY <2>1
  <2>3. ASSUME NEW v \in Workers, NEW k \in DOMAIN missing'[v]
        PROVE  \/ k \in DOMAIN missing[v] /\ missing'[v][k] = missing[v][k]
               \/ v = w /\ k = Len(missing[w]) + 1 /\ missing'[v][k] = item[w]
    <3>1. CASE v = w
      BY <2>2, <2>3, <3>1
    <3>2. CASE v # w
      BY <2>1, <2>3, <3>2
    <3> QED
      BY <3>1, <3>2
  <2>4. \A v \in Workers : pc'[v] = "open" => pc[v] = "open" /\ v # w
    BY <1>1, <1>2
  <2>5. Listed'
    <3> SUFFICES ASSUME NEW v \in Workers, NEW k \in DOMAIN missing'[v]
                 PROVE  /\ missing'[v][k] < cursor /\ missing'[v][k] \notin unread
                        /\ Lacks(missing'[v][k])
                        /\ \A u \in Workers : pc'[u] = "open" => missing'[v][k] # item[u]
      BY <1>1 DEF Listed, Lacks
    <3>1. CASE k \in DOMAIN missing[v] /\ missing'[v][k] = missing[v][k]
      BY <2>4, <3>1 DEF RInv, Listed
    <3>2. CASE missing'[v][k] = item[w]
      BY <1>1, <1>4, <1>10, <2>4, <3>2
    <3> QED
      BY <2>3, <3>1, <3>2
  <2>6. Distinct'
    <3> SUFFICES ASSUME NEW u \in Workers, NEW v \in Workers,
                        NEW j \in DOMAIN missing'[u], NEW k \in DOMAIN missing'[v],
                        missing'[u][j] = missing'[v][k]
                 PROVE  u = v /\ j = k
      BY DEF Distinct
    <3>1. \A x \in Workers : \A i \in DOMAIN missing[x] : missing[x][i] # item[w]
      BY <1>1 DEF RInv, Listed
    <3> QED
      BY <2>3, <3>1 DEF RInv, Distinct
  <2>7. /\ item[w] \in Items(w)'
        /\ \A v \in Workers : \A i \in Items(v) : i \in Items(v)'
    <3>1. item[w] \in Items(w)'
      BY <2>2 DEF Items
    <3>2. ASSUME NEW v \in Workers, NEW k \in DOMAIN missing[v]
          PROVE  k \in DOMAIN missing'[v] /\ missing'[v][k] = missing[v][k]
      BY <2>1, <2>2
    <3> QED
      BY <3>1, <3>2 DEF Items
  <2>8. Told'
    <3> SUFFICES ASSUME NEW i \in 1..N, i < cursor, Lacks(i)
                 PROVE  \/ i \in unread
                        \/ \E v \in Workers : \/ pc'[v] = "err" \/ (item[v] = i /\ pc'[v] = "open")
                                             \/ i \in Items(v)'
      BY <1>1 DEF Told, Lacks
    <3>1. PICK v \in Workers : \/ i \in unread
                              \/ pc[v] = "err" \/ (item[v] = i /\ pc[v] = "open") \/ i \in Items(v)
      BY DEF RInv, Told
    <3> QED
      BY <1>1, <1>2, <2>7, <3>1
  <2> QED
    BY <1>6, <1>7, <1>8, <1>9, <2>5, <2>6, <2>8 DEF Extra
<1>11. CASE ~Lacks(item[w]) /\ missing' = missing
  <2>1. \A v \in Workers : pc'[v] = "open" => pc[v] = "open"
    BY <1>2
  <2>2. Listed' /\ Distinct'
    BY <1>1, <1>11, <2>1 DEF RInv, Listed, Distinct, Lacks
  <2>3. Told'
    <3> SUFFICES ASSUME NEW i \in 1..N, i < cursor, Lacks(i)
                 PROVE  \/ i \in unread
                        \/ \E v \in Workers : \/ pc'[v] = "err" \/ (item[v] = i /\ pc'[v] = "open")
                                             \/ i \in Items(v)
      BY <1>1, <1>11 DEF Told, Lacks, Items
    <3>1. PICK v \in Workers : \/ i \in unread
                              \/ pc[v] = "err" \/ (item[v] = i /\ pc[v] = "open") \/ i \in Items(v)
      BY DEF RInv, Told
    <3> QED
      BY <1>1, <1>2, <1>11, <3>1
  <2> QED
    BY <1>6, <1>7, <1>8, <1>9, <2>2, <2>3 DEF Extra
<1> QED
  BY <1>3, <1>10, <1>11 DEF Examine, Lacks

LEMMA PassOverExtra == ASSUME RInv, NEW w \in Workers, PassOver(w) PROVE Extra'
<1>1. /\ UNCHANGED <<cursor, item, missing, disk, answer>>
      /\ unread' = unread \cup {item[w]}
      /\ pc[w] = "open" /\ item[w] \in 1..N /\ item[w] < cursor
      /\ answer = None
  BY Facts DEF PassOver, RInv, Answered, Busy, Stopped
<1>2. /\ pc'[w] = "claim"
      /\ \A v \in Workers : v # w => pc'[v] = pc[v]
      /\ \A v \in Workers : Path(v)' = Path(v)
  BY <1>1, Facts DEF PassOver, Path
<1>3. \A v \in Workers : v # w => item[v] # item[w]
  BY <1>1 DEF RInv, IInv, OneOwner
<1>4. /\ \A v \in Workers : v # w => (Held(v)' <=> Held(v))
      /\ ~Held(w)'
  BY <1>2 DEF Held, Busy
<1>5. Edited' /\ Answered' /\ Returned'
  BY <1>1, <1>2 DEF RInv, Edited, Answered, Returned
<1>6. Readable'
  BY <1>1, <1>3, <1>4 DEF RInv, Readable
<1>7. Listed' /\ Distinct'
  <2>1. \A v \in Workers : pc'[v] = "open" => pc[v] = "open"
    BY <1>2
  <2>2. \A v \in Workers : \A k \in DOMAIN missing[v] : missing[v][k] # item[w]
    BY <1>1 DEF RInv, Listed
  <2> QED
    BY <1>1, <2>1, <2>2 DEF RInv, Listed, Distinct, Lacks
<1>8. Accounted'
  BY <1>1, <1>4 DEF RInv, Accounted, Settled
<1>9. Told'
  <2> SUFFICES ASSUME NEW i \in 1..N, i < cursor, Lacks(i), i # item[w]
               PROVE  \/ i \in unread
                      \/ \E v \in Workers : \/ pc'[v] = "err" \/ (item[v] = i /\ pc'[v] = "open")
                                           \/ i \in Items(v)
    BY <1>1 DEF Told, Lacks, Items
  <2>1. PICK v \in Workers : \/ i \in unread
                            \/ pc[v] = "err" \/ (item[v] = i /\ pc[v] = "open") \/ i \in Items(v)
    BY DEF RInv, Told
  <2> QED
    BY <1>1, <1>2, <2>1
<1> QED
  BY <1>5, <1>6, <1>7, <1>8, <1>9 DEF Extra

LEMMA PersistExtra == ASSUME RInv, NEW w \in Workers, Persist(w) PROVE Extra'
<1>1. /\ UNCHANGED <<cursor, item, missing, unread, answer>>
      /\ disk' = [disk EXCEPT ![Path(w)] = File("new", "own")]
      /\ pc[w] = "persist" /\ item[w] \in 1..N /\ Fate[Path(w)] = "edit"
      /\ answer = None
  BY Facts DEF Persist, RInv, IInv, Temps, Edited, Answered, Busy, Stopped
<1>2. /\ pc'[w] = "claim"
      /\ \A v \in Workers : v # w => pc'[v] = pc[v]
      /\ \A v \in Workers : Path(v)' = Path(v)
  BY <1>1, Facts DEF Persist, Path
<1>3. /\ \A v \in Workers : v # w => (Held(v)' <=> Held(v))
      /\ ~Held(w)'
  BY <1>2 DEF Held, Busy
<1>4. Edited' /\ Answered' /\ Returned'
  BY <1>1, <1>2 DEF RInv, Edited, Answered, Returned
<1>5. Readable'
  BY <1>1, <1>3 DEF RInv, Readable
<1>6. /\ \A v \in Workers : pc'[v] = "open" <=> pc[v] = "open"
      /\ \A v \in Workers : pc'[v] = "err" <=> pc[v] = "err"
  BY <1>1, <1>2
<1>7. Listed' /\ Distinct'
  BY <1>1, <1>6 DEF RInv, Listed, Distinct, Lacks
<1>8. Told'
  BY <1>1, <1>6 DEF RInv, Told, Lacks, Items
<1>9. Accounted'
  <2>1. ASSUME NEW i \in 1..N, Settled(i) PROVE Settled(i)'
    <3>1. PathOf[i] \in Paths
      BY PatchAllAssumption
    <3> QED
      BY <1>1, <2>1, <3>1, Facts DEF Settled
  <2>2. ASSUME NEW i \in 1..N, i = item[w] PROVE Settled(i)'
    <3>1. PathOf[i] \in Paths /\ Path(w) = PathOf[i]
      BY <2>2, PatchAllAssumption DEF Path
    <3> QED
      BY <1>1, <2>2, <3>1, Facts DEF Settled
  <2> SUFFICES ASSUME NEW i \in 1..N, i < cursor
               PROVE  i \in unread \/ Settled(i)' \/ \E v \in Workers : item[v] = i /\ Held(v)'
    BY <1>1 DEF Accounted
  <2>3. i \in unread \/ Settled(i) \/ \E v \in Workers : item[v] = i /\ Held(v)
    BY DEF RInv, Accounted
  <2>4. ASSUME NEW v \in Workers, item[v] = i, Held(v)
        PROVE  Settled(i)' \/ (item[v] = i /\ Held(v)')
    <3>1. CASE v = w
      BY <2>2, <2>4, <3>1
    <3>2. CASE v # w
      BY <1>3, <2>4, <3>2
    <3> QED
      BY <3>1, <3>2
  <2> QED
    BY <2>1, <2>3, <2>4
<1> QED
  BY <1>4, <1>5, <1>7, <1>8, <1>9 DEF Extra

(* The worker's list is lost with it, and the call is going to fail.       *)
LEMMA FailExtra == ASSUME RInv, NEW w \in Workers, Fail(w) PROVE Extra'
<1>1. /\ UNCHANGED <<cursor, item, unread, disk, answer>>
      /\ missing' = [missing EXCEPT ![w] = <<>>] /\ pc' = [pc EXCEPT ![w] = "err"]
      /\ pc[w] \in {"create", "write", "flush", "persist"}
  BY DEF Fail
<1>2. item[w] \in 1..N /\ answer = None
  BY <1>1, Facts DEF RInv, Answered, Busy, Stopped
<1>3. /\ pc'[w] = "err" /\ missing'[w] = <<>>
      /\ \A v \in Workers : v # w => pc'[v] = pc[v] /\ missing'[v] = missing[v]
      /\ \A v \in Workers : Path(v)' = Path(v)
  BY <1>1, Facts DEF Path
<1>4. \A v \in Workers : Held(v)' <=> Held(v)
  BY <1>1, <1>3 DEF Held, Busy
<1>5. Edited' /\ Answered'
  BY <1>1, <1>2, <1>3 DEF RInv, Edited, Answered
<1>6. Returned'
  <2>1. MaxFaults > 0 \/ Fate[Path(w)] \in {"refuse", "reject"}
    <3>1. CASE Len(errors) < MaxFaults
      <4>1. Len(errors) \in Nat
        BY DEF RInv, IInv, TypeOK
      <4> QED
        BY <3>1, <4>1, Facts
    <3> QED
      BY <3>1 DEF Fail
  <2> QED
    BY <1>1, <1>2, <1>3, <2>1 DEF RInv, Returned
<1>7. Readable' /\ Accounted'
  BY <1>1, <1>4 DEF RInv, Readable, Accounted, Settled
<1>8. ASSUME NEW v \in Workers, NEW k \in DOMAIN missing'[v]
      PROVE  k \in DOMAIN missing[v] /\ missing'[v][k] = missing[v][k]
  BY <1>3, <1>8
<1>9. Listed'
  <2>1. \A v \in Workers : pc'[v] = "open" => pc[v] = "open"
    BY <1>3
  <2> QED
    BY <1>1, <1>8, <2>1 DEF RInv, Listed, Lacks
<1>10. Distinct'
  BY <1>8 DEF RInv, Distinct
<1>11. Told'
  BY <1>3 DEF Told
<1> QED
  BY <1>5, <1>6, <1>7, <1>9, <1>10, <1>11 DEF Extra

LEMMA JoinExtra == ASSUME RInv, Join PROVE Extra'
<1>1. /\ UNCHANGED <<cursor, pc, item, missing, unread, disk>>
      /\ \A w \in Workers : pc[w] \in Stopped
  BY DEF Join
<1> QED
  BY <1>1 DEF RInv, Extra, Edited, Answered, Returned, Readable, Listed, Distinct, Accounted,
              Told, Held, Path, Lacks, Items, Settled

LEMMA CrashExtra == ASSUME RInv, Crash PROVE Extra'
<1>1. /\ cursor' = 1 /\ unread' = {} /\ answer' = None
      /\ \A w \in Workers : pc'[w] = "claim" /\ missing'[w] = <<>>
  BY DEF Crash
<1>2. Edited' /\ Answered' /\ Returned' /\ Readable'
  BY <1>1 DEF Edited, Answered, Returned, Readable, Held, Busy
<1>3. Listed' /\ Distinct'
  BY <1>1 DEF Listed, Distinct
<1>4. Accounted' /\ Told'
  BY <1>1, PatchAllAssumption DEF Accounted, Told
<1> QED
  BY <1>2, <1>3, <1>4 DEF Extra

LEMMA NextRInv == RInv /\ [Next]_vars => RInv'
<1> SUFFICES ASSUME RInv, [Next]_vars PROVE RInv'
  OBVIOUS
<1>1. ASSUME NEW w \in Workers, Step(w) PROVE Extra'
  BY <1>1, ClaimExtra, ExamineExtra, PassOverExtra, CreateExtra, WriteExtra, FlushExtra,
     ChmodExtra, PersistExtra, FailExtra DEF Step
<1>2. ASSUME UNCHANGED vars PROVE Extra'
  BY <1>2 DEF vars, RInv, Extra, Edited, Answered, Returned, Readable, Listed, Distinct,
              Accounted, Told, Held, Path, Lacks, Items, Settled
<1>3. Extra'
  BY <1>1, <1>2, JoinExtra, CrashExtra DEF Next
<1>4. IInv'
  BY NextInv DEF RInv
<1> QED
  BY <1>3, <1>4 DEF RInv, Extra

LEMMA InductiveR == Spec => []RInv
<1>1. Init => RInv
  BY InitInv, InitExtra DEF RInv, Extra
<1>2. RInv /\ [Next]_vars => RInv'
  BY NextRInv
<1> QED
  BY <1>1, <1>2, PTL DEF Spec

-----------------------------------------------------------------------------
(* OthersGoOn, for any number of files and workers: a position is left     *)
(* over in an answered call only if every worker had a file that failed.   *)
THEOREM OnlyFailuresStopPatching == Spec => []OthersGoOn
<1>1. RInv => OthersGoOn
  <2> SUFFICES ASSUME RInv, answer # None, Abandoned # {} PROVE Failed = Workers
    BY DEF OthersGoOn
  <2>1. N \in Nat /\ cursor \in Nat /\ cursor <= N
    BY Facts DEF Abandoned
  <2>2. ASSUME NEW w \in Workers PROVE pc[w] = "err"
    <3>1. pc[w] \in Stopped
      BY DEF RInv, Answered
    <3>2. pc[w] # "ok"
      BY <2>1 DEF RInv, Returned
    <3> QED
      BY <3>1, <3>2 DEF Stopped
  <2> QED
    BY <2>2 DEF Failed
<1> QED
  BY <1>1, InductiveR, PTL

(* The worker whose error is reported is one that failed.                  *)
LEMMA LowestIsLowest ==
  ASSUME NEW S \in SUBSET Workers, S # {}
  PROVE  Lowest(S) \in S
<1>1. S \subseteq Nat
  BY PatchAllAssumption DEF Workers
<1>2. \E x \in S : \A y \in S : x <= y
  BY <1>1, LeastNatural
<1> QED
  BY <1>2 DEF Lowest

(* The lists, put together, hold what is to be reported.                   *)
LEMMA ListsComplete ==
  ASSUME RInv, \A w \in Workers : pc[w] = "ok"
  PROVE  UNION {Items(w) : w \in Workers} = Set!Reported
<1>1. 1 \in Workers /\ N \in Nat /\ cursor \in Nat
  BY Facts, PatchAllAssumption DEF Workers
<1>2. \A i \in 1..N : i < cursor
  BY <1>1 DEF RInv, Returned
<1>3. ASSUME NEW w \in Workers, NEW k \in DOMAIN missing[w]
      PROVE  missing[w][k] \in Set!Reported
  <2>1. missing[w][k] \in 1..N
    BY Facts
  <2> QED
    BY <2>1 DEF RInv, Listed, Lacks, Set!Reported, Set!Seen
<1>4. ASSUME NEW i \in Set!Reported
      PROVE  \E w \in Workers : i \in Items(w)
  BY <1>2 DEF RInv, Told, Lacks, Set!Reported, Set!Seen
<1> QED
  BY <1>3, <1>4 DEF Items

(* Nothing is listed twice, so the lists are as long as that.              *)
LEMMA ListsCounted ==
  ASSUME RInv, \A w \in Workers : pc[w] = "ok"
  PROVE  Total = Cardinality(Set!Reported)
<1> DEFINE L == {l \in Lines : l[2] \in DOMAIN missing[l[1]]}
           f == [l \in L |-> missing[l[1]][l[2]]]
<1>1. N \in Nat /\ IsFiniteSet(1..N) /\ Cardinality(1..N) = N
  <2>1. N \in Nat
    BY Facts
  <2> QED
    BY <2>1, FS_Interval
<1>2. ASSUME NEW w \in Workers PROVE DOMAIN missing[w] \subseteq 1..N
  <2>1. /\ missing[w] \in [1..Len(missing[w]) -> 1..N] /\ Len(missing[w]) \in Nat
        /\ DOMAIN missing[w] = 1..Len(missing[w])
    BY Facts
  <2>2. missing[w] \in Injection(1..Len(missing[w]), 1..N)
    BY <2>1 DEF RInv, Distinct, Injection, IsInjective
  <2>3. Cardinality(1..Len(missing[w])) <= N
    BY <1>1, <2>2, FS_Injection
  <2>4. Cardinality(1..Len(missing[w])) = Len(missing[w])
    BY <2>1, FS_Interval
  <2> QED
    BY <1>1, <2>1, <2>3, <2>4
<1>3. \A l \in L : l[1] \in Workers /\ l[2] \in DOMAIN missing[l[1]] /\ l = <<l[1], l[2]>>
  BY DEF Lines
<1>4. \A w \in Workers : \A k \in DOMAIN missing[w] :
        <<w, k>> \in L /\ <<w, k>>[1] = w /\ <<w, k>>[2] = k
  BY <1>2 DEF Lines
<1> HIDE DEF L
<1>5. UNION {Items(w) : w \in Workers} = Set!Reported
  BY ListsComplete
<1>6. f \in Bijection(L, Set!Reported)
  <2>1. f \in [L -> Set!Reported]
    <3>1. ASSUME NEW l \in L PROVE missing[l[1]][l[2]] \in Set!Reported
      BY <1>3, <1>5 DEF Items
    <3> QED
      BY <3>1
  <2>2. \A l, m \in L : f[l] = f[m] => l = m
    BY <1>3 DEF RInv, Distinct
  <2>3. \A i \in Set!Reported : \E l \in L : f[l] = i
    <3> TAKE i \in Set!Reported
    <3>1. PICK w \in Workers : i \in Items(w)
      BY <1>5
    <3>2. PICK k \in DOMAIN missing[w] : missing[w][k] = i
      BY <3>1 DEF Items
    <3>3. <<w, k>> \in L /\ <<w, k>>[1] = w /\ <<w, k>>[2] = k
      BY <1>4
    <3> QED
      BY <3>2, <3>3
  <2> QED
    BY <2>1, <2>2, <2>3 DEF Bijection, Injection, Surjection, IsInjective
<1>7. IsFiniteSet(Set!Reported)
  <2>1. Set!Reported \in SUBSET (1..N)
    BY DEF Set!Reported, Set!Seen
  <2> QED
    BY <1>1, <2>1, FS_Subset
<1>8. Cardinality(L) = Cardinality(Set!Reported)
  <2> HIDE DEF f
  <2>1. ExistsBijection(L, Set!Reported)
    BY <1>6 DEF ExistsBijection
  <2>2. ExistsBijection(Set!Reported, L)
    BY <2>1, Fun_ExistsBijSymmetric
  <2> QED
    BY <1>7, <2>2, FS_Bijection
<1> QED
  BY <1>8 DEF L, Total

(* The abstract specification counts as this one does.                     *)
LEMMA SameCount == \A S : Set!Cardinality(S) = Cardinality(S)
BY Zenon DEF Set!Cardinality, Cardinality, Set!IsFiniteSet, IsFiniteSet

LEMMA JoinStep == ASSUME RInv, Join PROVE Set!Next
<1>1. /\ answer = None /\ UNCHANGED <<unread, disk>>
      /\ \A w \in Workers : pc[w] \in Stopped
  BY DEF Join
<1>2. CASE Failed # {}
  <2>1. Lowest(Failed) \in Failed
    BY <1>2, LowestIsLowest DEF Failed
  <2> DEFINE w == Lowest(Failed)
             i == item[w]
  <2>2. w \in Workers /\ pc[w] = "err"
    BY <2>1 DEF Failed
  <2>3. i \in 1..N /\ i \notin unread /\ (MaxFaults > 0 \/ Fate[PathOf[i]] \in {"refuse", "reject"})
    BY <2>2 DEF RInv, Returned, Readable, Held, Path
  <2>4. PathOf[i] \in Paths
    BY <2>3, PatchAllAssumption
  <2>5. answer' = [kind |-> "err", at |-> i]
    BY <1>2 DEF Join
  <2>6. Set!GiveUp
    BY <1>1, <2>3, <2>4, <2>5 DEF Set!GiveUp, Set!Seen, Set!Bad, Set!None, None
  <2> QED
    BY <2>6 DEF Set!Next
<1>3. CASE Failed = {}
  <2>1. \A w \in Workers : pc[w] = "ok"
    BY <1>1, <1>3 DEF Failed, Stopped
  <2>2. answer' = [kind |-> "ok", missing |-> Set!Reported, count |-> Cardinality(Set!Reported)]
    BY <1>3, <2>1, ListsComplete, ListsCounted DEF Join
  <2>3. ASSUME NEW i \in Set!Seen
        PROVE  Settled(i) /\ PathOf[i] \in Paths
    <3>1. 1 \in Workers /\ N \in Nat /\ cursor \in Nat /\ i \in 1..N /\ i \notin unread
      BY Facts, PatchAllAssumption DEF Workers, Set!Seen
    <3>2. i < cursor
      BY <2>1, <3>1 DEF RInv, Returned
    <3>3. \A w \in Workers : ~Held(w)
      BY <2>1 DEF Held, Busy
    <3> QED
      BY <3>1, <3>2, <3>3, PatchAllAssumption DEF RInv, Accounted
  <2>4. Set!Succeed
    BY <1>1, <2>2, <2>3, SameCount
       DEF Set!Succeed, Set!Bad, Set!Wanted, Set!New, Settled, File, Set!None, None
  <2> QED
    BY <2>4 DEF Set!Next
<1> QED
  BY <1>2, <1>3

LEMMA WorkerStep ==
  ASSUME RInv, NEW w \in Workers, Step(w)
  PROVE  Set!Next \/ UNCHANGED <<disk, unread, answer>>
<1>1. pc[w] \notin Stopped
  BY DEF Step, Claim, Examine, PassOver, Create, Write, Flush, Chmod, Persist, Fail, Stopped
<1>2. answer = Set!None
  BY <1>1 DEF RInv, Answered, Set!None, None
<1>3. CASE PassOver(w)
  <2>1. item[w] \in 1..N
    BY <1>3, Facts DEF PassOver, Busy
  <2>2. Set!Omit(item[w])
    BY <1>2, <1>3 DEF PassOver, Set!Omit
  <2> QED
    BY <2>1, <2>2 DEF Set!Next
<1>4. CASE Persist(w)
  <2>1. item[w] \in 1..N /\ Fate[Path(w)] = "edit" /\ tmp[w] = File("new", "own")
    BY <1>4, Facts DEF Persist, RInv, IInv, Temps, Edited, Busy
  <2>2. Path(w) \in Paths
    BY <2>1, PatchAllAssumption DEF Path
  <2>3. Set!Replace(Path(w))
    BY <1>2, <1>4, <2>1, <2>2 DEF Persist, Set!Replace, Set!Wanted, Set!New, File
  <2> QED
    BY <2>2, <2>3 DEF Set!Next
<1>5. CASE ~PassOver(w) /\ ~Persist(w)
  BY <1>5 DEF Step, Claim, Examine, Create, Write, Flush, Chmod, Fail
<1> QED
  BY <1>3, <1>4, <1>5

(* The threads, the temporary files and the crashes do not show: for any   *)
(* number of files, workers, faults and crashes, patch_all replaces files  *)
(* whole, and its answer is true of all the files it could read.           *)
THEOREM PatchingImplementsSet == Spec => ImplementsPatchSet
<1>1. Init => Set!Init
  BY DEF Init, Set!Init, Set!Old, Set!None, File, None
<1>2. RInv /\ [Next]_vars => [Set!Next]_<<disk, unread, answer>>
  <2> SUFFICES ASSUME RInv, [Next]_vars
               PROVE  Set!Next \/ UNCHANGED <<disk, unread, answer>>
    OBVIOUS
  <2>1. CASE \E w \in Workers : Step(w)
    BY <2>1, WorkerStep
  <2>2. CASE Join
    BY <2>2, JoinStep
  <2>3. CASE Crash
    <3>1. Set!Again
      BY <2>3 DEF Crash, Set!Again, Set!None, None
    <3> QED
      BY <3>1 DEF Set!Next
  <2>4. CASE UNCHANGED vars
    BY <2>4 DEF vars
  <2> QED
    BY <2>1, <2>2, <2>3, <2>4 DEF Next
<1> QED
  BY <1>1, <1>2, InductiveR, PTL DEF Spec, ImplementsPatchSet, Set!SetSpec
================================================================================
