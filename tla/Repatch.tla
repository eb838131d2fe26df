-------------------------------- MODULE Repatch --------------------------------
(***************************************************************************)
(* One file under repeated runs of formatelf (src/main.rs run and          *)
(* write_output, with everything they call) and of other tools.            *)
(*                                                                         *)
(* A run parses the file, applies the operations of the command line in    *)
(* order, lays the image out and renames the result over the file; on any  *)
(* error the file stays as it was.  Between runs a packer may append a     *)
(* payload, as self-extracting archives and bun build --compile do.        *)
(***************************************************************************)
EXTENDS Ops, Linker, Loader

CONSTANT
  Jobs     \* what files are given, and what is done to them: records of
           \*   inputs       link configurations a behaviour may start from
           \*   invocations  operation sequences a command line may give
           \*   noClobbers   values of --no-clobber-old-sections that are tried
           \*   packer       may the packer append a payload?
           \*   roomy        is there address space below the inputs to prepend to?
           \*   maxRuns      bound on the number of runs

(* The operations the command line parser makes: their names, and strings  *)
(* that have a width.                                                      *)
ValidOp(op) ==
  /\ op.op \in {"set_interpreter", "set_rpath", "add_rpath", "shrink_rpath", "remove_rpath",
                "set_soname", "add_needed", "remove_needed", "replace_needed",
                "no_default_lib", "debug_tag", "set_os_abi", "execstack", "entry_stub", "cache"}
  /\ op.op \in {"set_interpreter", "set_rpath", "set_soname", "add_needed", "entry_stub"}
       => op.arg \in DOMAIN Width
  /\ op.op = "replace_needed" => op.new \in DOMAIN Width
  /\ op.op = "cache" => op.arg \in DOMAIN Width \cup {"none"}

ASSUME RepatchAssumption ==
  /\ \A j \in Jobs :
       /\ j.noClobbers \subseteq BOOLEAN /\ j.packer \in BOOLEAN /\ j.roomy \in BOOLEAN
       /\ j.maxRuns \in Nat
       /\ \A ops \in j.invocations :
            /\ DOMAIN ops = 1 .. Len(ops) /\ Len(ops) \in Nat
            /\ \A i \in DOMAIN ops : ValidOp(ops[i])
  /\ DOMAIN Dirs \cup {""} \subseteq DOMAIN Width /\ Abis \subseteq STRING

VARIABLES
  job,      \* the job at hand
  file,     \* the cells on disk
  seen,     \* the attributes the loader reads in file: always View(file)
  first,    \* the file the behaviour started from
  payload,  \* length of the payload that should be at the end of the file
  last,     \* the last run: its operations, its flag and its outcome
  runs      \* number of runs so far

vars == <<job, file, seen, first, payload, last, runs>>

PayloadLen == 2

-----------------------------------------------------------------------------
(* ops::apply, then layout::finalize.                                      *)

Apply(img, op) ==
  IF img.err # "none" THEN img
  ELSE CASE op.op = "set_interpreter" -> SetInterpreter(img, op.arg)
         [] op.op = "set_rpath" -> SetRpath(img, op.arg, op.force)
         [] op.op = "add_rpath" -> AddRpath(img, op.arg, op.force)
         [] op.op = "shrink_rpath" -> ShrinkRpath(img, op.allowed, op.force)
         [] op.op = "remove_rpath" -> RemoveRpath(img)
         [] op.op = "set_soname" -> SetSoname(img, op.arg)
         [] op.op = "add_needed" -> AddNeeded(img, op.arg)
         [] op.op = "remove_needed" -> RemoveNeeded(img, op.arg)
         [] op.op = "replace_needed" -> ReplaceNeeded(img, op.arg, op.new)
         [] op.op = "no_default_lib" -> NoDefaultLib(img)
         [] op.op = "debug_tag" -> AddDebugTag(img)
         [] op.op = "set_os_abi" -> SetOsAbi(img, op.arg)
         [] op.op = "execstack" -> SetExecstack(img, op.set)
         [] op.op = "entry_stub" -> SetEntryStub(img, op.arg)
         [] op.op = "cache" -> BuildCache(img, op.arg)

LayOut(img, noClobber) ==
  IF img.err # "none" THEN Failure(img.err) ELSE Finalize(img, file, noClobber)

ApplyAll(img, ops) ==
  LET after[n \in 0 .. Len(ops)] == IF n = 0 THEN img ELSE Apply(after[n - 1], ops[n])
  IN after[Len(ops)]

Run(ops, noClobber) ==
  IF ~CanParse(file) THEN Failure("parse")
  ELSE LayOut(ApplyAll(Parse(file), ops), noClobber)

-----------------------------------------------------------------------------
Init ==
  /\ job \in Jobs
  /\ \E c \in job.inputs : file = Link(c) /\ payload = c.overlay
  /\ seen = View(file)
  /\ first = file
  /\ last = [ops |-> <<>>, noClobber |-> FALSE, err |-> "none"]
  /\ runs = 0

(* The run succeeds: its output r.file replaces the file.                  *)
Patch(r, ops, noClobber) ==
  /\ r.err = "none"
  /\ file' = r.file
  /\ seen' = View(r.file)
  /\ last' = [ops |-> ops, noClobber |-> noClobber, err |-> "none"]
  /\ runs' = runs + 1
  /\ UNCHANGED <<job, first, payload>>

(* The run fails before the rename: the file is untouched.                 *)
Reject(r, ops, noClobber) ==
  /\ r.err # "none"
  /\ last' = [ops |-> ops, noClobber |-> noClobber, err |-> r.err]
  /\ runs' = runs + 1
  /\ UNCHANGED <<job, file, seen, first, payload>>

(* A packer appends a payload to a file without one.                       *)
Pack ==
  /\ job.packer /\ payload = 0
  /\ file' = file \o Payload(PayloadLen)
  /\ seen' = View(file \o Payload(PayloadLen))
  /\ payload' = PayloadLen
  /\ UNCHANGED <<job, first, last, runs>>

Formatelf(ops, noClobber) ==
  /\ runs < job.maxRuns
  /\ \E r \in {Run(ops, noClobber)} : Patch(r, ops, noClobber) \/ Reject(r, ops, noClobber)

Next ==
  \/ \E ops \in job.invocations, nc \in job.noClobbers : Formatelf(ops, nc)
  \/ Pack

Spec == Init /\ [][Next]_vars
=============================================================================
