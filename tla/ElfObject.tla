------------------------------- MODULE ElfObject -------------------------------
(***************************************************************************)
(* What formatelf promises, without layout: a patched file is the object   *)
(* it was, with the requested attributes changed and nothing else.         *)
(* Attributes are what the kernel and the dynamic loader can see: the      *)
(* interpreter, the run path and its tag, the needed libraries in order,   *)
(* the soname, the stack permission, the entry stub in force, and the      *)
(* program entry that execution finally reaches.  A strings value is the   *)
(* pair CStr gives; "" is absence.                                         *)
(***************************************************************************)
EXTENDS SequencesExt

CONSTANTS
  Invocations,               \* sequences of operations given on one command line
  Dirs, Relative, Provided   \* run paths and what they hold, as in Ops

VARIABLES
  obj,      \* the attributes
  reply     \* the last invocation and whether it was accepted

Name(s) == <<s, 1>>
Absent == Name("")

(* Run paths are strings with components.  An absolute directory is useful *)
(* if it is allowed and is the first such to have some needed library.     *)
DirsOf(name) == Dirs[name[1]]
JoinedPath(dirs) == CHOOSE s \in DOMAIN Dirs : Dirs[s] = dirs
First(dirs, allowed, i, lib) ==
  \A j \in 1 .. i - 1 : dirs[j] \in allowed \ Relative => lib \notin Provided[dirs[j]]
UsefulAt(dirs, needed, allowed, i) ==
  \/ dirs[i] \in Relative
  \/ /\ dirs[i] \in allowed
     /\ \E n \in DOMAIN needed :
          needed[n][1] \in Provided[dirs[i]] /\ First(dirs, allowed, i, needed[n][1])
Useful(dirs, needed, allowed) ==
  LET keep == {i \in DOMAIN dirs : UsefulAt(dirs, needed, allowed, i)}
  IN [k \in 1 .. Cardinality(keep) |->
        dirs[CHOOSE i \in keep : Cardinality({j \in keep : j < i}) = k - 1]]

Edit(o, op) ==
  CASE op.op = "set_interpreter" -> [o EXCEPT !.interp = Name(op.arg)]
    [] op.op = "set_rpath" ->
         [o EXCEPT !.rpath = Name(op.arg),
                   !.rpathTag = IF op.force THEN "RPATH" ELSE "RUNPATH"]
    [] op.op = "add_rpath" ->
         [o EXCEPT !.rpath = Name(JoinedPath(DirsOf(o.rpath) \o <<op.arg>>)),
                   !.rpathTag = IF op.force THEN "RPATH" ELSE "RUNPATH"]
    [] op.op = "shrink_rpath" ->
         IF o.rpath = Absent THEN o
         ELSE [o EXCEPT !.rpath = Name(JoinedPath(Useful(DirsOf(o.rpath), o.needed, op.allowed))),
                        !.rpathTag = IF op.force THEN "RPATH" ELSE "RUNPATH"]
    [] op.op = "remove_rpath" -> [o EXCEPT !.rpath = Absent, !.rpathTag = ""]
    [] op.op = "set_soname" ->
         IF o.etype = "DYN" THEN [o EXCEPT !.soname = Name(op.arg)] ELSE o
    [] op.op = "add_needed" -> [o EXCEPT !.needed = <<Name(op.arg)>> \o @]
    [] op.op = "remove_needed" ->
         [o EXCEPT !.needed = SelectSeq(@, LAMBDA n : n # Name(op.arg))]
    [] op.op = "replace_needed" ->
         [o EXCEPT !.needed = [i \in DOMAIN @ |->
            IF @[i] = Name(op.arg) THEN Name(op.new) ELSE @[i]]]
    [] op.op = "set_os_abi" -> [o EXCEPT !.abi = op.arg]
    [] op.op = "execstack" -> [o EXCEPT !.stack = IF op.set THEN "X" ELSE "-"]
    [] op.op = "entry_stub" -> [o EXCEPT !.stub = op.arg]
    [] OTHER -> o       \* the note, FLAGS_1 and DEBUG are none of these attributes

(* An invocation does all its edits, or refuses and does none.             *)
Accept(ops) ==
  /\ reply' = [ops |-> ops, ok |-> TRUE]
  /\ obj' = FoldLeft(Edit, obj, ops)

Refuse(ops) ==
  /\ reply' = [ops |-> ops, ok |-> FALSE]
  /\ UNCHANGED obj

Init == reply = [ops |-> <<>>, ok |-> TRUE]

Next == \E ops \in Invocations : Accept(ops) \/ Refuse(ops)

ObjSpec == Init /\ [][Next]_<<obj, reply>>
=============================================================================
