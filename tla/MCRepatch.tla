------------------------------- MODULE MCRepatch -------------------------------
(***************************************************************************)
(* Small instances of Repatch for TLC.                                     *)
(***************************************************************************)
EXTENDS RepatchProps

(* Run paths: the linker's directory or none, then up to three that were   *)
(* added; $ORIGIN is relative.                                             *)
MCRelative == {"$ORIGIN"}
Paths == {<<"long">>} \cup
  {h \o t : h \in {<<>>, <<"short">>}, t \in UNION {[1..n -> {"mid", "$ORIGIN"}] : n \in 0..3}}
Colon(acc, d) == IF acc = "" THEN d ELSE acc \o ":" \o d
PathName(q) == FoldLeft(Colon, "", q)
MCDirs == [s \in {PathName(q) : q \in Paths} |-> CHOOSE q \in Paths : PathName(q) = s] @@ <<>>
MCProvided == ("short" :> {"libc"}) @@ ("mid" :> {"libc", "libx"}) @@ ("long" :> {"libx"})
              @@ ("$ORIGIN" :> {"libx"})
MCAbis == {"sysv", "gnu"}

(* The colon takes the place of the NUL, so widths add up.                 *)
DirWidth == ("short" :> 1) @@ ("mid" :> 2) @@ ("long" :> 3) @@ ("$ORIGIN" :> 1)
PathWidth(q) == FoldLeft(LAMBDA n, d : n + DirWidth[d], 0, q)
MCWidth ==
  ("" :> 1) @@ ("ld" :> 1) @@ ("libc" :> 1) @@ ("longld" :> 2) @@ ("libx" :> 1)
  @@ ("n1" :> 1) @@ ("n2" :> 2) @@ ("s1" :> 1) @@ ("s2" :> 2)
  @@ [s \in DOMAIN MCDirs \ {""} |-> PathWidth(MCDirs[s])]

Exe == [etype |-> "EXEC", base |-> 128, exe |-> TRUE, sepcode |-> TRUE, bun |-> FALSE, rpath |-> "short",
        spare |-> 1, stackhdr |-> "GNU_STACK", pinned |-> FALSE, stripped |-> FALSE,
        overlay |-> 0]
Pie == [Exe EXCEPT !.etype = "DYN", !.base = 0]
Lib == [Pie EXCEPT !.exe = FALSE, !.rpath = "", !.spare = 0, !.stackhdr = "none"]

Rpath(s) == [op |-> "set_rpath", arg |-> s, force |-> FALSE]
ForceRpath(s) == [op |-> "set_rpath", arg |-> s, force |-> TRUE]
Op(op, s) == [op |-> op, arg |-> s]
Execstack(b) == [op |-> "execstack", set |-> b]

Add(d, force) == [op |-> "add_rpath", arg |-> d, force |-> force]
Shrink(allowed) == [op |-> "shrink_rpath", allowed |-> allowed, force |-> FALSE]
Anywhere == {"short", "mid", "long"}

Job(inputs, invocations, noClobbers, packer, roomy, maxRuns) ==
  [inputs |-> inputs, invocations |-> invocations, noClobbers |-> noClobbers,
   packer |-> packer, roomy |-> roomy, maxRuns |-> maxRuns]

(* Files laid out by appending, run after run.                             *)
AppendOps == { <<Rpath("long")>>, <<Rpath("mid")>>, <<Op("set_interpreter", "longld")>>,
               <<Op("add_needed", "libx")>>, <<Op("entry_stub", "s1")>>,
               <<Op("cache", "n1")>>, <<Execstack(TRUE)>> }
AppendJob ==
  Job({Pie, Lib, [Exe EXCEPT !.stackhdr = "NULL"],
       [Exe EXCEPT !.stripped = TRUE, !.stackhdr = "none"]},
      AppendOps, {FALSE}, FALSE, TRUE, 3)

(* Files laid out by prepending, with room for every run below the base    *)
(* address: an overlay, a .bun section, a text segment that starts the     *)
(* file; a packer may append a payload between the runs.                   *)
PrependOps == AppendOps \ { <<Op("entry_stub", "s1")>>, <<Op("cache", "n1")>> }
PrependJob ==
  Job({[Exe EXCEPT !.overlay = 2], [Exe EXCEPT !.bun = TRUE],
       [Exe EXCEPT !.overlay = 2, !.sepcode = FALSE, !.stackhdr = "none"],
       [Exe EXCEPT !.overlay = 2, !.stripped = TRUE, !.stackhdr = "none"]},
      PrependOps, {FALSE}, TRUE, TRUE, 3)

(* An overlay with no room below the base address, or room for one run.    *)
NoRoomJob ==
  Job({[Pie EXCEPT !.overlay = 2], [Exe EXCEPT !.overlay = 2, !.base = 24]},
      PrependOps, {FALSE}, FALSE, FALSE, 4)

(* Every operation of the command line, some of them together; a relocation *)
(* into .dynstr, which forbids moving it, among the inputs.                *)
EditJob ==
  Job({Lib, [Exe EXCEPT !.stackhdr = "NULL"], [Pie EXCEPT !.pinned = TRUE],
       [Exe EXCEPT !.overlay = 2, !.spare = 0]},
      { <<ForceRpath("short")>>, <<Rpath("mid")>>, <<Op("remove_rpath", "")>>,
        <<Op("add_needed", "libx")>>, <<Op("remove_needed", "libx")>>,
        <<[op |-> "replace_needed", arg |-> "libc", new |-> "libx"]>>,
        <<Op("set_soname", "libx"), Op("no_default_lib", "")>>,
        <<Op("debug_tag", ""), Execstack(FALSE)>>,
        <<Op("set_interpreter", "longld"), Rpath("long"), Execstack(TRUE),
          Op("cache", "n1")>>,
        <<Op("remove_rpath", ""), Op("cache", "n2")>>,
        <<Op("set_interpreter", "ld"), Op("add_needed", "libc")>> },
      {FALSE, TRUE}, FALSE, TRUE, 3)

(* Run paths that are read, taken apart and put together again.            *)
PathJob ==
  Job({Pie, Lib, [Exe EXCEPT !.stripped = TRUE]},
      { <<Add("mid", FALSE)>>, <<Add("$ORIGIN", TRUE)>>,
        <<Shrink(Anywhere)>>, <<Shrink({"mid"}), Op("set_os_abi", "gnu")>>,
        <<Op("add_needed", "libx"), Op("set_os_abi", "atari")>>,
        <<Op("add_needed", "libx"), Shrink(Anywhere)>>,
        <<Op("set_os_abi", "sysv"), Execstack(TRUE)>> },
      {FALSE}, FALSE, TRUE, 3)

AllJobs == {AppendJob, PrependJob, NoRoomJob, EditJob, PathJob}

-----------------------------------------------------------------------------
(* The smallest instances of the violation runs.                           *)
Once(input, ops, packer, maxRuns) == {Job({input}, ops, {FALSE}, packer, TRUE, maxRuns)}
CacheOps == {<<Op("cache", "n1")>>}
GrowOps == {<<Op("add_needed", "libx")>>}
StubOps == {<<Op("entry_stub", "s1")>>, <<Op("entry_stub", "s2")>>}
CacheOfOverlay == Once([Exe EXCEPT !.overlay = 2], CacheOps, FALSE, 1)
PackedPie == Once(Pie, GrowOps, TRUE, 2)
StubOfPie == Once([Pie EXCEPT !.sepcode = FALSE], GrowOps \cup StubOps, FALSE, 2)
StrippedExe == Once([Exe EXCEPT !.stripped = TRUE, !.stackhdr = "none"], {<<Execstack(TRUE)>>},
                    FALSE, 1)
=============================================================================
