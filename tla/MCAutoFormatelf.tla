---------------------------- MODULE MCAutoFormatelf ----------------------------
(***************************************************************************)
(* Small trees and calls of AutoFormatelf for TLC.                         *)
(***************************************************************************)
EXTENDS AutoProps, TLC

MCNameOrder ==
  <<"ap", "app", "bin", "d1", "d2", "d3", "data", "deep", "ld", "liba", "libb", "libc",
    "libq", "libx", "ln", "loop", "out", "rt", "store", "sub", "tool">>
MCShared == {"liba", "libb", "libc", "libx"}
MCChars == ("liba" :> <<"a">>) @@ ("libb" :> <<"a", "b">>) @@ ("libc" :> <<"c">>)
           @@ ("libx" :> <<"a", "b", "a", "b">>) @@ ("libq" :> <<"b", "a", "a">>)
           @@ ("tool" :> <<"t">>) @@ ("store" :> <<"s">>)

At(names) == <<"/">> \o names
Lib == [kind |-> "elf", etype |-> "DYN", interp |-> NoPath, needed |-> <<>>, dlopen |-> <<>>,
        runpath |-> <<>>, arch |-> "x86", osabi |-> "sysv", debug |-> FALSE]
App(needed) == [Lib EXCEPT !.etype = "EXEC", !.interp = At(<<"ld">>), !.needed = needed]
Junk == [kind |-> "junk"]
LinkTo(names) == [kind |-> "link", to |-> At(names)]
Need(name) == <<name>>

(* A tree is given by its files and links.                                 *)
Tree(leaves) ==
  leaves @@ [p \in UNION {Prefixes(Front(f)) : f \in DOMAIN leaves} \ {<<>>} |-> [kind |-> "dir"]]

BaseCall ==
  [fs |-> Tree(At(<<"ld">>) :> Lib), paths |-> <<At(<<"out">>)>>, libs |-> <<>>,
   recursive |-> TRUE, existing |-> TRUE, keepLibc |-> FALSE, libc |-> At(<<"store">>),
   runtime |-> <<>>, append |-> <<>>, ignore |-> <<>>, interp |-> At(<<"ld">>)]

(* Libraries of the same names in several roots, one of another            *)
(* architecture, one detached debug information, others reached through    *)
(* RUNPATHs that lead in a circle; files that are not for us, and one that *)
(* is collected twice.                                                     *)
Search ==
  [BaseCall EXCEPT
    !.paths = <<At(<<"out">>), At(<<"out", "sub">>)>>, !.libs = <<At(<<"d1">>), At(<<"d2">>)>>,
    !.fs = Tree(
      (At(<<"ld">>) :> Lib)
      @@ (At(<<"out", "app">>) :> App(<<Need("liba"), Need("libb"), Need("libc")>>))
      @@ (At(<<"out", "sub", "libb">>) :> [Lib EXCEPT !.needed = <<Need("libx")>>])
      @@ (At(<<"out", "tool">>) :> [App(<<>>) EXCEPT !.interp = NoPath])
      @@ (At(<<"out", "data">>) :> Junk)
      @@ (At(<<"out", "ln">>) :> LinkTo(<<"out", "app">>))
      @@ (At(<<"d1", "liba">>) :> [Lib EXCEPT !.arch = "arm"])
      @@ (At(<<"d1", "libb">>) :> [Lib EXCEPT !.runpath = <<At(<<"d3">>), NoPath, <<"$ORIGIN">>>>])
      @@ (At(<<"d1", "libx">>) :> [Lib EXCEPT !.debug = TRUE])
      @@ (At(<<"d2", "liba">>) :> [Lib EXCEPT !.runpath = <<At(<<"d3">>)>>])
      @@ (At(<<"d2", "libb">>) :> Lib)
      @@ (At(<<"d3", "libx">>) :> [Lib EXCEPT !.runpath = <<At(<<"d1">>)>>])
      @@ (At(<<"d3", "liba">>) :> Lib)
      @@ (At(<<"store", "libc">>) :> Lib))]

(* Links: to directories, to a library, and from a directory to the one    *)
(* above it; alternatives of a .note.dlopen; directories added in any case.*)
Links ==
  [BaseCall EXCEPT
    !.libs = <<At(<<"ln">>)>>, !.runtime = <<At(<<"rt">>)>>, !.append = <<At(<<"ap">>), At(<<"rt">>)>>,
    !.fs = Tree(
      (At(<<"ld">>) :> Lib)
      @@ (At(<<"out", "app">>) :>
            [App(<<Need("libb"), At(<<"store", "libx">>)>>) EXCEPT
               !.dlopen = <<<<Need("libq"), Need("liba")>>, <<Need("libc")>>,
                            <<Need("libq"), Need("tool")>>>>])
      @@ (At(<<"out", "sub", "liba">>) :> [Lib EXCEPT !.needed = <<Need("libb")>>])
      @@ (At(<<"out", "sub", "loop">>) :> LinkTo(<<"out">>))
      @@ (At(<<"out", "deep">>) :> LinkTo(<<"d2">>))
      @@ (At(<<"d2", "libc">>) :> Lib)
      @@ (At(<<"ln">>) :> LinkTo(<<"d1">>))
      @@ (At(<<"d1", "libb">>) :> LinkTo(<<"store", "libx">>))
      @@ (At(<<"store", "libx">>) :> Lib)
      @@ (At(<<"out", "liba">>) :> Junk))]
LinksIgnored == [Links EXCEPT !.ignore = <<<<"a", "n", "y", "(", "*", ")">>>>]

(* A system whose libc is a library like any other, two incompatible ABIs, *)
(* no recursion; a library given as a file.                                *)
Bsd ==
  [BaseCall EXCEPT
    !.libs = <<At(<<"d1">>), At(<<"d2", "libx">>), At(<<"d3">>), At(<<"store">>)>>, !.recursive = FALSE,
    !.paths = <<At(<<"out">>), At(<<"out", "sub", "liba">>), At(<<"deep">>)>>,
    !.fs = Tree(
      (At(<<"ld">>) :> [Lib EXCEPT !.osabi = "freebsd"])
      @@ (At(<<"out", "app">>) :>
            [App(<<Need("libb"), Need("libc"), Need("libx")>>) EXCEPT !.osabi = "freebsd"])
      @@ (At(<<"out", "tool">>) :> [App(<<Need("libq")>>) EXCEPT !.osabi = "openbsd"])
      @@ (At(<<"out", "sub", "liba">>) :> [Lib EXCEPT !.osabi = "freebsd"])
      @@ (At(<<"d1", "libb">>) :> [Lib EXCEPT !.osabi = "openbsd"])
      @@ (At(<<"d3", "libb">>) :> [Lib EXCEPT !.osabi = "freebsd"])
      @@ (At(<<"d2", "libx">>) :> [Lib EXCEPT !.osabi = "sysv"])
      @@ (At(<<"store", "libc">>) :> [Lib EXCEPT !.osabi = "freebsd"]))]
BsdNoExisting == [Bsd EXCEPT !.existing = FALSE, !.keepLibc = TRUE]

(* Calls that are no good.                                                 *)
NoPaths == [BaseCall EXCEPT !.paths = <<>>]
NoLoader == [BaseCall EXCEPT !.interp = At(<<"rt">>)]
JunkLoader == [BaseCall EXCEPT !.fs = Tree(At(<<"ld">>) :> Junk)]

(* A dependency that is found nowhere, and every pattern to ignore it.     *)
Lacking(dep, pattern) ==
  [BaseCall EXCEPT
    !.existing = FALSE, !.ignore = <<<<"b">>, pattern>>,
    !.fs = Tree((At(<<"ld">>) :> Lib) @@ (At(<<"out", "app">>) :> App(<<dep>>)))]
Patterns == BoundedSeq({"a", "b", "*", "?"}, 3) \cup [1..4 -> {"a", "b", "*"}]

MCWorlds ==
  {Search, Links, LinksIgnored, Bsd, BsdNoExisting, NoPaths, NoLoader, JunkLoader}
    \cup {Lacking(Need(name), p) : name \in {"libx", "libq"}, p \in Patterns}
    \cup {Lacking(At(<<"store", "liba">>), p) : p \in {<<"a">>, <<"*", "a">>, <<"/", "?", "/", "*">>}}

(* These calls reach each path in one way only; the one below does not.    *)
ASSUME OneWayAssumption == \A w \in MCWorlds : OneWay(w)

(* What their libc's directories hold serves the files that name it.       *)
ASSUME LibcAssumption == \A w \in MCWorlds : LibcFits(w)

(* A directory below --paths is given with --libs, too.                    *)
Nested ==
  [BaseCall EXCEPT
    !.libs = <<At(<<"out", "sub">>)>>,
    !.fs = Tree(
      (At(<<"ld">>) :> Lib)
      @@ (At(<<"out", "app">>) :> App(<<Need("libb")>>))
      @@ (At(<<"out", "sub", "deep", "libb">>) :> Lib))]
NestedWorld == {Nested}
=============================================================================
