---------------------------- MODULE MCSymbolRename ----------------------------
(***************************************************************************)
(* Small instances of SymbolRename: symbol tables as ld, gold and lld lay  *)
(* them out.                                                               *)
(***************************************************************************)
EXTENDS SymbolProps, TLC

MCNames == {"", "a", "b", "c", "d"}
MCGnuHash == ("" :> 5) @@ ("a" :> 2) @@ ("b" :> 13) @@ ("c" :> 7) @@ ("d" :> 20)
MCSysvHash == ("" :> 0) @@ ("a" :> 1) @@ ("b" :> 2) @@ ("c" :> 3) @@ ("d" :> 4)

Sym(name, id, def) == [name |-> name, id |-> id, def |-> def]
Zeroed(n) == [i \in 0 .. n - 1 |-> 0]
FromZero(s) == [i \in 0 .. Len(s) - 1 |-> s[i + 1]]

NoGnu == [present |-> FALSE, nbuckets |-> 0, symndx |-> 0, maskwords |-> 0, shift2 |-> 0,
          bloom |-> <<>>, buckets |-> <<>>, chain |-> <<>>]
NoSysv == [present |-> FALSE, nbuckets |-> 0, nchain |-> 0, buckets |-> <<>>, chain |-> <<>>]

(* .gnu.hash over the symbols from symndx on, which are in bucket order.   *)
GnuOf(s, symndx, nbuckets, words) ==
  LET n == Len(s)
      h(i) == MCGnuHash[s[i + 1].name]
      listed == symndx .. n - 1
      inBucket(b) == {i \in listed : h(i) % nbuckets = b}
  IN [present |-> TRUE, nbuckets |-> nbuckets, symndx |-> symndx,
      maskwords |-> words, shift2 |-> 1,
      bloom |-> [w \in 0 .. words - 1 |->
        {h(i) % 4 : i \in {j \in listed : (h(j) \div 4) % words = w}}
        \cup {(h(i) \div 2) % 4 : i \in {j \in listed : (h(j) \div 4) % words = w}}],
      buckets |-> [b \in 0 .. nbuckets - 1 |->
        IF inBucket(b) = {} THEN 0 ELSE CHOOSE i \in inBucket(b) : \A j \in inBucket(b) : i <= j],
      chain |-> [k \in 0 .. n - symndx - 1 |->
        LET i == symndx + k
        IN (h(i) \div 2) * 2
             + IF \E j \in listed : j > i /\ h(j) % nbuckets = h(i) % nbuckets THEN 0 ELSE 1]]

(* .hash over all symbols, each put in front of its bucket's list.         *)
SysvOf(s, nbuckets) ==
  LET h(i) == MCSysvHash[s[i + 1].name]
      newest(S) == IF S = {} THEN 0 ELSE CHOOSE i \in S : \A j \in S : i >= j
  IN [present |-> TRUE, nbuckets |-> nbuckets, nchain |-> Len(s),
      buckets |-> [b \in 0 .. nbuckets - 1 |->
        newest({i \in 0 .. Len(s) - 1 : h(i) % nbuckets = b})],
      chain |-> [i \in 0 .. Len(s) - 1 |->
        newest({j \in 0 .. i - 1 : h(j) % nbuckets = h(i) % nbuckets})]]

Object(s, versions, relocs, gnu, sysv) ==
  [nsyms |-> Len(s), dynsym |-> FromZero(s), versions |-> FromZero(versions),
   relocs |-> relocs, foreign |-> <<>>, gnu |-> gnu, sysv |-> sysv]

(* A library with an import, and an export in two versions.                *)
LibSyms == <<Sym("", 0, FALSE), Sym("b", 1, FALSE), Sym("a", 2, TRUE), Sym("d", 3, TRUE),
             Sym("a", 4, TRUE), Sym("c", 5, TRUE)>>
LibVersions == <<0, 2, 3, 3, 4, 1>>
Library == Object(LibSyms, LibVersions, <<1, 2, 3, 4, 5, 0, 2>>,
                  GnuOf(LibSyms, 2, 2, 2), SysvOf(LibSyms, 3))
GnuOnlySyms == <<Sym("", 0, FALSE), Sym("b", 1, FALSE), Sym("d", 2, TRUE), Sym("a", 3, TRUE),
                 Sym("a", 4, TRUE), Sym("c", 5, TRUE)>>
GnuOnly == Object(GnuOnlySyms, <<>>, <<5, 3>>, GnuOf(GnuOnlySyms, 2, 4, 1), NoSysv)
SysvOnly == Object(LibSyms, LibVersions, <<4, 1>>, NoGnu, SysvOf(LibSyms, 2))

(* ld --emit-relocs kept a section of relocations for .symtab.             *)
KeptRelocs == [Library EXCEPT !.foreign = <<3, 5>>]

(* A program that only imports: lld lists no symbol in .gnu.hash; without  *)
(* buckets; ld.bfd's special case, symndx 1 and no chain.                  *)
ProgSyms == <<Sym("", 0, FALSE), Sym("b", 1, FALSE), Sym("c", 2, FALSE)>>
LldProgram == Object(ProgSyms, <<0, 2, 3>>, <<2, 1>>, GnuOf(ProgSyms, 3, 1, 1),
                     SysvOf(ProgSyms, 1))
NoBuckets == [LldProgram EXCEPT !.gnu.nbuckets = 0, !.gnu.buckets = <<>>]
BfdProgram == [LldProgram EXCEPT !.gnu.symndx = 1]

MCObjects == {Library, GnuOnly, SysvOnly, KeptRelocs, LldProgram, NoBuckets, BfdProgram}
BfdObjects == {BfdProgram}

(* One name, a swap, a cycle, an import, a name already taken, no name of  *)
(* the table.                                                              *)
MCMaps == {"a" :> "b", ("a" :> "c") @@ ("c" :> "a"), ("a" :> "c") @@ ("c" :> "d") @@ ("d" :> "a"),
           "b" :> "d", "c" :> "d", ("c" :> "b") @@ ("b" :> "c")}
MCCleared == {"a", "c"}
=============================================================================
