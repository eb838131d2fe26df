----------------------------- MODULE SymbolRename -----------------------------
(***************************************************************************)
(* --rename-dynamic-symbols (src/symbols.rs) and --clear-symbol-version    *)
(* (src/ops.rs) under repeated runs: names change, so the symbols move to  *)
(* keep .gnu.hash grouped by bucket, and versions, relocations and both    *)
(* hash tables must follow.                                                *)
(*                                                                         *)
(* Symbol indices count from 0 as in the file, and a table is a function   *)
(* on them.  A symbol is [name, id, def]: id stands for all of the record  *)
(* but its name.  New names are appended to .dynstr, so a name is never    *)
(* overwritten, and offsets into .dynstr are left out.                     *)
(***************************************************************************)
EXTENDS Integers, Sequences, FiniteSets

CONSTANTS
  Names,
  GnuHash, SysvHash,   \* gnu_hash and sysv_hash of each name
  WordBits,            \* bits of a bloom filter word
  Objects,             \* what static linkers produce
  Maps,                \* the rename maps that are given
  Cleared,             \* the names given to --clear-symbol-version
  MaxRuns              \* bound on the number of runs of a behaviour

Symbol == [name : Names, id : Nat, def : BOOLEAN]
Indices(o) == DOMAIN o.dynsym

(* .gnu.hash: which symbols from symndx on it lists, maskwords words of    *)
(* bloom filter, buckets and chain.                                        *)
GnuTable(g) ==
  /\ DOMAIN g = {"present", "nbuckets", "symndx", "maskwords", "shift2", "bloom",
                 "buckets", "chain"}
  /\ g.present \in BOOLEAN
  /\ g.nbuckets \in Nat /\ g.symndx \in Nat /\ g.maskwords \in Nat /\ g.shift2 \in Nat
  /\ DOMAIN g.bloom = 0 .. g.maskwords - 1
  /\ DOMAIN g.buckets = 0 .. g.nbuckets - 1
  /\ (g.present /\ g.nbuckets # 0) => (g.symndx > 0 /\ g.maskwords > 0)

(* relocs are the symbol indices in relocation sections for .dynsym,       *)
(* foreign those in sections for .symtab, which ld --emit-relocs keeps.    *)
WellFormed(o) ==
  /\ DOMAIN o = {"nsyms", "dynsym", "versions", "relocs", "foreign", "gnu", "sysv"}
  /\ o.nsyms \in Nat
  /\ o.dynsym \in [0 .. o.nsyms - 1 -> Symbol]
  /\ DOMAIN o.versions \in {{}, 0 .. o.nsyms - 1}
  /\ \A r \in DOMAIN o.relocs : o.relocs[r] \in 0 .. o.nsyms - 1
  /\ \A r \in DOMAIN o.foreign : o.foreign[r] \in Nat
  /\ GnuTable(o.gnu) /\ o.gnu.symndx <= o.nsyms
  /\ "present" \in DOMAIN o.sysv

ASSUME SymbolRenameAssumption ==
  /\ GnuHash \in [Names -> Nat] /\ SysvHash \in [Names -> Nat]
  /\ WordBits \in Nat \ {0}
  /\ \A o \in Objects : WellFormed(o)
  /\ \A m \in Maps : m \in [DOMAIN m -> Names]
  /\ MaxRuns \in Nat

VARIABLES
  obj,    \* the tables of the file
  last,   \* the last run: what was asked, and whether it panicked or failed
  runs    \* number of runs so far

vars == <<obj, last, runs>>

Least(S) == CHOOSE x \in S : \A y \in S : x <= y
Greatest(S) == CHOOSE x \in S : \A y \in S : x >= y
LeastOr0(S, base) == IF S = {} THEN 0 ELSE base + Least(S)
GreatestOr0(S) == IF S = {} THEN 0 ELSE Greatest(S)

-----------------------------------------------------------------------------
(* The order that groups symbols by bucket (a stable sort_by_key):         *)
(* Order(bucket)[p] is the new position of what is at p.                   *)

Before(bucket, q, p) ==
  bucket[q] < bucket[p] \/ (bucket[q] = bucket[p] /\ q < p)

(* Mutant: the symbols stay where they are.                                *)
OrderNone(bucket) == [p \in DOMAIN bucket |-> p]

Order(bucket) ==
  [p \in DOMAIN bucket |-> Cardinality({q \in DOMAIN bucket : Before(bucket, q, p)})]

(* The position an order moves to k.                                       *)
Back(order, k) == CHOOSE p \in DOMAIN order : order[p] = k

(* reorder_records: the records from base on are permuted.                 *)
ReorderRecords(table, base, order) ==
  [i \in DOMAIN table |->
     IF i < base THEN table[i] ELSE table[base + Back(order, i - base)]]

(* Mutants: relocations keep their symbol index; base is added twice.      *)
RemapRelocKept(r, base, order) == r
RemapRelocTwice(r, base, order) ==
  IF r < base THEN r ELSE base + base + order[r - base]

(* remap_reloc_symbols: the sections are not asked which table they index. *)
RemapReloc(r, base, order) == IF r < base THEN r ELSE base + order[r - base]
Remapped(relocs, base, order) ==
  [r \in DOMAIN relocs |-> RemapReloc(relocs[r], base, order)]

-----------------------------------------------------------------------------
(* rename_dynamic_symbols, stage by stage.                                 *)

NewName(map, name) == IF name \in DOMAIN map THEN map[name] ELSE name
RenameSymbol(map, s) == [s EXCEPT !.name = NewName(map, @)]
Renamed(o, map) ==
  [o EXCEPT !.dynsym = [i \in DOMAIN @ |-> RenameSymbol(map, @[i])]]

Gnu(o, i) == GnuHash[o.dynsym[i].name]
HashedCount(o) == o.nsyms - o.gnu.symndx
Buckets(o) ==
  [p \in 0 .. HashedCount(o) - 1 |-> Gnu(o, o.gnu.symndx + p) % o.gnu.nbuckets]

Reordered(o, order) ==
  [o EXCEPT !.dynsym = ReorderRecords(@, o.gnu.symndx, order),
            !.versions = ReorderRecords(@, o.gnu.symndx, order),
            !.relocs = Remapped(@, o.gnu.symndx, order),
            !.foreign = Remapped(@, o.gnu.symndx, order)]

(* The bloom filter, the first symbol of each bucket and the chain, all    *)
(* read off the reordered symbols.                                         *)
BloomBits(o, h) == {h % WordBits, (h \div 2 ^ o.gnu.shift2) % WordBits}
Bloom(o) ==
  [w \in DOMAIN o.gnu.bloom |->
     UNION {BloomBits(o, Gnu(o, i)) :
              i \in {j \in o.gnu.symndx .. o.nsyms - 1 :
                       (Gnu(o, j) \div WordBits) % o.gnu.maskwords = w}}]
FirstOf(o, b) ==
  LeastOr0({k \in 0 .. HashedCount(o) - 1 : Buckets(o)[k] = b}, o.gnu.symndx)
ChainWord(o, k) ==
  LET h == Gnu(o, o.gnu.symndx + k)
      end == k + 1 = HashedCount(o) \/ Buckets(o)[k + 1] # Buckets(o)[k]
  IN 2 * (h \div 2) + (IF end THEN 1 ELSE 0)
Refilled(o) ==
  [o EXCEPT !.gnu.bloom = Bloom(o),
            !.gnu.buckets = [b \in DOMAIN @ |-> FirstOf(o, b)],
            !.gnu.chain = [k \in DOMAIN @ |->
               IF k < HashedCount(o) THEN ChainWord(o, k) ELSE @[k]]]

(* rebuild_gnu_hash.  Without the section or without buckets the order     *)
(* stays.                                                                  *)
HasGnu(o) == o.gnu.present /\ o.gnu.nbuckets # 0
GnuOrder(o) == IF HasGnu(o) THEN Order(Buckets(o)) ELSE <<>>
RebuildGnu(o, order) == IF HasGnu(o) THEN Refilled(Reordered(o, order)) ELSE o

(* Writing past the end of the chain, or permuting a relocation's index    *)
(* that is beyond the symbols, panics.  The tables of an object are all    *)
(* there and whole but for the chain, so the errors for a missing .dynsym  *)
(* or .dynstr and for a table cut short, which write nothing, do not occur.*)
Panics(o) ==
  /\ HasGnu(o)
  /\ \/ \E k \in 0 .. HashedCount(o) - 1 : k \notin DOMAIN o.gnu.chain
     \/ \E r \in DOMAIN o.foreign : o.foreign[r] >= o.nsyms

(* rebuild_sysv_hash.  The hashes were taken before the reorder, so each   *)
(* is looked up at the old index.                                          *)
(* Mutant: at the new one.                                                 *)
OldIndexSame(o, order, i) == i

OldIndex(o, order, i) ==
  IF HasGnu(o) /\ i >= o.gnu.symndx THEN o.gnu.symndx + Back(order, i - o.gnu.symndx) ELSE i

(* o are the tables in their new order, before those in their old one.     *)
SysvBucket(o, before, order, i) ==
  SysvHash[before.dynsym[OldIndex(before, order, i)].name] % o.sysv.nbuckets
RebuildSysv(o, before, order) ==
  LET first == o.nsyms - o.sysv.nchain
      bucket == [i \in 0 .. o.sysv.nchain - 1 |-> SysvBucket(o, before, order, first + i)]
  IN IF ~o.sysv.present \/ o.sysv.nbuckets = 0 THEN o
     ELSE [o EXCEPT
             !.sysv.buckets = [b \in DOMAIN @ |->
                GreatestOr0({i \in DOMAIN bucket : bucket[i] = b})],
             !.sysv.chain = [i \in DOMAIN @ |->
                GreatestOr0({j \in DOMAIN bucket : j < i /\ bucket[j] = bucket[i]})]]

Rebuild(o, order) == RebuildSysv(RebuildGnu(o, order), o, order)
Result(o) == Rebuild(o, GnuOrder(o))

-----------------------------------------------------------------------------
Init ==
  /\ obj \in Objects
  /\ last = [op |-> "none", outcome |-> "ok"]
  /\ runs = 0

Hits(map) == {i \in Indices(obj) : obj.dynsym[i].name \in DOMAIN map}

Done(op, map, names, outcome) ==
  /\ runs < MaxRuns
  /\ runs' = runs + 1
  /\ last' = [op |-> op, map |-> map, names |-> names, outcome |-> outcome]

(* A map that names no symbol leaves every table alone.                    *)
Rename(map) ==
  /\ Hits(map) = {} \/ ~Panics(obj)
  /\ Done("rename", map, {}, "ok")
  /\ obj' = IF Hits(map) = {} THEN obj ELSE Result(Renamed(obj, map))

(* The process dies before anything is written.                            *)
RenamePanics(map) ==
  /\ Hits(map) # {} /\ Panics(obj)
  /\ Done("rename", map, {}, "panic")
  /\ UNCHANGED obj

(* clear_symbol_version: VER_NDX_GLOBAL for every symbol of that name.     *)
ClearVersion(name) ==
  /\ IF DOMAIN obj.versions = {}
     THEN Done("clear", <<>>, {name}, "missing") /\ UNCHANGED obj
     ELSE /\ Done("clear", <<>>, {name}, "ok")
          /\ obj' = [obj EXCEPT !.versions = [i \in DOMAIN @ |->
                       IF obj.dynsym[i].name = name THEN 1 ELSE @[i]]]

Next ==
  \/ \E map \in Maps : Rename(map) \/ RenamePanics(map)
  \/ \E name \in Cleared : ClearVersion(name)

Spec == Init /\ [][Next]_vars
=============================================================================
