------------------------------ MODULE SymbolProps ------------------------------
(***************************************************************************)
(* How the dynamic loader looks a symbol up (external: ld.so's            *)
(* do_lookup_x, not code of this repository), and what renaming must not   *)
(* break.                                                                  *)
(***************************************************************************)
EXTENDS SymbolRename

Version(o, i) == IF i \in DOMAIN o.versions THEN o.versions[i] ELSE 0
Versions == {Version(obj, i) : i \in Indices(obj)}

(* Symbol i defines this name with this version.                           *)
Defines(o, i, name, version) ==
  o.dynsym[i].name = name /\ o.dynsym[i].def /\ Version(o, i) = version
Definers(o, name, version) == {i \in Indices(o) : Defines(o, i, name, version)}

(* The bloom filter must have both bits; then the chain is walked from the *)
(* first symbol of the bucket to the first word with its low bit set.      *)
PassesBloom(o, h) ==
  BloomBits(o, h) \subseteq
    o.gnu.bloom[(h \div WordBits) % o.gnu.maskwords]
ChainFrom(o, first) ==
  {i \in first .. o.nsyms - 1 :
     \A j \in first .. i - 1 : o.gnu.chain[j - o.gnu.symndx] % 2 = 0}
GnuVisits(o, h) ==
  IF ~PassesBloom(o, h) \/ o.gnu.buckets[h % o.gnu.nbuckets] = 0 THEN {}
  ELSE {i \in ChainFrom(o, o.gnu.buckets[h % o.gnu.nbuckets]) :
          o.gnu.chain[i - o.gnu.symndx] \div 2 = h \div 2}
GnuFound(o, name, version) ==
  IF o.gnu.nbuckets = 0 THEN {}
  ELSE GnuVisits(o, GnuHash[name]) \cap Definers(o, name, version)

(* .hash: from the bucket along the chain to 0.                            *)
SysvVisits(o, h) ==
  LET at[k \in 0 .. o.sysv.nchain] ==
        IF k = 0 THEN o.sysv.buckets[h % o.sysv.nbuckets]
        ELSE IF at[k - 1] = 0 THEN 0 ELSE o.sysv.chain[at[k - 1]]
  IN {at[k] : k \in 0 .. o.sysv.nchain} \ {0}
SysvFound(o, name, version) ==
  SysvVisits(o, SysvHash[name]) \cap Definers(o, name, version)

(* Every definition is listed where a lookup of its name comes by, and     *)
(* .hash has a chain word for every symbol; static linkers produce only    *)
(* such tables.                                                            *)
Indexed(o) ==
  o.gnu.present =>
    \A i \in Indices(o) :
      o.dynsym[i].def =>
        /\ o.gnu.nbuckets # 0 /\ i >= o.gnu.symndx
        /\ i \in GnuVisits(o, Gnu(o, i))

SysvIndexed(o) ==
  o.sysv.present =>
    /\ DOMAIN o.sysv = {"present", "nbuckets", "nchain", "buckets", "chain"}
    /\ o.sysv.nbuckets \in Nat \ {0} /\ DOMAIN o.sysv.buckets = 0 .. o.sysv.nbuckets - 1
    /\ o.sysv.nchain = o.nsyms /\ DOMAIN o.sysv.chain = 0 .. o.nsyms - 1
    /\ \A i \in Indices(o) :
         o.dynsym[i].def => i \in SysvVisits(o, SysvHash[o.dynsym[i].name])

ASSUME LinkerAssumption == \A o \in Objects : Indexed(o) /\ SysvIndexed(o)

-----------------------------------------------------------------------------
(* Types: the tables keep their sizes and their indices in range           *)
(* (SymbolRename's variables).                                             *)
TypeOK ==
  /\ WellFormed(obj)
  /\ last.outcome \in {"ok", "panic", "missing"}
  /\ runs \in 0 .. MaxRuns

(* Whatever is renamed, in however many runs, a lookup through .gnu.hash   *)
(* finds exactly the definitions there are (rebuild_gnu_hash: order, bloom *)
(* filter, buckets and chain have to agree).                               *)
GnuFinds ==
  obj.gnu.present =>
    \A name \in Names, version \in Versions :
      GnuFound(obj, name, version) = Definers(obj, name, version)

(* The same through .hash, whose chains must follow the order that         *)
(* .gnu.hash imposed (rebuild_sysv_hash, Reorder).                         *)
SysvFinds ==
  obj.sysv.present =>
    \A name \in Names, version \in Versions :
      SysvFound(obj, name, version) = Definers(obj, name, version)

(* Names change and nothing else does: bodies, versions and relocations    *)
(* stay with their symbols (symbols.rs implements SymbolSet).              *)
Entry(o, i) ==
  [name |-> o.dynsym[i].name, id |-> o.dynsym[i].id, def |-> o.dynsym[i].def,
   version |-> Version(o, i)]
Asked == IF last.op = "none" THEN [op |-> "none"]
         ELSE [op |-> last.op, map |-> last.map, names |-> last.names,
               ok |-> last.outcome = "ok"]
Set == INSTANCE SymbolSet WITH
         symbols <- {Entry(obj, i) : i \in Indices(obj)},
         bound <- [r \in DOMAIN obj.relocs |-> Entry(obj, obj.relocs[r])],
         reply <- Asked
ImplementsSymbolSet == Set!SetSpec

(* "The ops, layout engine, and serializer must never panic"               *)
(* (fuzz/fuzz_targets/mutate.rs, which drives the renaming too).           *)
NeverPanics == last.outcome # "panic"
=============================================================================
