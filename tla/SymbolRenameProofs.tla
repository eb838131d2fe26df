-------------------------- MODULE SymbolRenameProofs --------------------------
(***************************************************************************)
(* Proofs about SymbolRename, for any symbol table, any hash functions and *)
(* any maps: tables stay well formed, names change and nothing else does,  *)
(* and both hash tables find every definition.                             *)
(***************************************************************************)
EXTENDS SymbolProps, SeqFacts

(* The positions before p: their number is p's new position.               *)
Earlier(bucket, p) == {q \in DOMAIN bucket : Before(bucket, q, p)}

(* rebuild_gnu_hash's sort is a permutation that respects Before.          *)
LEMMA OrderPermutes ==
  ASSUME NEW n \in Nat, NEW bucket \in [0 .. n - 1 -> Nat]
  PROVE  /\ Order(bucket) \in [0 .. n - 1 -> 0 .. n - 1]
         /\ \A q, p \in 0 .. n - 1 :
              Before(bucket, q, p) => Order(bucket)[q] < Order(bucket)[p]
         /\ \A q, p \in 0 .. n - 1 : Order(bucket)[q] = Order(bucket)[p] => q = p
         /\ \A k \in 0 .. n - 1 : \E p \in 0 .. n - 1 : Order(bucket)[p] = k
<1> DEFINE I == 0 .. n - 1
           f == Order(bucket)
<1>1. IsFiniteSet(I) /\ Cardinality(I) = n
  <2>1. n - 1 \in Int /\ 0 \in Int
    OBVIOUS
  <2>2. IsFiniteSet(0 .. n - 1) /\ Cardinality(0 .. n - 1) = IF 0 > n - 1 THEN 0 ELSE n - 1 - 0 + 1
    BY <2>1, FS_Interval, Zenon
  <2> QED
    BY <2>2
<1>2. \A p \in I : IsFiniteSet(Earlier(bucket, p)) /\ Cardinality(Earlier(bucket, p)) \in Nat
  <2> TAKE p \in I
  <2>1. Earlier(bucket, p) \in SUBSET I
    BY DEF Earlier
  <2>2. IsFiniteSet(Earlier(bucket, p))
    BY <1>1, <2>1, FS_Subset
  <2> QED
    BY <2>2, FS_CardinalityType
<1>3. \A p \in I : f[p] = Cardinality(Earlier(bucket, p))
  BY DEF Order, Earlier
<1>4. DOMAIN f = I /\ f = [p \in I |-> f[p]]
  BY DEF Order
<1>5. \A p \in I : f[p] \in I
  <2> TAKE p \in I
  <2>1. Earlier(bucket, p) \in SUBSET I /\ p \notin Earlier(bucket, p)
    BY DEF Earlier, Before
  <2>2. /\ Cardinality(Earlier(bucket, p)) <= n
        /\ Cardinality(I) = Cardinality(Earlier(bucket, p)) => I = Earlier(bucket, p)
    BY <1>1, <2>1, FS_Subset
  <2>3. Cardinality(Earlier(bucket, p)) # n
    BY <1>1, <2>1, <2>2
  <2> QED
    BY <1>2, <1>3, <2>2, <2>3
<1>6. ASSUME NEW q \in I, NEW p \in I, Before(bucket, q, p)
      PROVE  f[q] < f[p]
  <2>1. Earlier(bucket, q) \in SUBSET Earlier(bucket, p)
    BY <1>6 DEF Earlier, Before
  <2>2. q \in Earlier(bucket, p) /\ q \notin Earlier(bucket, q)
    BY <1>6 DEF Earlier, Before
  <2>3. /\ Cardinality(Earlier(bucket, q)) <= Cardinality(Earlier(bucket, p))
        /\ Cardinality(Earlier(bucket, p)) = Cardinality(Earlier(bucket, q))
             => Earlier(bucket, p) = Earlier(bucket, q)
    BY <1>2, <2>1, FS_Subset
  <2>4. Cardinality(Earlier(bucket, p)) # Cardinality(Earlier(bucket, q))
    BY <2>2, <2>3
  <2> QED
    BY <1>2, <1>3, <2>3, <2>4
<1>7. \A q, p \in I : f[q] = f[p] => q = p
  <2> SUFFICES ASSUME NEW q \in I, NEW p \in I, q # p PROVE f[q] # f[p]
    BY Zenon
  <2>1. Before(bucket, q, p) \/ Before(bucket, p, q)
    BY DEF Before
  <2>2. f[p] \in Int /\ f[q] \in Int
    BY <1>5
  <2>3. f[q] < f[p] \/ f[p] < f[q]
    BY <1>6, <2>1
  <2> QED
    BY <2>2, <2>3
<1>8. f \in [I -> I]
  BY <1>4, <1>5
<1>9. f \in Injection(I, I)
  BY <1>7, <1>8 DEF Injection, IsInjective
<1>10. f \in Surjection(I, I)
  BY <1>1, <1>9, FS_Injection
<1> QED
  BY <1>6, <1>7, <1>8, <1>10 DEF Surjection

(* Back is the inverse, and the buckets are grouped in the new order.      *)
LEMMA BackInverts ==
  ASSUME NEW n \in Nat, NEW bucket \in [0 .. n - 1 -> Nat]
  PROVE  /\ \A k \in 0 .. n - 1 : /\ Back(Order(bucket), k) \in 0 .. n - 1
                                  /\ Order(bucket)[Back(Order(bucket), k)] = k
         /\ \A p \in 0 .. n - 1 : Back(Order(bucket), Order(bucket)[p]) = p
         /\ \A j, k \in 0 .. n - 1 :
              j <= k => bucket[Back(Order(bucket), j)] <= bucket[Back(Order(bucket), k)]
<1> DEFINE I == 0 .. n - 1
           f == Order(bucket)
<1>1. /\ f \in [I -> I]
      /\ \A q, p \in I : Before(bucket, q, p) => f[q] < f[p]
      /\ \A q, p \in I : f[q] = f[p] => q = p
      /\ \A k \in I : \E p \in I : f[p] = k
  BY OrderPermutes
<1> HIDE DEF f
<1>2. \A k \in I : \E p \in DOMAIN f : f[p] = k
  BY <1>1
<1>3. \A k \in I : Back(f, k) \in I /\ f[Back(f, k)] = k
  BY <1>1, <1>2 DEF Back
<1>4. ASSUME NEW p \in I PROVE Back(f, f[p]) = p
  <2>1. f[p] \in I
    BY <1>1
  <2>2. Back(f, f[p]) \in I /\ f[Back(f, f[p])] = f[p]
    BY <1>3, <2>1
  <2> QED
    BY <1>1, <2>2
<1>5. ASSUME NEW j \in I, NEW k \in I, j <= k
      PROVE  bucket[Back(f, j)] <= bucket[Back(f, k)]
  <2>1. Back(f, j) \in I /\ Back(f, k) \in I /\ f[Back(f, j)] = j /\ f[Back(f, k)] = k
    BY <1>3
  <2>2. bucket[Back(f, j)] \in Nat /\ bucket[Back(f, k)] \in Nat
    BY <2>1
  <2>3. SUFFICES ASSUME bucket[Back(f, k)] < bucket[Back(f, j)] PROVE FALSE
    BY <2>2
  <2>4. Before(bucket, Back(f, k), Back(f, j))
    BY <2>3 DEF Before
  <2>5. f[Back(f, k)] < f[Back(f, j)]
    BY <1>1, <2>1, <2>4
  <2> QED
    BY <1>5, <2>1, <2>5
<1> QED
  BY <1>3, <1>4, <1>5 DEF f

(* A relocation is remapped to where its symbol is moved (reorder_records  *)
(* and remap_reloc_symbols agree), and every place is some symbol's.       *)
LEMMA RemapFollows ==
  ASSUME NEW n \in Nat, NEW base \in 0 .. n, NEW bucket \in [0 .. n - base - 1 -> Nat],
         NEW table, DOMAIN table = 0 .. n - 1
  PROVE  LET to(i) == RemapReloc(i, base, Order(bucket))
             moved == ReorderRecords(table, base, Order(bucket))
         IN /\ DOMAIN moved = 0 .. n - 1
            /\ \A i \in 0 .. n - 1 : /\ to(i) \in 0 .. n - 1
                                     /\ moved[to(i)] = table[i]
                                     /\ i >= base => to(i) >= base
            /\ \A k \in 0 .. n - 1 : \E i \in 0 .. n - 1 : to(i) = k
<1> DEFINE f == Order(bucket)
           to(i) == RemapReloc(i, base, f)
           moved == ReorderRecords(table, base, f)
           m == n - base
<1>1. m \in Nat /\ bucket \in [0 .. m - 1 -> Nat]
  OBVIOUS
<1>2. /\ \A p \in 0 .. m - 1 : f[p] \in 0 .. m - 1 /\ Back(f, f[p]) = p
      /\ \A k \in 0 .. m - 1 : Back(f, k) \in 0 .. m - 1 /\ f[Back(f, k)] = k
  <2>1. ASSUME NEW k \in Nat, bucket \in [0 .. k - 1 -> Nat]
        PROVE  /\ \A p \in 0 .. k - 1 : f[p] \in 0 .. k - 1 /\ Back(f, f[p]) = p
               /\ \A p \in 0 .. k - 1 : Back(f, p) \in 0 .. k - 1 /\ f[Back(f, p)] = p
    <3>1. f \in [0 .. k - 1 -> 0 .. k - 1]
      BY <2>1, OrderPermutes
    <3>2. /\ \A p \in 0 .. k - 1 : Back(f, f[p]) = p
          /\ \A p \in 0 .. k - 1 : Back(f, p) \in 0 .. k - 1 /\ f[Back(f, p)] = p
      BY <2>1, BackInverts
    <3> HIDE DEF f
    <3> QED
      BY <3>1, <3>2
  <2> HIDE DEF f, m
  <2> QED
    BY <1>1, <2>1
<1>3. DOMAIN moved = 0 .. n - 1
  BY DEF ReorderRecords
<1> HIDE DEF f
<1>4. ASSUME NEW i \in 0 .. n - 1
      PROVE  to(i) \in 0 .. n - 1 /\ moved[to(i)] = table[i] /\ (i >= base => to(i) >= base)
  <2>1. CASE i < base
    BY <2>1 DEF RemapReloc, ReorderRecords
  <2>2. CASE i >= base
    <3>1. i - base \in 0 .. m - 1
      BY <2>2
    <3>2. f[i - base] \in 0 .. m - 1 /\ Back(f, f[i - base]) = i - base
      BY <1>2, <3>1
    <3>3. to(i) = base + f[i - base]
      BY <2>2 DEF RemapReloc
    <3>4. to(i) \in 0 .. n - 1 /\ to(i) >= base /\ to(i) - base = f[i - base]
      BY <3>2, <3>3
    <3>5. moved[to(i)] = table[base + Back(f, to(i) - base)]
      BY <3>4 DEF ReorderRecords
    <3> QED
      BY <3>2, <3>4, <3>5
  <2> QED
    BY <2>1, <2>2
<1>5. ASSUME NEW k \in 0 .. n - 1
      PROVE  \E i \in 0 .. n - 1 : to(i) = k
  <2>1. CASE k < base
    BY <2>1 DEF RemapReloc
  <2>2. CASE k >= base
    <3>1. k - base \in 0 .. m - 1
      BY <2>2
    <3>2. Back(f, k - base) \in 0 .. m - 1 /\ f[Back(f, k - base)] = k - base
      BY <1>2, <3>1
    <3> DEFINE i == base + Back(f, k - base)
    <3>3. i \in 0 .. n - 1 /\ i >= base /\ i - base = Back(f, k - base)
      BY <3>2
    <3>4. to(i) = k
      BY <3>2, <3>3 DEF RemapReloc
    <3> QED
      BY <3>3, <3>4
  <2> QED
    BY <2>1, <2>2
<1> QED
  BY <1>3, <1>4, <1>5 DEF f

-----------------------------------------------------------------------------
(* What the stages make of well-formed tables.                             *)

LEMMA ModNat == ASSUME NEW a \in Nat, NEW b \in Nat \ {0}
                PROVE  a % b \in 0 .. b - 1
OBVIOUS

LEMMA DivNat == ASSUME NEW a \in Nat, NEW b \in Nat \ {0}
                PROVE  a \div b \in Nat
OBVIOUS

LEMMA HashTypes ==
  ASSUME NEW o, WellFormed(o)
  PROVE  /\ \A i \in 0 .. o.nsyms - 1 : o.dynsym[i] \in Symbol /\ Gnu(o, i) \in Nat
         /\ HashedCount(o) \in Nat
         /\ o.gnu.nbuckets # 0 => Buckets(o) \in [0 .. HashedCount(o) - 1 -> Nat]
<1>1. o.nsyms \in Nat /\ o.gnu.symndx \in 0 .. o.nsyms /\ o.gnu.nbuckets \in Nat
  BY DEF WellFormed, GnuTable
<1>2. ASSUME NEW i \in 0 .. o.nsyms - 1
      PROVE  o.dynsym[i] \in Symbol /\ Gnu(o, i) \in Nat
  <2>1. o.dynsym[i] \in Symbol
    BY DEF WellFormed
  <2>2. o.dynsym[i].name \in Names
    BY <2>1 DEF Symbol
  <2> QED
    BY <2>1, <2>2, SymbolRenameAssumption DEF Gnu
<1>3. HashedCount(o) \in Nat
  BY <1>1 DEF HashedCount
<1>4. ASSUME o.gnu.nbuckets # 0, NEW p \in 0 .. HashedCount(o) - 1
      PROVE  Buckets(o)[p] \in Nat
  <2>1. o.gnu.symndx + p \in 0 .. o.nsyms - 1
    BY <1>1 DEF HashedCount
  <2>2. Gnu(o, o.gnu.symndx + p) \in Nat /\ o.gnu.nbuckets \in Nat \ {0}
    BY <1>1, <1>2, <1>4, <2>1
  <2>3. Gnu(o, o.gnu.symndx + p) % o.gnu.nbuckets \in Nat
    BY <2>2, ModNat
  <2> QED
    BY <2>3 DEF Buckets
<1>5. DOMAIN Buckets(o) = 0 .. HashedCount(o) - 1
      /\ Buckets(o) = [p \in 0 .. HashedCount(o) - 1 |-> Buckets(o)[p]]
  BY DEF Buckets
<1> QED
  BY <1>2, <1>3, <1>4, <1>5

LEMMA RenamedTables ==
  ASSUME NEW o, WellFormed(o), NEW map \in Maps
  PROVE  /\ WellFormed(Renamed(o, map))
         /\ DOMAIN Renamed(o, map).dynsym = DOMAIN o.dynsym
         /\ \A i \in DOMAIN o.dynsym :
              Renamed(o, map).dynsym[i] = RenameSymbol(map, o.dynsym[i])
         /\ Renamed(o, map).nsyms = o.nsyms /\ Renamed(o, map).versions = o.versions
         /\ Renamed(o, map).relocs = o.relocs /\ Renamed(o, map).foreign = o.foreign
         /\ Renamed(o, map).gnu = o.gnu /\ Renamed(o, map).sysv = o.sysv
<1> DEFINE r == Renamed(o, map)
<1>1. DOMAIN o = {"nsyms", "dynsym", "versions", "relocs", "foreign", "gnu", "sysv"}
  BY DEF WellFormed
<1>2. /\ DOMAIN r = DOMAIN o /\ r.nsyms = o.nsyms /\ r.versions = o.versions
      /\ r.relocs = o.relocs /\ r.foreign = o.foreign /\ r.gnu = o.gnu /\ r.sysv = o.sysv
      /\ r.dynsym = [i \in DOMAIN o.dynsym |-> RenameSymbol(map, o.dynsym[i])]
  BY <1>1 DEF Renamed
<1>3. ASSUME NEW s \in Symbol PROVE RenameSymbol(map, s) \in Symbol
  <2>1. map \in [DOMAIN map -> Names]
    BY SymbolRenameAssumption
  <2>2. s.name \in Names
    BY DEF Symbol
  <2>3. NewName(map, s.name) \in Names
    BY <2>1, <2>2 DEF NewName
  <2> QED
    BY <2>3 DEF RenameSymbol, Symbol
<1>4. o.dynsym \in [0 .. o.nsyms - 1 -> Symbol]
  BY DEF WellFormed
<1>5. r.dynsym \in [0 .. o.nsyms - 1 -> Symbol]
  BY <1>2, <1>3, <1>4
<1> HIDE DEF r
<1>6. WellFormed(r)
  BY <1>2, <1>5 DEF WellFormed
<1> QED
  BY <1>2, <1>6 DEF r

LEMMA ReorderedTables ==
  ASSUME NEW o, WellFormed(o), NEW order
  PROVE  LET r == Reordered(o, order)
         IN /\ DOMAIN r = DOMAIN o
            /\ r.dynsym = ReorderRecords(o.dynsym, o.gnu.symndx, order)
            /\ r.versions = ReorderRecords(o.versions, o.gnu.symndx, order)
            /\ r.relocs = Remapped(o.relocs, o.gnu.symndx, order)
            /\ r.foreign = Remapped(o.foreign, o.gnu.symndx, order)
            /\ r.nsyms = o.nsyms /\ r.gnu = o.gnu /\ r.sysv = o.sysv
BY DEF WellFormed, Reordered

LEMMA RefilledTables ==
  ASSUME NEW o, DOMAIN o = {"nsyms", "dynsym", "versions", "relocs", "foreign", "gnu", "sysv"},
         GnuTable(o.gnu)
  PROVE  LET r == Refilled(o)
         IN /\ DOMAIN r = DOMAIN o /\ DOMAIN r.gnu = DOMAIN o.gnu
            /\ r.dynsym = o.dynsym /\ r.versions = o.versions /\ r.relocs = o.relocs
            /\ r.foreign = o.foreign /\ r.nsyms = o.nsyms /\ r.sysv = o.sysv
            /\ r.gnu.present = o.gnu.present /\ r.gnu.nbuckets = o.gnu.nbuckets
            /\ r.gnu.symndx = o.gnu.symndx /\ r.gnu.maskwords = o.gnu.maskwords
            /\ r.gnu.shift2 = o.gnu.shift2
            /\ r.gnu.bloom = Bloom(o)
            /\ r.gnu.buckets = [b \in DOMAIN o.gnu.buckets |-> FirstOf(o, b)]
            /\ r.gnu.chain = [k \in DOMAIN o.gnu.chain |->
                 IF k < HashedCount(o) THEN ChainWord(o, k) ELSE o.gnu.chain[k]]
BY DEF Refilled, GnuTable

LEMMA SysvTables ==
  ASSUME NEW o, NEW before, NEW order,
         DOMAIN o = {"nsyms", "dynsym", "versions", "relocs", "foreign", "gnu", "sysv"},
         "present" \in DOMAIN o.sysv
  PROVE  LET r == RebuildSysv(o, before, order)
         IN /\ DOMAIN r = DOMAIN o /\ "present" \in DOMAIN r.sysv
            /\ r.dynsym = o.dynsym /\ r.versions = o.versions /\ r.relocs = o.relocs
            /\ r.foreign = o.foreign /\ r.nsyms = o.nsyms /\ r.gnu = o.gnu
BY DEF RebuildSysv

(* What rename_dynamic_symbols leaves in each table, without and with a    *)
(* .gnu.hash to group the symbols for.                                     *)
LEMMA ResultPlain ==
  ASSUME NEW o, WellFormed(o), ~HasGnu(o)
  PROVE  LET r == Result(o)
         IN /\ DOMAIN r = DOMAIN o /\ "present" \in DOMAIN r.sysv
            /\ r.dynsym = o.dynsym /\ r.versions = o.versions /\ r.relocs = o.relocs
            /\ r.foreign = o.foreign /\ r.nsyms = o.nsyms /\ r.gnu = o.gnu
<1>1. RebuildGnu(o, GnuOrder(o)) = o
  BY DEF RebuildGnu
<1>2. Result(o) = RebuildSysv(o, o, GnuOrder(o))
  BY <1>1 DEF Result, Rebuild
<1> QED
  BY <1>2, SysvTables DEF WellFormed

LEMMA ResultGrouped ==
  ASSUME NEW o, WellFormed(o), HasGnu(o)
  PROVE  LET r == Result(o)
             order == Order(Buckets(o))
             g == Reordered(o, order)
         IN /\ DOMAIN r = DOMAIN o /\ "present" \in DOMAIN r.sysv
            /\ r.dynsym = ReorderRecords(o.dynsym, o.gnu.symndx, order)
            /\ r.versions = ReorderRecords(o.versions, o.gnu.symndx, order)
            /\ r.relocs = Remapped(o.relocs, o.gnu.symndx, order)
            /\ r.foreign = Remapped(o.foreign, o.gnu.symndx, order)
            /\ r.nsyms = o.nsyms /\ DOMAIN r.gnu = DOMAIN o.gnu
            /\ r.gnu.present = o.gnu.present /\ r.gnu.nbuckets = o.gnu.nbuckets
            /\ r.gnu.symndx = o.gnu.symndx /\ r.gnu.maskwords = o.gnu.maskwords
            /\ r.gnu.shift2 = o.gnu.shift2
            /\ r.gnu.bloom = Bloom(g)
            /\ r.gnu.buckets = [b \in DOMAIN o.gnu.buckets |-> FirstOf(g, b)]
            /\ r.gnu.chain = [k \in DOMAIN o.gnu.chain |->
                 IF k < HashedCount(g) THEN ChainWord(g, k) ELSE o.gnu.chain[k]]
<1> DEFINE order == Order(Buckets(o))
           g == Reordered(o, order)
<1>1. Result(o) = RebuildSysv(Refilled(g), o, order)
  BY DEF Result, Rebuild, RebuildGnu, GnuOrder
<1>2. DOMAIN o = {"nsyms", "dynsym", "versions", "relocs", "foreign", "gnu", "sysv"}
      /\ GnuTable(o.gnu) /\ "present" \in DOMAIN o.sysv
  BY DEF WellFormed
<1>3. /\ DOMAIN g = DOMAIN o
      /\ g.dynsym = ReorderRecords(o.dynsym, o.gnu.symndx, order)
      /\ g.versions = ReorderRecords(o.versions, o.gnu.symndx, order)
      /\ g.relocs = Remapped(o.relocs, o.gnu.symndx, order)
      /\ g.foreign = Remapped(o.foreign, o.gnu.symndx, order)
      /\ g.nsyms = o.nsyms /\ g.gnu = o.gnu /\ g.sysv = o.sysv
  BY ReorderedTables
<1> HIDE DEF order, g
<1> DEFINE f == Refilled(g)
<1>4. /\ DOMAIN f = DOMAIN g /\ DOMAIN f.gnu = DOMAIN g.gnu
      /\ f.dynsym = g.dynsym /\ f.versions = g.versions /\ f.relocs = g.relocs
      /\ f.foreign = g.foreign /\ f.nsyms = g.nsyms /\ f.sysv = g.sysv
      /\ f.gnu.present = g.gnu.present /\ f.gnu.nbuckets = g.gnu.nbuckets
      /\ f.gnu.symndx = g.gnu.symndx /\ f.gnu.maskwords = g.gnu.maskwords
      /\ f.gnu.shift2 = g.gnu.shift2 /\ f.gnu.bloom = Bloom(g)
      /\ f.gnu.buckets = [b \in DOMAIN g.gnu.buckets |-> FirstOf(g, b)]
      /\ f.gnu.chain = [k \in DOMAIN g.gnu.chain |->
           IF k < HashedCount(g) THEN ChainWord(g, k) ELSE g.gnu.chain[k]]
  BY <1>2, <1>3, RefilledTables
<1> HIDE DEF f
<1> DEFINE r == RebuildSysv(f, o, order)
<1>5. /\ DOMAIN r = DOMAIN f /\ "present" \in DOMAIN r.sysv
      /\ r.dynsym = f.dynsym /\ r.versions = f.versions /\ r.relocs = f.relocs
      /\ r.foreign = f.foreign /\ r.nsyms = f.nsyms /\ r.gnu = f.gnu
  BY <1>2, <1>3, <1>4, SysvTables
<1>6. Result(o) = r
  BY <1>1 DEF f
<1> HIDE DEF r
<1>7. /\ DOMAIN r = DOMAIN o /\ "present" \in DOMAIN r.sysv
      /\ r.dynsym = ReorderRecords(o.dynsym, o.gnu.symndx, order)
      /\ r.versions = ReorderRecords(o.versions, o.gnu.symndx, order)
      /\ r.relocs = Remapped(o.relocs, o.gnu.symndx, order)
      /\ r.foreign = Remapped(o.foreign, o.gnu.symndx, order)
      /\ r.nsyms = o.nsyms /\ DOMAIN r.gnu = DOMAIN o.gnu
      /\ r.gnu.present = o.gnu.present /\ r.gnu.nbuckets = o.gnu.nbuckets
      /\ r.gnu.symndx = o.gnu.symndx /\ r.gnu.maskwords = o.gnu.maskwords
      /\ r.gnu.shift2 = o.gnu.shift2 /\ r.gnu.bloom = Bloom(g)
      /\ r.gnu.buckets = [b \in DOMAIN o.gnu.buckets |-> FirstOf(g, b)]
      /\ r.gnu.chain = [k \in DOMAIN o.gnu.chain |->
           IF k < HashedCount(g) THEN ChainWord(g, k) ELSE o.gnu.chain[k]]
  BY <1>3, <1>4, <1>5, Zenon
<1> QED
  BY <1>6, <1>7, Zenon DEF order, g

(* The facts of RemapFollows about tables with a .gnu.hash.                *)
LEMMA Moves ==
  ASSUME NEW o, WellFormed(o), HasGnu(o), NEW table, DOMAIN table = 0 .. o.nsyms - 1
  PROVE  LET to(i) == RemapReloc(i, o.gnu.symndx, Order(Buckets(o)))
             moved == ReorderRecords(table, o.gnu.symndx, Order(Buckets(o)))
         IN /\ DOMAIN moved = 0 .. o.nsyms - 1
            /\ \A i \in 0 .. o.nsyms - 1 : /\ to(i) \in 0 .. o.nsyms - 1
                                           /\ moved[to(i)] = table[i]
                                           /\ i >= o.gnu.symndx => to(i) >= o.gnu.symndx
            /\ \A k \in 0 .. o.nsyms - 1 : \E i \in 0 .. o.nsyms - 1 : to(i) = k
<1> DEFINE n == o.nsyms
           base == o.gnu.symndx
           bucket == Buckets(o)
<1>1. n \in Nat /\ base \in 0 .. n /\ o.gnu.nbuckets # 0
  BY DEF WellFormed, GnuTable, HasGnu
<1>2. bucket \in [0 .. n - base - 1 -> Nat]
  BY <1>1, HashTypes DEF HashedCount
<1>3. DOMAIN table = 0 .. n - 1
  OBVIOUS
<1> HIDE DEF n, base, bucket
<1>4. LET to(i) == RemapReloc(i, base, Order(bucket))
          moved == ReorderRecords(table, base, Order(bucket))
      IN /\ DOMAIN moved = 0 .. n - 1
         /\ \A i \in 0 .. n - 1 : /\ to(i) \in 0 .. n - 1
                                  /\ moved[to(i)] = table[i]
                                  /\ i >= base => to(i) >= base
         /\ \A k \in 0 .. n - 1 : \E i \in 0 .. n - 1 : to(i) = k
  BY <1>1, <1>2, <1>3, RemapFollows
<1> QED
  BY <1>4 DEF n, base, bucket

(* Every record of the new table is one of the old.                        *)
LEMMA MovedFrom ==
  ASSUME NEW o, WellFormed(o), HasGnu(o), NEW k \in 0 .. o.nsyms - 1
  PROVE  \E i \in 0 .. o.nsyms - 1 :
           ReorderRecords(o.dynsym, o.gnu.symndx, Order(Buckets(o)))[k] = o.dynsym[i]
<1> DEFINE n == o.nsyms
           to(i) == RemapReloc(i, o.gnu.symndx, Order(Buckets(o)))
           moved == ReorderRecords(o.dynsym, o.gnu.symndx, Order(Buckets(o)))
<1>1. DOMAIN o.dynsym = 0 .. n - 1
  BY DEF WellFormed
<1>2. \A i \in 0 .. n - 1 : moved[to(i)] = o.dynsym[i]
  BY <1>1, Moves
<1>3. \E i \in 0 .. n - 1 : to(i) = k
  BY <1>1, Moves
<1> HIDE DEF to, moved
<1> QED
  BY <1>2, <1>3 DEF moved

LEMMA ResultWellFormed ==
  ASSUME NEW o, WellFormed(o), ~Panics(o)
  PROVE  WellFormed(Result(o))
<1> DEFINE r == Result(o)
<1>1. CASE ~HasGnu(o)
  <2>1. /\ DOMAIN r = DOMAIN o /\ "present" \in DOMAIN r.sysv
        /\ r.dynsym = o.dynsym /\ r.versions = o.versions /\ r.relocs = o.relocs
        /\ r.foreign = o.foreign /\ r.nsyms = o.nsyms /\ r.gnu = o.gnu
    BY <1>1, ResultPlain
  <2> HIDE DEF r
  <2>2. WellFormed(r)
    BY <2>1 DEF WellFormed
  <2> QED
    BY <2>2 DEF r
<1>2. CASE HasGnu(o)
  <2> DEFINE order == Order(Buckets(o))
             base == o.gnu.symndx
             n == o.nsyms
             to(i) == RemapReloc(i, base, order)
  <2>1. /\ DOMAIN r = DOMAIN o /\ "present" \in DOMAIN r.sysv
        /\ r.dynsym = ReorderRecords(o.dynsym, base, order)
        /\ r.versions = ReorderRecords(o.versions, base, order)
        /\ r.relocs = Remapped(o.relocs, base, order)
        /\ r.foreign = Remapped(o.foreign, base, order)
        /\ r.nsyms = n /\ DOMAIN r.gnu = DOMAIN o.gnu
        /\ r.gnu.present = o.gnu.present /\ r.gnu.nbuckets = o.gnu.nbuckets
        /\ r.gnu.symndx = base /\ r.gnu.maskwords = o.gnu.maskwords
        /\ r.gnu.shift2 = o.gnu.shift2
    BY <1>2, ResultGrouped
  <2>2. DOMAIN r.gnu.bloom = DOMAIN o.gnu.bloom /\ DOMAIN r.gnu.buckets = DOMAIN o.gnu.buckets
    <3>1. r.gnu.bloom = Bloom(Reordered(o, order))
          /\ r.gnu.buckets = [b \in DOMAIN o.gnu.buckets |-> FirstOf(Reordered(o, order), b)]
      BY <1>2, ResultGrouped
    <3>2. Reordered(o, order).gnu = o.gnu
      BY ReorderedTables
    <3> QED
      BY <3>1, <3>2 DEF Bloom
  <2>3. GnuTable(r.gnu)
    <3> HIDE DEF r
    <3> QED
      BY <2>1, <2>2 DEF WellFormed, GnuTable
  <2>4. /\ n \in Nat /\ base \in 0 .. n /\ o.dynsym \in [0 .. n - 1 -> Symbol]
        /\ DOMAIN o.versions \in {{}, 0 .. n - 1}
        /\ \A i \in DOMAIN o.relocs : o.relocs[i] \in 0 .. n - 1
        /\ \A i \in DOMAIN o.foreign : o.foreign[i] \in Nat /\ o.foreign[i] < n
    BY <1>2 DEF WellFormed, GnuTable, Panics
  <2>5. /\ DOMAIN ReorderRecords(o.dynsym, base, order) = 0 .. n - 1
        /\ \A i \in 0 .. n - 1 : /\ to(i) \in 0 .. n - 1
                                 /\ ReorderRecords(o.dynsym, base, order)[to(i)] = o.dynsym[i]
        /\ \A k \in 0 .. n - 1 : \E i \in 0 .. n - 1 : to(i) = k
    BY <1>2, <2>4, Moves
  <2>6. DOMAIN r.versions = DOMAIN o.versions
    BY <2>1 DEF ReorderRecords
  <2>7. r.dynsym = [i \in DOMAIN r.dynsym |-> r.dynsym[i]]
    BY <2>1 DEF ReorderRecords
  <2>8. /\ DOMAIN r.relocs = DOMAIN o.relocs /\ DOMAIN r.foreign = DOMAIN o.foreign
        /\ \A i \in DOMAIN o.relocs : r.relocs[i] = to(o.relocs[i])
        /\ \A i \in DOMAIN o.foreign : r.foreign[i] = to(o.foreign[i])
    BY <2>1 DEF Remapped
  <2> HIDE DEF r, to, n, base, order
  <2>9. r.dynsym \in [0 .. n - 1 -> Symbol]
    <3>1. ASSUME NEW k \in 0 .. n - 1 PROVE r.dynsym[k] \in Symbol
      <4>1. PICK i \in 0 .. n - 1 : to(i) = k
        BY <2>5
      <4>2. ReorderRecords(o.dynsym, base, order)[k] = o.dynsym[i]
        BY <2>5, <4>1
      <4>3. o.dynsym[i] \in Symbol
        BY <2>4
      <4> QED
        BY <2>1, <4>2, <4>3
    <3> QED
      BY <2>1, <2>5, <2>7, <3>1
  <2>10. /\ \A i \in DOMAIN r.relocs : r.relocs[i] \in 0 .. n - 1
         /\ \A i \in DOMAIN r.foreign : r.foreign[i] \in Nat
    <3>1. \A k \in 0 .. n - 1 : to(k) \in 0 .. n - 1
      BY <2>5
    <3>2. ASSUME NEW i \in DOMAIN r.relocs PROVE r.relocs[i] \in 0 .. n - 1
      <4>1. r.relocs[i] = to(o.relocs[i]) /\ o.relocs[i] \in 0 .. n - 1
        BY <2>4, <2>8
      <4> QED
        BY <3>1, <4>1
    <3>3. ASSUME NEW i \in DOMAIN r.foreign PROVE r.foreign[i] \in Nat
      <4>1. r.foreign[i] = to(o.foreign[i]) /\ o.foreign[i] \in 0 .. n - 1
        BY <2>4, <2>8
      <4>2. to(o.foreign[i]) \in 0 .. n - 1
        BY <3>1, <4>1
      <4> QED
        BY <2>4, <4>1, <4>2
    <3> QED
      BY <3>2, <3>3
  <2>11. WellFormed(r)
    BY <2>1, <2>3, <2>4, <2>6, <2>9, <2>10 DEF WellFormed
  <2> QED
    BY <2>11 DEF r
<1> QED
  BY <1>1, <1>2

-----------------------------------------------------------------------------
(* Type correctness.                                                       *)

LEMMA StepWellFormed ==
  ASSUME WellFormed(obj), [Next]_vars
  PROVE  WellFormed(obj')
<1>1. ASSUME NEW map \in Maps, Rename(map)
      PROVE  WellFormed(obj')
  <2>1. CASE Hits(map) = {}
    BY <1>1, <2>1 DEF Rename
  <2>2. CASE Hits(map) # {}
    <3>1. ~Panics(obj) /\ obj' = Result(Renamed(obj, map))
      BY <1>1, <2>2 DEF Rename
    <3> DEFINE o == Renamed(obj, map)
    <3>2. /\ WellFormed(o) /\ o.nsyms = obj.nsyms
          /\ o.gnu = obj.gnu /\ o.foreign = obj.foreign
      BY RenamedTables
    <3> HIDE DEF o
    <3>3. ~Panics(o)
      BY <3>1, <3>2 DEF Panics, HasGnu, HashedCount
    <3> QED
      BY <3>1, <3>2, <3>3, ResultWellFormed DEF o
  <2> QED
    BY <2>1, <2>2
<1>2. ASSUME NEW map \in Maps, RenamePanics(map)
      PROVE  WellFormed(obj')
  BY <1>2 DEF RenamePanics
<1>3. ASSUME NEW name \in Cleared, ClearVersion(name)
      PROVE  WellFormed(obj')
  <2>1. /\ DOMAIN obj' = DOMAIN obj /\ DOMAIN obj'.versions = DOMAIN obj.versions
        /\ obj'.nsyms = obj.nsyms /\ obj'.dynsym = obj.dynsym /\ obj'.relocs = obj.relocs
        /\ obj'.foreign = obj.foreign /\ obj'.gnu = obj.gnu /\ obj'.sysv = obj.sysv
    BY <1>3 DEF ClearVersion, WellFormed
  <2> QED
    BY <2>1 DEF WellFormed
<1>4. CASE UNCHANGED vars
  BY <1>4 DEF vars
<1> QED
  BY <1>1, <1>2, <1>3, <1>4 DEF Next

LEMMA DoneTypes ==
  ASSUME runs \in 0 .. MaxRuns, NEW op, NEW map, NEW names, NEW outcome,
         Done(op, map, names, outcome)
  PROVE  runs' \in 0 .. MaxRuns /\ last'.outcome = outcome
BY SymbolRenameAssumption DEF Done

(* The tables keep their sizes and their indices in range in every run,    *)
(* for any tables, hash functions and maps (SymbolRename).                 *)
THEOREM TablesTypeCorrect == Spec => []TypeOK
<1>1. Init => TypeOK
  BY SymbolRenameAssumption DEF Init, TypeOK
<1>2. TypeOK /\ [Next]_vars => TypeOK'
  <2> SUFFICES ASSUME TypeOK, [Next]_vars PROVE TypeOK'
    OBVIOUS
  <2>1. WellFormed(obj')
    BY StepWellFormed DEF TypeOK
  <2>2. /\ runs' \in 0 .. MaxRuns
        /\ last'.outcome \in {"ok", "panic", "missing"}
    <3>1. ASSUME NEW map \in Maps, Rename(map) \/ RenamePanics(map)
          PROVE  runs' \in 0 .. MaxRuns /\ last'.outcome \in {"ok", "panic", "missing"}
      BY <3>1, DoneTypes DEF Rename, RenamePanics, TypeOK
    <3>2. ASSUME NEW name \in Cleared, ClearVersion(name)
          PROVE  runs' \in 0 .. MaxRuns /\ last'.outcome \in {"ok", "panic", "missing"}
      BY <3>2, DoneTypes DEF ClearVersion, TypeOK
    <3>3. CASE UNCHANGED vars
      BY <3>3 DEF vars, TypeOK
    <3> QED
      BY <3>1, <3>2, <3>3 DEF Next
  <2> QED
    BY <2>1, <2>2 DEF TypeOK
<1> QED
  BY <1>1, <1>2, PTL DEF Spec

-----------------------------------------------------------------------------
(* Renaming implements SymbolSet.                                          *)

LEMMA EntriesMove ==
  ASSUME NEW o, WellFormed(o)
  PROVE  LET r == Result(o)
         IN /\ {Entry(r, i) : i \in Indices(r)} = {Entry(o, i) : i \in Indices(o)}
            /\ DOMAIN r.relocs = DOMAIN o.relocs
            /\ \A i \in DOMAIN o.relocs : Entry(r, r.relocs[i]) = Entry(o, o.relocs[i])
<1> DEFINE r == Result(o)
<1>1. CASE ~HasGnu(o)
  <2>1. r.dynsym = o.dynsym /\ r.versions = o.versions /\ r.relocs = o.relocs
    BY <1>1, ResultPlain
  <2> HIDE DEF r
  <2>2. \A i : Entry(r, i) = Entry(o, i)
    BY <2>1 DEF Entry, Version
  <2> QED
    BY <2>1, <2>2 DEF r, Indices
<1>2. CASE HasGnu(o)
  <2> DEFINE base == o.gnu.symndx
             order == Order(Buckets(o))
             n == o.nsyms
             to(i) == RemapReloc(i, base, order)
  <2>1. /\ r.dynsym = ReorderRecords(o.dynsym, base, order)
        /\ r.versions = ReorderRecords(o.versions, base, order)
        /\ r.relocs = Remapped(o.relocs, base, order)
    BY <1>2, ResultGrouped
  <2>2. /\ DOMAIN o.dynsym = 0 .. n - 1
        /\ DOMAIN o.versions \in {{}, 0 .. n - 1}
        /\ \A i \in DOMAIN o.relocs : o.relocs[i] \in 0 .. n - 1
    BY DEF WellFormed
  <2>3. /\ DOMAIN r.dynsym = 0 .. n - 1
        /\ \A i \in 0 .. n - 1 : to(i) \in 0 .. n - 1 /\ r.dynsym[to(i)] = o.dynsym[i]
        /\ \A k \in 0 .. n - 1 : \E i \in 0 .. n - 1 : to(i) = k
    BY <1>2, <2>1, <2>2, Moves
  <2>4. /\ DOMAIN r.versions = DOMAIN o.versions
        /\ \A i \in 0 .. n - 1 : i \in DOMAIN o.versions => r.versions[to(i)] = o.versions[i]
    <3>1. CASE DOMAIN o.versions = {}
      BY <2>1, <3>1 DEF ReorderRecords
    <3>2. CASE DOMAIN o.versions = 0 .. n - 1
      <4> DEFINE moved == ReorderRecords(o.versions, base, order)
      <4>1. DOMAIN moved = 0 .. n - 1 /\ \A i \in 0 .. n - 1 : moved[to(i)] = o.versions[i]
        BY <1>2, <3>2, Moves
      <4> HIDE DEF moved, to, n
      <4> QED
        BY <2>1, <3>2, <4>1 DEF moved
    <3> QED
      BY <2>2, <3>1, <3>2
  <2>5. /\ DOMAIN r.relocs = DOMAIN o.relocs
        /\ \A i \in DOMAIN o.relocs : r.relocs[i] = to(o.relocs[i])
    BY <2>1 DEF Remapped
  <2> HIDE DEF r, to, n
  <2>6. ASSUME NEW i \in 0 .. n - 1
        PROVE  Entry(r, to(i)) = Entry(o, i)
    <3>1. i \in DOMAIN o.versions <=> to(i) \in DOMAIN r.versions
      BY <2>2, <2>3, <2>4
    <3>2. Version(r, to(i)) = Version(o, i)
      BY <2>4, <3>1 DEF Version
    <3> QED
      BY <2>3, <3>2 DEF Entry
  <2>7. {Entry(r, i) : i \in Indices(r)} = {Entry(o, i) : i \in Indices(o)}
    <3>1. ASSUME NEW i \in 0 .. n - 1
          PROVE  Entry(o, i) \in {Entry(r, k) : k \in 0 .. n - 1}
      BY <2>3, <2>6
    <3>2. ASSUME NEW k \in 0 .. n - 1
          PROVE  Entry(r, k) \in {Entry(o, i) : i \in 0 .. n - 1}
      <4>1. PICK i \in 0 .. n - 1 : to(i) = k
        BY <2>3
      <4> QED
        BY <2>6, <4>1
    <3>3. {Entry(r, i) : i \in 0 .. n - 1} = {Entry(o, i) : i \in 0 .. n - 1}
      BY <3>1, <3>2
    <3> QED
      BY <2>2, <2>3, <3>3 DEF Indices
  <2>8. \A i \in DOMAIN o.relocs : Entry(r, r.relocs[i]) = Entry(o, o.relocs[i])
    BY <2>2, <2>5, <2>6
  <2> QED
    BY <2>5, <2>7, <2>8 DEF r
<1> QED
  BY <1>1, <1>2

LEMMA EntriesRenamed ==
  ASSUME NEW o, WellFormed(o), NEW map \in Maps
  PROVE  /\ Indices(Renamed(o, map)) = Indices(o)
         /\ \A i \in Indices(o) :
              Entry(Renamed(o, map), i) = Set!Rename(map, Entry(o, i))
<1> DEFINE r == Renamed(o, map)
<1>1. /\ DOMAIN r.dynsym = DOMAIN o.dynsym /\ r.versions = o.versions
      /\ \A i \in DOMAIN o.dynsym : r.dynsym[i] = RenameSymbol(map, o.dynsym[i])
  BY RenamedTables
<1> HIDE DEF r
<1>2. ASSUME NEW i \in Indices(o)
      PROVE  Entry(r, i) = Set!Rename(map, Entry(o, i))
  <2>1. o.dynsym[i] \in Symbol
    BY DEF WellFormed, Indices
  <2>2. /\ r.dynsym[i].name = Set!NewName(map, o.dynsym[i].name)
        /\ r.dynsym[i].id = o.dynsym[i].id /\ r.dynsym[i].def = o.dynsym[i].def
    BY <1>1, <2>1 DEF Indices, RenameSymbol, NewName, Set!NewName, Symbol
  <2>3. Version(r, i) = Version(o, i)
    BY <1>1 DEF Version
  <2> QED
    BY <2>2, <2>3 DEF Entry, Set!Rename
<1> QED
  BY <1>1, <1>2 DEF r, Indices

LEMMA RenameStep ==
  ASSUME WellFormed(obj), NEW map \in Maps, Rename(map)
  PROVE  Set!AcceptRename(map)
<1> DEFINE S(o) == {Entry(o, i) : i \in Indices(o)}
<1>1. Asked' = [op |-> "rename", map |-> map, names |-> {}, ok |-> TRUE]
  BY DEF Rename, Done, Asked
<1>2. DOMAIN obj.dynsym = Indices(obj)
      /\ \A r \in DOMAIN obj.relocs : obj.relocs[r] \in Indices(obj)
  BY DEF WellFormed, Indices
<1>3. /\ S(obj') = {Set!Rename(map, s) : s \in S(obj)}
      /\ DOMAIN obj'.relocs = DOMAIN obj.relocs
      /\ \A r \in DOMAIN obj.relocs :
           Entry(obj', obj'.relocs[r]) = Set!Rename(map, Entry(obj, obj.relocs[r]))
  <2>1. CASE Hits(map) = {}
    <3>1. obj' = obj
      BY <2>1 DEF Rename
    <3>2. ASSUME NEW i \in Indices(obj)
          PROVE  Set!Rename(map, Entry(obj, i)) = Entry(obj, i)
      <4>1. obj.dynsym[i].name \notin DOMAIN map
        BY <2>1 DEF Hits
      <4> QED
        BY <4>1 DEF Entry, Set!Rename, Set!NewName
    <3> QED
      BY <1>2, <3>1, <3>2
  <2>2. CASE Hits(map) # {}
    <3> DEFINE o == Renamed(obj, map)
               n == Result(o)
    <3>1. obj' = n
      BY <2>2 DEF Rename
    <3>2. WellFormed(o) /\ o.relocs = obj.relocs
      BY RenamedTables
    <3>3. /\ S(n) = S(o)
          /\ DOMAIN n.relocs = DOMAIN o.relocs
          /\ \A r \in DOMAIN o.relocs : Entry(n, n.relocs[r]) = Entry(o, o.relocs[r])
      BY <3>2, EntriesMove
    <3>4. /\ Indices(o) = Indices(obj)
          /\ \A i \in Indices(obj) : Entry(o, i) = Set!Rename(map, Entry(obj, i))
      BY EntriesRenamed
    <3> HIDE DEF n, o
    <3>5. S(o) = {Set!Rename(map, s) : s \in S(obj)}
      <4>1. \A s : s \in S(o) <=> \E i \in Indices(obj) : s = Set!Rename(map, Entry(obj, i))
        BY <3>4
      <4> QED
        BY <4>1
    <3> QED
      BY <1>2, <3>1, <3>2, <3>3, <3>4, <3>5
  <2> QED
    BY <2>1, <2>2
<1> QED
  BY <1>1, <1>3 DEF Set!AcceptRename

LEMMA ClearStep ==
  ASSUME WellFormed(obj), NEW name \in Cleared, ClearVersion(name), DOMAIN obj.versions # {}
  PROVE  Set!AcceptClear(name)
<1> DEFINE S(o) == {Entry(o, i) : i \in Indices(o)}
<1>1. Asked' = [op |-> "clear", map |-> <<>>, names |-> {name}, ok |-> TRUE]
  <2>1. Done("clear", <<>>, {name}, "ok")
    BY DEF ClearVersion
  <2> QED
    BY <2>1 DEF Done, Asked
<1>2. /\ DOMAIN obj.dynsym = Indices(obj) /\ DOMAIN obj.versions = Indices(obj)
      /\ \A r \in DOMAIN obj.relocs : obj.relocs[r] \in Indices(obj)
  BY DEF WellFormed, Indices
<1>3. /\ obj'.dynsym = obj.dynsym /\ obj'.relocs = obj.relocs
      /\ obj'.versions = [i \in DOMAIN obj.versions |->
           IF obj.dynsym[i].name = name THEN 1 ELSE obj.versions[i]]
  BY DEF ClearVersion, WellFormed
<1>4. ASSUME NEW i \in Indices(obj)
      PROVE  Entry(obj', i) = Set!Clear(name, Entry(obj, i))
  BY <1>2, <1>3 DEF Entry, Version, Set!Clear
<1>5. Indices(obj') = Indices(obj)
  BY <1>3 DEF Indices
<1>6. S(obj') = {Set!Clear(name, s) : s \in S(obj)}
  <2>1. \A s : s \in S(obj') <=> \E i \in Indices(obj) : s = Set!Clear(name, Entry(obj, i))
    BY <1>4, <1>5
  <2> QED
    BY <2>1
<1>7. [r \in DOMAIN obj'.relocs |-> Entry(obj', obj'.relocs[r])]
        = [r \in DOMAIN obj.relocs |-> Set!Clear(name, Entry(obj, obj.relocs[r]))]
  BY <1>2, <1>3, <1>4
<1>8. \A r \in DOMAIN obj.relocs :
        Set!Clear(name, [q \in DOMAIN obj.relocs |-> Entry(obj, obj.relocs[q])][r])
          = Set!Clear(name, Entry(obj, obj.relocs[r]))
  OBVIOUS
<1> QED
  BY <1>1, <1>6, <1>7, <1>8 DEF Set!AcceptClear

(* Renaming changes names and nothing else, clearing versions and nothing  *)
(* else, and relocations stay with their symbols, for any tables, hash     *)
(* functions and maps (symbols.rs implements SymbolSet).                   *)
THEOREM RenamingImplementsSet == Spec => ImplementsSymbolSet
<1>1. Init => Set!Init
  BY DEF Init, Set!Init, Asked
<1>2. TypeOK /\ [Next]_vars
        => [Set!Next]_<<{Entry(obj, i) : i \in Indices(obj)},
                        [r \in DOMAIN obj.relocs |-> Entry(obj, obj.relocs[r])], Asked>>
  <2> SUFFICES ASSUME TypeOK, [Next]_vars
               PROVE  \/ Set!Next
                      \/ UNCHANGED <<obj, last>>
    BY DEF Asked
  <2>1. WellFormed(obj)
    BY DEF TypeOK
  <2>2. ASSUME NEW map \in Maps, Rename(map)
        PROVE  Set!Next
    BY <2>1, <2>2, RenameStep DEF Set!Next
  <2>3. ASSUME NEW map \in Maps, RenamePanics(map)
        PROVE  Set!Next
    BY <2>3 DEF RenamePanics, Done, Asked, Set!Next, Set!Refuse
  <2>4. ASSUME NEW name \in Cleared, ClearVersion(name)
        PROVE  Set!Next
    <3>1. CASE DOMAIN obj.versions = {}
      <4>1. Done("clear", <<>>, {name}, "missing") /\ UNCHANGED obj
        BY <2>4, <3>1 DEF ClearVersion
      <4> QED
        BY <4>1 DEF Done, Asked, Set!Next, Set!Refuse
    <3>2. CASE DOMAIN obj.versions # {}
      BY <2>1, <2>4, <3>2, ClearStep DEF Set!Next
    <3> QED
      BY <3>1, <3>2
  <2>5. CASE UNCHANGED vars
    BY <2>5 DEF vars
  <2> QED
    BY <2>2, <2>3, <2>4, <2>5 DEF Next
<1> QED
  BY <1>1, <1>2, TablesTypeCorrect, PTL DEF Spec, ImplementsSymbolSet, Set!SetSpec

-----------------------------------------------------------------------------
(* .gnu.hash finds every definition.                                       *)

(* The first symbol of a bucket.                                           *)
LEMMA LeastIsLeast ==
  ASSUME NEW n \in Nat, NEW S \in SUBSET (0 .. n - 1), NEW k \in S
  PROVE  Least(S) \in S /\ Least(S) <= k
<1>1. S \subseteq Nat /\ S # {}
  OBVIOUS
<1>2. \E x \in S : \A y \in S : x <= y
  BY <1>1, LeastNatural
<1> QED
  BY <1>2 DEF Least

(* After the reorder the buckets are sorted.                               *)
LEMMA BucketsSorted ==
  ASSUME NEW o, WellFormed(o), HasGnu(o)
  PROVE  LET g == Reordered(o, Order(Buckets(o)))
         IN /\ HashedCount(g) = HashedCount(o)
            /\ Buckets(g) \in [0 .. HashedCount(o) - 1 -> Nat]
            /\ \A j, k \in 0 .. HashedCount(o) - 1 :
                 j <= k => Buckets(g)[j] <= Buckets(g)[k]
<1> DEFINE order == Order(Buckets(o))
           g == Reordered(o, order)
           m == HashedCount(o)
<1>1. /\ g.dynsym = ReorderRecords(o.dynsym, o.gnu.symndx, order)
      /\ g.nsyms = o.nsyms /\ g.gnu = o.gnu
  BY ReorderedTables
<1>2. m \in Nat /\ Buckets(o) \in [0 .. m - 1 -> Nat]
  BY HashTypes DEF HasGnu
<1>3. /\ \A k \in 0 .. m - 1 : Back(order, k) \in 0 .. m - 1
      /\ \A j, k \in 0 .. m - 1 :
           j <= k => Buckets(o)[Back(order, j)] <= Buckets(o)[Back(order, k)]
  <2> HIDE DEF m
  <2> QED
    BY <1>2, BackInverts
<1>4. o.nsyms \in Nat /\ o.gnu.symndx \in 0 .. o.nsyms /\ DOMAIN o.dynsym = 0 .. o.nsyms - 1
      /\ m = o.nsyms - o.gnu.symndx
  BY DEF WellFormed, GnuTable, HashedCount
<1> HIDE DEF order, g
<1>5. HashedCount(g) = m
  BY <1>1 DEF HashedCount
<1>6. ASSUME NEW k \in 0 .. m - 1
      PROVE  Buckets(g)[k] = Buckets(o)[Back(order, k)]
  <2>1. /\ o.gnu.symndx + k \in 0 .. o.nsyms - 1 /\ ~(o.gnu.symndx + k < o.gnu.symndx)
        /\ (o.gnu.symndx + k) - o.gnu.symndx = k
    BY <1>4
  <2>2. g.dynsym[o.gnu.symndx + k] = o.dynsym[o.gnu.symndx + Back(order, k)]
    BY <1>1, <1>4, <2>1 DEF ReorderRecords
  <2>3. Gnu(g, g.gnu.symndx + k) = Gnu(o, o.gnu.symndx + Back(order, k))
    BY <1>1, <2>2 DEF Gnu
  <2>4. Buckets(g)[k] = Gnu(g, g.gnu.symndx + k) % g.gnu.nbuckets
    BY <1>5 DEF Buckets
  <2>5. Buckets(o)[Back(order, k)] = Gnu(o, o.gnu.symndx + Back(order, k)) % o.gnu.nbuckets
    BY <1>3 DEF Buckets
  <2> QED
    BY <1>1, <2>3, <2>4, <2>5
<1>7. Buckets(g) = [k \in 0 .. m - 1 |-> Buckets(g)[k]]
  BY <1>5 DEF Buckets
<1> HIDE DEF m
<1>8. /\ Buckets(g) \in [0 .. m - 1 -> Nat]
      /\ \A j, k \in 0 .. m - 1 : j <= k => Buckets(g)[j] <= Buckets(g)[k]
  <2>1. \A k \in 0 .. m - 1 : Buckets(g)[k] \in Nat
    BY <1>2, <1>3, <1>6
  <2> QED
    BY <1>3, <1>6, <1>7, <2>1
<1> QED
  BY <1>5, <1>8 DEF g, order, m

LEMMA ParityOfChain ==
  ASSUME NEW h \in Nat
  PROVE  /\ (2 * (h \div 2) + 0) % 2 = 0
         /\ (2 * (h \div 2) + 0) \div 2 = h \div 2
         /\ (2 * (h \div 2) + 1) \div 2 = h \div 2
OBVIOUS

(* A lookup of a hashed symbol's name comes by the symbol: the bloom       *)
(* filter lets it pass, and the chain does not end before it.              *)
LEMMA ResultVisited ==
  ASSUME NEW o, WellFormed(o), HasGnu(o), ~Panics(o),
         NEW i \in o.gnu.symndx .. o.nsyms - 1
  PROVE  i \in GnuVisits(Result(o), Gnu(Result(o), i))
<1> DEFINE order == Order(Buckets(o))
           r == Result(o)
           g == Reordered(o, order)
           m == HashedCount(o)
           base == o.gnu.symndx
           B == Buckets(g)
           h == Gnu(g, i)
           b == h % o.gnu.nbuckets
           k == i - base
           word == (h \div WordBits) % o.gnu.maskwords
<1>1. /\ r.dynsym = g.dynsym /\ r.nsyms = g.nsyms /\ g.nsyms = o.nsyms /\ g.gnu = o.gnu
      /\ r.gnu.nbuckets = o.gnu.nbuckets /\ r.gnu.symndx = base
      /\ r.gnu.maskwords = o.gnu.maskwords /\ r.gnu.shift2 = o.gnu.shift2
      /\ r.gnu.bloom = Bloom(g)
      /\ r.gnu.buckets = [x \in DOMAIN o.gnu.buckets |-> FirstOf(g, x)]
      /\ r.gnu.chain = [x \in DOMAIN o.gnu.chain |->
           IF x < HashedCount(g) THEN ChainWord(g, x) ELSE o.gnu.chain[x]]
  BY ResultGrouped, ReorderedTables
<1>2. /\ o.nsyms \in Nat /\ base \in Nat /\ base > 0 /\ base <= o.nsyms
      /\ o.gnu.nbuckets \in Nat \ {0} /\ o.gnu.maskwords \in Nat \ {0}
      /\ DOMAIN o.gnu.bloom = 0 .. o.gnu.maskwords - 1
      /\ DOMAIN o.gnu.buckets = 0 .. o.gnu.nbuckets - 1
      /\ WordBits \in Nat \ {0} /\ m = o.nsyms - base
  BY SymbolRenameAssumption DEF WellFormed, GnuTable, HasGnu, HashedCount
<1>3. HashedCount(g) = m
      /\ B \in [0 .. m - 1 -> Nat]
      /\ \A x, y \in 0 .. m - 1 : x <= y => B[x] <= B[y]
  BY BucketsSorted
<1>4. \A x \in 0 .. m - 1 : x \in DOMAIN o.gnu.chain
  BY DEF Panics
<1>5. \A j \in base .. o.nsyms - 1 : Gnu(g, j) \in Nat
  <2>1. \A j \in 0 .. o.nsyms - 1 : \E p \in 0 .. o.nsyms - 1 :
          ReorderRecords(o.dynsym, base, order)[j] = o.dynsym[p]
    BY MovedFrom
  <2>2. g.dynsym = ReorderRecords(o.dynsym, base, order)
    BY ReorderedTables
  <2>3. \A p \in 0 .. o.nsyms - 1 : Gnu(o, p) \in Nat
    BY HashTypes
  <2> HIDE DEF g, order
  <2>4. ASSUME NEW j \in base .. o.nsyms - 1
        PROVE  Gnu(g, j) \in Nat
    <3>0. j \in 0 .. o.nsyms - 1
      BY <1>2
    <3>1. PICK p \in 0 .. o.nsyms - 1 : g.dynsym[j] = o.dynsym[p]
      BY <2>1, <2>2, <3>0
    <3>2. Gnu(g, j) = Gnu(o, p)
      BY <3>1 DEF Gnu
    <3> QED
      BY <2>3, <3>2
  <2> QED
    BY <2>4
<1>6. \A x \in 0 .. m - 1 : B[x] = Gnu(g, base + x) % o.gnu.nbuckets
  BY <1>1, <1>3 DEF Buckets
<1> HIDE DEF g, order, m, B, r
<1>7. k \in 0 .. m - 1 /\ base + k = i /\ h \in Nat /\ B[k] = b
  <2>1. k \in 0 .. m - 1 /\ base + k = i
    <3>1. base \in Nat /\ o.nsyms \in Nat /\ m = o.nsyms - base
      BY <1>2
    <3>2. i \in base .. o.nsyms - 1
      OBVIOUS
    <3> HIDE DEF base
    <3> QED
      BY <3>1, <3>2
  <2>2. h \in Nat
    BY <1>5
  <2>3. B[k] = b
    <3>1. B[k] = Gnu(g, base + k) % o.gnu.nbuckets
      BY <1>6, <2>1
    <3> QED
      BY <2>1, <3>1
  <2> QED
    BY <2>1, <2>2, <2>3
<1>8. b \in 0 .. o.gnu.nbuckets - 1 /\ h \div WordBits \in Nat /\ word \in 0 .. o.gnu.maskwords - 1
  <2>1. b \in 0 .. o.gnu.nbuckets - 1
    BY <1>2, <1>7, ModNat
  <2>2. h \div WordBits \in Nat
    BY <1>2, <1>7, DivNat
  <2> QED
    BY <1>2, <2>1, <2>2, ModNat
<1>9. Gnu(r, i) = h
  BY <1>1 DEF Gnu
<1> HIDE DEF h, k
<1>10. PassesBloom(r, h)
  <2>1. BloomBits(r, h) = BloomBits(g, h)
    BY <1>1 DEF BloomBits
  <2>2. r.gnu.bloom[word] = UNION {BloomBits(g, Gnu(g, j)) :
           j \in {x \in base .. o.nsyms - 1 : (Gnu(g, x) \div WordBits) % o.gnu.maskwords = word}}
    BY <1>1, <1>2, <1>8 DEF Bloom
  <2>3. BloomBits(g, h) \subseteq r.gnu.bloom[word]
    BY <2>2 DEF h
  <2> QED
    BY <1>1, <2>1, <2>3 DEF PassesBloom
<1> DEFINE S == {x \in 0 .. m - 1 : B[x] = b}
           first == base + Least(S)
<1>11. /\ Least(S) \in 0 .. m - 1 /\ B[Least(S)] = b /\ Least(S) <= k
       /\ r.gnu.buckets[b] = first /\ first # 0
  <2>1. k \in S /\ S \in SUBSET (0 .. m - 1) /\ m \in Nat
    BY <1>2, <1>7
  <2>2. Least(S) \in S /\ Least(S) <= k
    <3> HIDE DEF S
    <3> QED
      BY <2>1, LeastIsLeast
  <2>3. r.gnu.buckets[b] = FirstOf(g, b)
    BY <1>1, <1>2, <1>8
  <2>4. FirstOf(g, b) = LeastOr0(S, base)
    BY <1>1, <1>3 DEF FirstOf, B
  <2>5. LeastOr0(S, base) = first
    BY <2>1 DEF LeastOr0
  <2> QED
    BY <1>2, <2>2, <2>3, <2>4, <2>5
<1> HIDE DEF S
<1>12. ASSUME NEW x \in 0 .. m - 1
       PROVE  r.gnu.chain[x] = ChainWord(g, x)
  BY <1>1, <1>2, <1>3, <1>4
<1>13. ASSUME NEW j \in first .. i - 1
       PROVE  r.gnu.chain[j - base] % 2 = 0
  <2> DEFINE x == j - base
  <2>0. m \in Nat /\ Least(S) \in Nat /\ k \in Nat /\ k <= m - 1 /\ j <= i - 1 /\ base + Least(S) <= j
        /\ j \in Int /\ base \in Nat /\ i = base + k
    <3>1. m \in Nat /\ base \in Nat
      BY <1>2
    <3>2. k \in Nat /\ k <= m - 1 /\ i = base + k
      BY <1>7, <3>1
    <3>3. Least(S) \in Nat
      BY <1>11, <3>1
    <3>4. first \in Int /\ i \in Int
      BY <3>1, <3>2, <3>3
    <3> QED
      BY <3>1, <3>2, <3>3, <3>4
  <2> HIDE DEF first
  <2>1. x \in 0 .. m - 1 /\ x + 1 \in 0 .. m - 1 /\ Least(S) <= x /\ x + 1 <= k /\ base + x = j
    BY <2>0
  <2>2. B[x] \in Nat /\ B[x + 1] \in Nat /\ b <= B[x] /\ B[x] <= B[x + 1] /\ B[x + 1] <= b
    BY <1>3, <1>7, <1>11, <2>1
  <2> HIDE DEF x
  <2>3. B[x + 1] = B[x] /\ x + 1 # m
    <3>1. b \in Nat
      BY <1>8
    <3> HIDE DEF b
    <3> QED
      BY <2>0, <2>1, <2>2, <3>1
  <2>4. ChainWord(g, x) = 2 * (Gnu(g, base + x) \div 2) + 0
    BY <1>1, <1>3, <2>3 DEF ChainWord, B
  <2>5. Gnu(g, base + x) \in Nat
    <3>1. o.nsyms \in Nat /\ i \in Int /\ i <= o.nsyms - 1
      BY <1>2
    <3>2. j \in base .. o.nsyms - 1
      BY <2>0, <3>1
    <3> QED
      BY <1>5, <2>1, <3>2
  <2> QED
    BY <1>12, <2>1, <2>4, <2>5, ParityOfChain DEF x
<1>14. i \in ChainFrom(r, first)
  <2>1. i \in first .. r.nsyms - 1
    BY <1>1, <1>2, <1>7, <1>11
  <2> QED
    BY <1>1, <1>13, <2>1 DEF ChainFrom
<1>15. r.gnu.chain[i - base] \div 2 = h \div 2
  <2>1. \/ ChainWord(g, k) = 2 * (h \div 2) + 1
        \/ ChainWord(g, k) = 2 * (h \div 2) + 0
    BY <1>1, <1>7 DEF ChainWord, h
  <2>2. r.gnu.chain[k] = ChainWord(g, k)
    BY <1>7, <1>12
  <2> QED
    BY <1>7, <2>1, <2>2, ParityOfChain DEF k
<1> HIDE DEF first
<1>16. i \in GnuVisits(r, h)
  BY <1>1, <1>10, <1>11, <1>14, <1>15 DEF GnuVisits
<1> QED
  BY <1>9, <1>16 DEF r

LEMMA ResultIndexed ==
  ASSUME NEW o, WellFormed(o), HasGnu(o), ~Panics(o),
         \A i \in Indices(o) : o.dynsym[i].def => i >= o.gnu.symndx
  PROVE  Indexed(Result(o))
<1> DEFINE r == Result(o)
           base == o.gnu.symndx
           order == Order(Buckets(o))
           to(i) == RemapReloc(i, base, order)
<1>1. /\ r.gnu.nbuckets = o.gnu.nbuckets /\ r.gnu.symndx = base
      /\ r.dynsym = ReorderRecords(o.dynsym, base, order) /\ r.nsyms = o.nsyms
  BY ResultGrouped
<1>2. o.nsyms \in Nat /\ base \in 0 .. o.nsyms /\ DOMAIN o.dynsym = 0 .. o.nsyms - 1
      /\ o.gnu.nbuckets # 0
  BY DEF WellFormed, GnuTable, HasGnu
<1> DEFINE moved == ReorderRecords(o.dynsym, base, order)
<1>3. /\ DOMAIN moved = 0 .. o.nsyms - 1
      /\ \A i \in 0 .. o.nsyms - 1 : /\ to(i) \in 0 .. o.nsyms - 1
                                     /\ moved[to(i)] = o.dynsym[i]
                                     /\ i >= base => to(i) >= base
      /\ \A k \in 0 .. o.nsyms - 1 : \E i \in 0 .. o.nsyms - 1 : to(i) = k
  BY <1>2, Moves
<1>4. \A k \in base .. o.nsyms - 1 : k \in GnuVisits(r, Gnu(r, k))
  BY ResultVisited
<1> HIDE DEF r, to, base, moved
<1>5. ASSUME NEW k \in Indices(r), r.dynsym[k].def
      PROVE  k >= base /\ k \in GnuVisits(r, Gnu(r, k))
  <2>1. k \in 0 .. o.nsyms - 1
    BY <1>1, <1>3 DEF Indices, moved
  <2>2. PICK i \in 0 .. o.nsyms - 1 : to(i) = k
    BY <1>3, <2>1
  <2>3. o.dynsym[i].def
    BY <1>1, <1>3, <1>5, <2>2 DEF moved
  <2>4. i >= base
    BY <1>2, <2>3 DEF Indices, base
  <2>5. k >= base
    BY <1>3, <2>2, <2>4
  <2>6. k \in base .. o.nsyms - 1
    BY <1>2, <2>1, <2>5
  <2> QED
    BY <1>4, <2>5, <2>6
<1>6. Indexed(r)
  BY <1>1, <1>2, <1>5 DEF Indexed
<1> QED
  BY <1>6 DEF r

LEMMA IndexedSame ==
  ASSUME NEW o, NEW r, r.gnu = o.gnu, r.dynsym = o.dynsym, r.nsyms = o.nsyms, Indexed(o)
  PROVE  Indexed(r)
<1>1. \A h : GnuVisits(r, h) = GnuVisits(o, h)
  BY DEF GnuVisits, PassesBloom, BloomBits, ChainFrom
<1>2. \A i : Gnu(r, i) = Gnu(o, i)
  BY DEF Gnu
<1> QED
  BY <1>1, <1>2 DEF Indexed, Indices

LEMMA StepIndexed ==
  ASSUME WellFormed(obj), Indexed(obj), [Next]_vars
  PROVE  Indexed(obj')
<1>1. ASSUME NEW map \in Maps, Rename(map), Hits(map) # {}
      PROVE  Indexed(obj')
  <2> DEFINE o == Renamed(obj, map)
  <2>1. ~Panics(obj) /\ obj' = Result(o)
    BY <1>1 DEF Rename
  <2>2. /\ WellFormed(o) /\ o.nsyms = obj.nsyms /\ o.gnu = obj.gnu /\ o.foreign = obj.foreign
        /\ DOMAIN o.dynsym = DOMAIN obj.dynsym
        /\ \A i \in DOMAIN obj.dynsym : o.dynsym[i] = RenameSymbol(map, obj.dynsym[i])
    BY RenamedTables
  <2> HIDE DEF o
  <2>3. ~Panics(o)
    BY <2>1, <2>2 DEF Panics, HasGnu, HashedCount
  <2>4. \A i \in Indices(o) : o.dynsym[i].def = obj.dynsym[i].def
    <3>1. ASSUME NEW i \in DOMAIN obj.dynsym PROVE o.dynsym[i].def = obj.dynsym[i].def
      <4>1. obj.dynsym[i] \in Symbol
        BY DEF WellFormed
      <4> QED
        BY <2>2, <4>1 DEF RenameSymbol, Symbol
    <3> QED
      BY <2>2, <3>1 DEF Indices
  <2>5. CASE HasGnu(o)
    <3>1. \A i \in Indices(o) : o.dynsym[i].def => i >= o.gnu.symndx
      BY <2>2, <2>4, <2>5 DEF Indexed, Indices, HasGnu
    <3> QED
      BY <2>1, <2>2, <2>3, <2>5, <3>1, ResultIndexed
  <2>6. CASE ~HasGnu(o)
    <3>1. obj'.gnu = obj.gnu /\ obj'.dynsym = o.dynsym
      BY <2>1, <2>2, <2>6, ResultPlain
    <3>2. obj.gnu.present => \A i \in Indices(o) : ~o.dynsym[i].def
      <4>1. obj.gnu.present => obj.gnu.nbuckets = 0
        BY <2>2, <2>6 DEF HasGnu
      <4>2. obj.gnu.present => \A i \in Indices(obj) : ~obj.dynsym[i].def
        BY <4>1 DEF Indexed
      <4> QED
        BY <2>2, <2>4, <4>2 DEF Indices
    <3> QED
      BY <3>1, <3>2 DEF Indexed, Indices
  <2> QED
    BY <2>5, <2>6
<1>2. ASSUME NEW map \in Maps, Rename(map), Hits(map) = {}
      PROVE  Indexed(obj')
  BY <1>2 DEF Rename
<1>3. ASSUME NEW map \in Maps, RenamePanics(map)
      PROVE  Indexed(obj')
  BY <1>3 DEF RenamePanics
<1>4. ASSUME NEW name \in Cleared, ClearVersion(name)
      PROVE  Indexed(obj')
  <2>1. obj'.gnu = obj.gnu /\ obj'.dynsym = obj.dynsym /\ obj'.nsyms = obj.nsyms
    BY <1>4 DEF ClearVersion, WellFormed
  <2> QED
    BY <2>1, IndexedSame
<1>5. CASE UNCHANGED vars
  BY <1>5 DEF vars
<1> QED
  BY <1>1, <1>2, <1>3, <1>4, <1>5 DEF Next

(* However often symbols are renamed, a lookup through .gnu.hash finds     *)
(* exactly the definitions of a name, for any tables a linker produces,    *)
(* any hash functions, word size and maps (rebuild_gnu_hash).              *)
THEOREM GnuLookupFinds == Spec => []GnuFinds
<1>1. Init => Indexed(obj)
  BY LinkerAssumption DEF Init
<1>2. TypeOK /\ Indexed(obj) /\ [Next]_vars => Indexed(obj)'
  BY StepIndexed DEF TypeOK
<1>3. Indexed(obj) => GnuFinds
  <2> SUFFICES ASSUME Indexed(obj), obj.gnu.present, NEW name \in Names, NEW version \in Versions
               PROVE  GnuFound(obj, name, version) = Definers(obj, name, version)
    BY DEF GnuFinds
  <2>1. ASSUME NEW i \in Definers(obj, name, version)
        PROVE  obj.gnu.nbuckets # 0 /\ i \in GnuVisits(obj, GnuHash[name])
    BY DEF Definers, Defines, Indexed, Gnu
  <2> QED
    BY <2>1 DEF GnuFound
<1> QED
  BY <1>1, <1>2, <1>3, TablesTypeCorrect, PTL DEF Spec

-----------------------------------------------------------------------------
(* .hash finds every definition.                                           *)

(* The last symbol of a bucket, or the last before another.                *)
LEMMA GreatestIsGreatest ==
  ASSUME NEW n \in Nat, NEW S \in SUBSET (0 .. n - 1), NEW k \in S
  PROVE  GreatestOr0(S) \in S /\ GreatestOr0(S) >= k
<1>1. S \subseteq 0 .. n /\ S # {}
  OBVIOUS
<1>2. \E x \in S : \A y \in S : x >= y
  BY <1>1, GreatestNatural
<1> QED
  BY <1>2 DEF GreatestOr0, Greatest

(* The .hash bucket of the symbol at each index.                           *)
SysvBuckets(o) == [i \in 0 .. o.nsyms - 1 |-> SysvHash[o.dynsym[i].name] % o.sysv.nbuckets]

(* A lookup comes by every symbol but 0 of its bucket: the walk starts at  *)
(* or after it, goes down, and cannot step over it.                        *)
LEMMA WalkVisits ==
  ASSUME NEW o, o.nsyms \in Nat, o.sysv.nbuckets \in Nat \ {0}, o.sysv.nchain = o.nsyms,
         SysvBuckets(o) \in [0 .. o.nsyms - 1 -> 0 .. o.sysv.nbuckets - 1],
         \A b \in 0 .. o.sysv.nbuckets - 1 :
           o.sysv.buckets[b] = GreatestOr0({i \in 0 .. o.nsyms - 1 : SysvBuckets(o)[i] = b}),
         \A i \in 0 .. o.nsyms - 1 :
           o.sysv.chain[i] = GreatestOr0({j \in 0 .. o.nsyms - 1 :
                                            j < i /\ SysvBuckets(o)[j] = SysvBuckets(o)[i]}),
         NEW i \in 1 .. o.nsyms - 1
  PROVE  i \in SysvVisits(o, SysvHash[o.dynsym[i].name])
<1> DEFINE n == o.sysv.nchain
           B == SysvBuckets(o)
           h == SysvHash[o.dynsym[i].name]
           b == h % o.sysv.nbuckets
           first == o.sysv.buckets[b]
           next == o.sysv.chain
           at == Walk(n, first, next)
           After(k) == i < at[k] /\ at[k] <= n - 1 - k /\ B[at[k]] = b
<1>1. SysvVisits(o, h) = {at[k] : k \in 0 .. n} \ {0}
  BY DEF SysvVisits, Walk
<1>2. /\ at[0] = first
      /\ \A k \in 0 .. n - 1 : at[k + 1] = IF at[k] = 0 THEN 0 ELSE next[at[k]]
  <2>1. n \in Nat
    OBVIOUS
  <2> HIDE DEF n, first, next
  <2> QED
    BY <2>1, WalkExists
<1>3. B[i] = b /\ b \in 0 .. o.sysv.nbuckets - 1
  <2>1. i \in 0 .. n - 1
    OBVIOUS
  <2>2. B[i] \in 0 .. o.sysv.nbuckets - 1
    BY <2>1
  <2> QED
    BY <2>1, <2>2 DEF SysvBuckets
<1> HIDE DEF at, b
<1>4. SUFFICES ASSUME \A k \in 0 .. n : at[k] # i PROVE FALSE
  <2> HIDE DEF h
  <2> QED
    BY <1>1 DEF h
<1>5. at[0] \in 0 .. n - 1 /\ After(0)
  <2> DEFINE S == {j \in 0 .. n - 1 : B[j] = b}
  <2>1. S \in SUBSET (0 .. n - 1) /\ i \in S
    BY <1>3
  <2>2. first = GreatestOr0(S)
    BY <1>3
  <2>3. GreatestOr0(S) \in S /\ GreatestOr0(S) >= i
    BY <2>1, GreatestIsGreatest
  <2> HIDE DEF S, first
  <2>4. first \in S /\ first >= i /\ first # i
    BY <1>2, <1>4, <2>2, <2>3
  <2> QED
    BY <1>2, <2>4 DEF S
<1>6. ASSUME NEW k \in 0 .. n - 1, at[k] \in 0 .. n - 1, After(k)
      PROVE  at[k + 1] \in 0 .. n - 1 /\ After(k + 1)
  <2> DEFINE S == {j \in 0 .. n - 1 : j < at[k] /\ B[j] = B[at[k]]}
  <2>1. S \in SUBSET (0 .. n - 1) /\ i \in S
    BY <1>3, <1>6
  <2>2. at[k + 1] = GreatestOr0(S)
    <3>1. at[k] # 0 /\ at[k + 1] = next[at[k]]
      BY <1>2, <1>6
    <3> QED
      BY <1>6, <3>1
  <2>3. GreatestOr0(S) \in S /\ GreatestOr0(S) >= i
    BY <2>1, GreatestIsGreatest
  <2>4. k + 1 \in 0 .. n
    OBVIOUS
  <2>5. at[k + 1] \in S /\ at[k + 1] > i
    BY <1>4, <2>2, <2>3, <2>4
  <2> QED
    BY <1>6, <2>5
<1>7. \A k \in 0 .. n : at[k] \in 0 .. n - 1 /\ After(k)
  <2> DEFINE P == {k \in 0 .. n : at[k] \in 0 .. n - 1 /\ After(k)}
  <2>1. n \in Nat /\ 0 \in P /\ \A k \in 0 .. n - 1 : k \in P => k + 1 \in P
    BY <1>5, <1>6
  <2>2. \A k \in 0 .. n : k \in P
    <3> HIDE DEF P, n
    <3> QED
      BY <2>1, InductionUpTo
  <2> QED
    BY <2>2
<1>8. n \in 0 .. n /\ n \in Nat
  OBVIOUS
<1> QED
  BY <1>7, <1>8

(* .hash with a word for every symbol.                                     *)
SysvSized(o) ==
  /\ DOMAIN o.sysv = {"present", "nbuckets", "nchain", "buckets", "chain"}
  /\ o.sysv.nbuckets \in Nat \ {0} /\ DOMAIN o.sysv.buckets = 0 .. o.sysv.nbuckets - 1
  /\ o.sysv.nchain = o.nsyms /\ DOMAIN o.sysv.chain = 0 .. o.nsyms - 1

(* rebuild_sysv_hash, when every symbol is where the order put it.         *)
LEMMA RebuiltSysv ==
  ASSUME NEW o, NEW before, NEW order,
         DOMAIN o = {"nsyms", "dynsym", "versions", "relocs", "foreign", "gnu", "sysv"},
         o.nsyms \in Nat, o.sysv.present, SysvSized(o),
         \A i \in 0 .. o.nsyms - 1 :
           /\ o.dynsym[i] = before.dynsym[OldIndex(before, order, i)]
           /\ SysvHash[o.dynsym[i].name] \in Nat
  PROVE  LET r == RebuildSysv(o, before, order)
         IN /\ SysvSized(r)
            /\ \A i \in 1 .. o.nsyms - 1 : i \in SysvVisits(r, SysvHash[r.dynsym[i].name])
<1> DEFINE r == RebuildSysv(o, before, order)
           n == o.nsyms
           nb == o.sysv.nbuckets
           B == SysvBuckets(o)
           Low(i) == {j \in 0 .. n - 1 : j < i /\ B[j] = B[i]}
           Whole(b) == {i \in 0 .. n - 1 : B[i] = b}
           bucket == [i \in 0 .. o.sysv.nchain - 1 |->
                        SysvBucket(o, before, order, o.nsyms - o.sysv.nchain + i)]
<1>1. n \in Nat /\ nb \in Nat \ {0} /\ o.sysv.nchain = n
  BY DEF SysvSized
<1>2. bucket = B
  <2>1. ASSUME NEW i \in 0 .. n - 1
        PROVE  SysvBucket(o, before, order, o.nsyms - o.sysv.nchain + i)
                 = SysvHash[o.dynsym[i].name] % nb
    <3>1. o.nsyms - o.sysv.nchain + i = i
      BY <1>1
    <3> QED
      BY <3>1 DEF SysvBucket
  <2> QED
    BY <1>1, <2>1 DEF SysvBuckets
<1>3. B \in [0 .. n - 1 -> 0 .. nb - 1] /\ DOMAIN B = 0 .. n - 1
  <2>1. ASSUME NEW i \in 0 .. n - 1 PROVE SysvHash[o.dynsym[i].name] % nb \in 0 .. nb - 1
    BY <1>1, ModNat
  <2> QED
    BY <2>1 DEF SysvBuckets
<1>4. r = [o EXCEPT
             !.sysv.buckets = [b \in DOMAIN @ |-> GreatestOr0({i \in DOMAIN bucket : bucket[i] = b})],
             !.sysv.chain = [i \in DOMAIN @ |->
                GreatestOr0({j \in DOMAIN bucket : j < i /\ bucket[j] = bucket[i]})]]
  BY <1>1 DEF RebuildSysv
<1> HIDE DEF bucket, B, r
<1>5. /\ r.sysv.buckets = [b \in 0 .. nb - 1 |-> GreatestOr0(Whole(b))]
      /\ r.sysv.chain = [i \in 0 .. n - 1 |-> GreatestOr0(Low(i))]
      /\ r.dynsym = o.dynsym /\ r.nsyms = n /\ r.sysv.nbuckets = nb /\ r.sysv.nchain = n
      /\ DOMAIN r.sysv = DOMAIN o.sysv
  <2>1. r = [o EXCEPT
               !.sysv.buckets = [b \in DOMAIN @ |-> GreatestOr0(Whole(b))],
               !.sysv.chain = [i \in DOMAIN @ |-> GreatestOr0(Low(i))]]
    BY <1>2, <1>3, <1>4
  <2> HIDE DEF Whole, Low
  <2> DEFINE q == [o.sysv EXCEPT
                     !.buckets = [b \in DOMAIN @ |-> GreatestOr0(Whole(b))],
                     !.chain = [i \in DOMAIN @ |-> GreatestOr0(Low(i))]]
  <2>2. r.sysv = q /\ r.dynsym = o.dynsym /\ r.nsyms = n
    BY <2>1
  <2>3. /\ q.buckets = [b \in 0 .. nb - 1 |-> GreatestOr0(Whole(b))]
        /\ q.chain = [i \in 0 .. n - 1 |-> GreatestOr0(Low(i))]
        /\ q.nbuckets = nb /\ q.nchain = o.sysv.nchain /\ DOMAIN q = DOMAIN o.sysv
    BY DEF SysvSized
  <2> QED
    BY <1>1, <2>2, <2>3
<1>6. SysvSized(r)
  BY <1>5 DEF SysvSized
<1>7. SysvBuckets(r) = B
  BY <1>5 DEF SysvBuckets, B
<1>8. ASSUME NEW i \in 1 .. n - 1
      PROVE  i \in SysvVisits(r, SysvHash[r.dynsym[i].name])
  <2>1. /\ SysvBuckets(r) \in [0 .. r.nsyms - 1 -> 0 .. r.sysv.nbuckets - 1]
        /\ \A b \in 0 .. r.sysv.nbuckets - 1 :
             r.sysv.buckets[b] = GreatestOr0({k \in 0 .. r.nsyms - 1 : SysvBuckets(r)[k] = b})
        /\ \A k \in 0 .. r.nsyms - 1 :
             r.sysv.chain[k] = GreatestOr0({j \in 0 .. r.nsyms - 1 :
                                  j < k /\ SysvBuckets(r)[j] = SysvBuckets(r)[k]})
    <3>1. \A b \in 0 .. nb - 1 : r.sysv.buckets[b] = GreatestOr0(Whole(b))
      BY <1>5
    <3>2. \A k \in 0 .. n - 1 : r.sysv.chain[k] = GreatestOr0(Low(k))
      BY <1>5
    <3>3. r.nsyms = n /\ r.sysv.nbuckets = nb
      BY <1>5
    <3> HIDE DEF n, nb
    <3> QED
      BY <1>3, <1>7, <3>1, <3>2, <3>3
  <2>2. r.nsyms \in Nat /\ r.sysv.nbuckets \in Nat \ {0} /\ r.sysv.nchain = r.nsyms
        /\ i \in 1 .. r.nsyms - 1
    BY <1>1, <1>5
  <2> QED
    BY <2>1, <2>2, WalkVisits
<1> QED
  BY <1>6, <1>8 DEF r

(* rebuild_gnu_hash leaves .hash alone and puts each symbol where the      *)
(* order says.                                                             *)
LEMMA GnuKeepsSysv ==
  ASSUME NEW o, WellFormed(o)
  PROVE  LET g == RebuildGnu(o, GnuOrder(o))
             n == o.nsyms
         IN /\ DOMAIN g = {"nsyms", "dynsym", "versions", "relocs", "foreign", "gnu", "sysv"}
            /\ g.nsyms = n /\ g.sysv = o.sysv
            /\ \A i \in 0 .. n - 1 : g.dynsym[i] = o.dynsym[OldIndex(o, GnuOrder(o), i)]
            /\ DOMAIN g.dynsym = 0 .. n - 1
<1> DEFINE order == GnuOrder(o)
           g == RebuildGnu(o, order)
           n == o.nsyms
<1>0. DOMAIN o = {"nsyms", "dynsym", "versions", "relocs", "foreign", "gnu", "sysv"}
      /\ GnuTable(o.gnu) /\ DOMAIN o.dynsym = 0 .. n - 1
  BY DEF WellFormed
<1>1. CASE HasGnu(o)
  <2> DEFINE q == Reordered(o, order)
  <2>1. /\ DOMAIN q = DOMAIN o
        /\ q.dynsym = ReorderRecords(o.dynsym, o.gnu.symndx, order)
        /\ q.nsyms = o.nsyms /\ q.gnu = o.gnu /\ q.sysv = o.sysv
    BY ReorderedTables
  <2>2. g = Refilled(q)
    BY <1>1 DEF RebuildGnu
  <2> HIDE DEF q, g
  <2>3. DOMAIN g = DOMAIN q /\ g.dynsym = q.dynsym /\ g.nsyms = q.nsyms /\ g.sysv = q.sysv
    BY <1>0, <2>1, <2>2, RefilledTables
  <2>4. ASSUME NEW i \in 0 .. n - 1
        PROVE  ReorderRecords(o.dynsym, o.gnu.symndx, order)[i] = o.dynsym[OldIndex(o, order, i)]
    <3>1. o.gnu.symndx \in Nat
      BY <1>0 DEF GnuTable
    <3> QED
      BY <1>0, <1>1, <3>1 DEF ReorderRecords, OldIndex
  <2>5. DOMAIN ReorderRecords(o.dynsym, o.gnu.symndx, order) = 0 .. n - 1
    BY <1>0 DEF ReorderRecords
  <2> QED
    BY <1>0, <2>1, <2>3, <2>4, <2>5 DEF g
<1>2. CASE ~HasGnu(o)
  BY <1>0, <1>2 DEF RebuildGnu, OldIndex
<1> QED
  BY <1>1, <1>2

LEMMA ResultSysv ==
  ASSUME NEW o, WellFormed(o), o.sysv.present, SysvSized(o)
  PROVE  LET r == Result(o)
         IN /\ r.sysv.present /\ SysvSized(r)
            /\ \A i \in 1 .. o.nsyms - 1 : i \in SysvVisits(r, SysvHash[r.dynsym[i].name])
<1> DEFINE order == GnuOrder(o)
           g == RebuildGnu(o, order)
           n == o.nsyms
<1>1. Result(o) = RebuildSysv(g, o, order)
  BY DEF Result, Rebuild
<1>2. /\ DOMAIN g = {"nsyms", "dynsym", "versions", "relocs", "foreign", "gnu", "sysv"}
      /\ g.nsyms = n /\ g.sysv = o.sysv
      /\ \A i \in 0 .. n - 1 : g.dynsym[i] = o.dynsym[OldIndex(o, order, i)]
      /\ DOMAIN g.dynsym = 0 .. n - 1
  BY GnuKeepsSysv
<1> HIDE DEF g
<1>3. ASSUME NEW i \in 0 .. n - 1 PROVE SysvHash[g.dynsym[i].name] \in Nat
  <2>1. g.dynsym[i] \in Symbol
    <3>1. g.dynsym = o.dynsym \/ HasGnu(o)
      BY DEF RebuildGnu, g
    <3>2. ASSUME HasGnu(o) PROVE \E k \in 0 .. n - 1 : g.dynsym[i] = o.dynsym[k]
      <4>1. g.dynsym = ReorderRecords(o.dynsym, o.gnu.symndx, Order(Buckets(o)))
        <5>1. Result(o).dynsym = ReorderRecords(o.dynsym, o.gnu.symndx, Order(Buckets(o)))
          BY <3>2, ResultGrouped
        <5>2. Result(o).dynsym = g.dynsym
          BY <1>1, <1>2, SysvTables DEF SysvSized
        <5> QED
          BY <5>1, <5>2
      <4>2. \E k \in 0 .. n - 1 :
              ReorderRecords(o.dynsym, o.gnu.symndx, Order(Buckets(o)))[i] = o.dynsym[k]
        BY <3>2, MovedFrom
      <4> QED
        BY <4>1, <4>2
    <3> QED
      BY <3>1, <3>2 DEF WellFormed
  <2>2. g.dynsym[i].name \in Names
    BY <2>1 DEF Symbol
  <2> QED
    BY <2>2, SymbolRenameAssumption
<1>4. n \in Nat /\ g.sysv.present /\ SysvSized(g)
  BY <1>2 DEF WellFormed, SysvSized
<1> DEFINE r == RebuildSysv(g, o, order)
<1>5. /\ SysvSized(r)
      /\ \A i \in 1 .. n - 1 : i \in SysvVisits(r, SysvHash[r.dynsym[i].name])
  BY <1>2, <1>3, <1>4, RebuiltSysv
<1>6. r.sysv.present
  BY <1>2, <1>4 DEF RebuildSysv, SysvSized
<1> QED
  BY <1>1, <1>5, <1>6

(* The tables a lookup walks are the same, and so is what it comes by.     *)
LEMMA SysvSame ==
  ASSUME NEW o, NEW r, r.sysv = o.sysv, r.dynsym = o.dynsym, r.nsyms = o.nsyms, SysvIndexed(o)
  PROVE  SysvIndexed(r)
<1>1. ASSUME NEW h PROVE SysvVisits(r, h) = SysvVisits(o, h)
  <2> DEFINE at(x) == Walk(x.nchain, x.buckets[h % x.nbuckets], x.chain)
             seen(x) == {at(x)[k] : k \in 0 .. x.nchain} \ {0}
  <2>1. SysvVisits(r, h) = seen(r.sysv) /\ SysvVisits(o, h) = seen(o.sysv)
    BY DEF SysvVisits, Walk
  <2> HIDE DEF seen
  <2> QED
    BY <2>1
<1> QED
  BY <1>1 DEF SysvIndexed, Indices

(* No lookup comes by symbol 0, so it defines nothing.                     *)
LEMMA ZeroUndefined ==
  ASSUME NEW o, SysvIndexed(o), o.sysv.present, 0 \in Indices(o)
  PROVE  ~o.dynsym[0].def
<1>1. ASSUME NEW h PROVE 0 \notin SysvVisits(o, h)
  <2> DEFINE at == Walk(o.sysv.nchain, o.sysv.buckets[h % o.sysv.nbuckets], o.sysv.chain)
  <2>1. SysvVisits(o, h) = {at[k] : k \in 0 .. o.sysv.nchain} \ {0}
    BY DEF SysvVisits, Walk
  <2> HIDE DEF at
  <2> QED
    BY <2>1
<1> QED
  BY <1>1 DEF SysvIndexed

LEMMA StepSysvIndexed ==
  ASSUME WellFormed(obj), SysvIndexed(obj), [Next]_vars
  PROVE  SysvIndexed(obj')
<1>1. ASSUME NEW map \in Maps, Rename(map), Hits(map) # {}
      PROVE  SysvIndexed(obj')
  <2> DEFINE o == Renamed(obj, map)
             r == Result(o)
             n == obj.nsyms
  <2>1. ~Panics(obj) /\ obj' = r
    BY <1>1 DEF Rename
  <2>2. /\ WellFormed(o) /\ o.nsyms = n /\ o.gnu = obj.gnu /\ o.sysv = obj.sysv
        /\ DOMAIN o.dynsym = DOMAIN obj.dynsym
        /\ \A i \in DOMAIN obj.dynsym : o.dynsym[i] = RenameSymbol(map, obj.dynsym[i])
    BY RenamedTables
  <2>3. n \in Nat /\ DOMAIN obj.dynsym = 0 .. n - 1
    BY DEF WellFormed
  <2> HIDE DEF o, r, n
  <2>4. r.nsyms = n /\ (0 \in 0 .. n - 1 => r.dynsym[0] = o.dynsym[0])
        /\ DOMAIN r.dynsym = 0 .. n - 1
    <3>1. CASE HasGnu(o)
      <4>1. r.nsyms = n /\ r.dynsym = ReorderRecords(o.dynsym, o.gnu.symndx, Order(Buckets(o)))
        BY <2>2, <3>1, ResultGrouped DEF r
      <4>2. o.gnu.symndx > 0
        BY <2>2, <3>1 DEF WellFormed, GnuTable, HasGnu
      <4> QED
        BY <2>2, <2>3, <4>1, <4>2 DEF ReorderRecords
    <3>2. CASE ~HasGnu(o)
      BY <2>2, <2>3, <3>2, ResultPlain DEF r
    <3> QED
      BY <3>1, <3>2
  <2>5. SUFFICES ASSUME r.sysv.present PROVE SysvIndexed(r)
    BY <2>1 DEF SysvIndexed
  <2>6. o.sysv.present
    <3>1. CASE ~o.sysv.present
      <4>1. r = RebuildGnu(o, GnuOrder(o))
        <5>1. RebuildGnu(o, GnuOrder(o)).sysv = o.sysv
          BY <2>2, GnuKeepsSysv
        <5> QED
          BY <3>1, <5>1 DEF r, Result, Rebuild, RebuildSysv
      <4> QED
        BY <2>2, <2>5, <3>1, <4>1, GnuKeepsSysv
    <3> QED
      BY <3>1
  <2>7. SysvSized(o) /\ obj.sysv.present
    BY <2>2, <2>6 DEF SysvIndexed, SysvSized, n
  <2>8. /\ SysvSized(r)
        /\ \A i \in 1 .. n - 1 : i \in SysvVisits(r, SysvHash[r.dynsym[i].name])
    BY <2>2, <2>6, <2>7, ResultSysv DEF r
  <2>9. ASSUME NEW i \in Indices(r), r.dynsym[i].def PROVE i \in 1 .. n - 1
    <3>1. i \in 0 .. n - 1
      BY <2>4 DEF Indices
    <3>2. i # 0
      <4>1. SUFFICES ASSUME i = 0 PROVE FALSE
        OBVIOUS
      <4>2. obj.dynsym[0] \in Symbol /\ 0 \in DOMAIN obj.dynsym
        BY <2>3, <3>1, <4>1 DEF WellFormed, n
      <4>3. o.dynsym[0].def = obj.dynsym[0].def
        BY <2>2, <4>2 DEF RenameSymbol, Symbol
      <4>4. ~obj.dynsym[0].def
        BY <2>7, <4>2, ZeroUndefined DEF Indices
      <4> QED
        BY <2>4, <2>9, <3>1, <4>1, <4>3, <4>4
    <3> QED
      BY <2>3, <3>1, <3>2
  <2> QED
    BY <2>4, <2>8, <2>9 DEF SysvIndexed, SysvSized
<1>2. ASSUME NEW map \in Maps, Rename(map), Hits(map) = {}
      PROVE  SysvIndexed(obj')
  BY <1>2 DEF Rename
<1>3. ASSUME NEW map \in Maps, RenamePanics(map)
      PROVE  SysvIndexed(obj')
  BY <1>3 DEF RenamePanics
<1>4. ASSUME NEW name \in Cleared, ClearVersion(name)
      PROVE  SysvIndexed(obj')
  <2>1. obj'.sysv = obj.sysv /\ obj'.dynsym = obj.dynsym /\ obj'.nsyms = obj.nsyms
    BY <1>4 DEF ClearVersion, WellFormed
  <2> QED
    BY <2>1, SysvSame
<1>5. CASE UNCHANGED vars
  BY <1>5 DEF vars
<1> QED
  BY <1>1, <1>2, <1>3, <1>4, <1>5 DEF Next

(* The same through .hash: however often symbols are renamed, the walk     *)
(* from a name's bucket finds exactly its definitions, in whatever order   *)
(* .gnu.hash put the symbols (rebuild_sysv_hash, Reorder).                 *)
THEOREM SysvLookupFinds == Spec => []SysvFinds
<1>1. Init => SysvIndexed(obj)
  BY LinkerAssumption DEF Init
<1>2. TypeOK /\ SysvIndexed(obj) /\ [Next]_vars => SysvIndexed(obj)'
  BY StepSysvIndexed DEF TypeOK
<1>3. SysvIndexed(obj) => SysvFinds
  <2> SUFFICES ASSUME SysvIndexed(obj), obj.sysv.present, NEW name \in Names,
                      NEW version \in Versions
               PROVE  SysvFound(obj, name, version) = Definers(obj, name, version)
    BY DEF SysvFinds
  <2>1. ASSUME NEW i \in Definers(obj, name, version)
        PROVE  i \in SysvVisits(obj, SysvHash[name])
    BY DEF Definers, Defines, SysvIndexed
  <2> QED
    BY <2>1 DEF SysvFound
<1> QED
  BY <1>1, <1>2, <1>3, TablesTypeCorrect, PTL DEF Spec
=============================================================================
