------------------------------ MODULE MapHash -------------------------------
(***************************************************************************)
(* MAP!: a list of pairs in the order they were added, and a hash table of *)
(* indexes into it with open addressing.                                   *)
(*                                                                         *)
(* Removing a key makes its value null and leaves the pair behind as a     *)
(* "zombie", so that searches that pass it still work.  A search that ends *)
(* without a match after passing a zombie gives it its own key.  When the  *)
(* table gets crowded it grows to the next prime and is computed again,    *)
(* and the zombies go.                                                     *)
(***************************************************************************)
EXTENDS Naturals, Sequences, FiniteSets, FiniteSetsExt

CONSTANTS
    Keys,        \* the keys: values that differ in some way
    Same,        \* <<l, k>> if Cmp_Value finds l equal to k, cased
    Alike,       \* <<l, k>> if it does when case does not matter
    Hash,        \* Hash[k]: Hash_Value of the key
    Values,
    Null,        \* the value of a zombie
    PrimeSizes   \* the sizes of hash tables

\* No product of smaller numbers is a multiple of p.
IsPrime(p) == \A a, b \in 1..(p - 1) : (a * b) % p # 0

ASSUME MapHashAssumption ==
    /\ Same \subseteq Keys \X Keys
    /\ Alike \subseteq Keys \X Keys
    /\ Hash \in [Keys -> Nat]
    /\ Null \notin Values
    /\ PrimeSizes \subseteq Nat
    /\ PrimeSizes # {}
    /\ \A p \in PrimeSizes : p >= 7 /\ IsPrime(p)
    /\ \A p, q \in PrimeSizes : p < q => p + 4 <= q

VARIABLES
    m,       \* the map: pairs and hash table
    making,  \* is it still being made from a block?
    op       \* the last operation: its key, and whether it was cased

vars == <<m, making, op>>

NoOp == <<Null, FALSE>>

Pair == [key : Keys, val : Values \union {Null}, frozen : BOOLEAN]

TypeOK ==
    /\ m.pairs \in Seq(Pair)
    /\ m.len \in PrimeSizes
    /\ m.hashes \in [0..(m.len - 1) -> 0..Len(m.pairs)]
    /\ making \in BOOLEAN
    /\ op \in (Keys \X BOOLEAN) \union {NoOp}

Empty(n) == [i \in 0..(n - 1) |-> 0]

\* Make_Map.
Init ==
    /\ m = [pairs |-> << >>, len |-> Min(PrimeSizes),
            hashes |-> Empty(Min(PrimeSizes))]
    /\ making \in BOOLEAN
    /\ op = NoOp

----------------------------------------------------------------------------
(* Searching.                                                              *)

\* The i-th slot that is tried for a key.
Probe(t, k, i) ==
    ((Hash[k] % t.len) + i * ((Hash[k] % (t.len - 1)) + 1)) % t.len

\* How many used slots are passed before a free one.
Chain(t, k) ==
    CHOOSE i \in 0..(t.len - 1) :
        /\ t.hashes[Probe(t, k, i)] = 0
        /\ \A j \in 0..(i - 1) : t.hashes[Probe(t, k, j)] # 0

\* The pair of the i-th slot.
PairAt(t, k, i) == t.pairs[t.hashes[Probe(t, k, i)]]

Passed(t, k) == 0..(Chain(t, k) - 1)

\* The key l of a pair is taken for k.  Cmp_Value finds INTEGER! 1 and
\* DECIMAL! 1.0 equal, and blocks that are from their index on, and none of
\* this need be symmetric or transitive.
Equal(l, k, cased) ==
    <<l, k>> \in Same \/ (~cased /\ <<l, k>> \in Alike)

Matches(t, k, cased) ==
    {i \in Passed(t, k) : Equal(PairAt(t, k, i).key, k, cased)}

Zombies(t, k) == {i \in Passed(t, k) : PairAt(t, k, i).val = Null}

\* Case does not matter and two slots match, those of removed keys included.
Conflicting(t, k, cased) ==
    ~cased /\ Cardinality(Matches(t, k, cased)) > 1

\* Faulty: the first zombie is taken as it is.
Renamed_Not(t, k, n, frozen) == t

\* A zombie gets the key that was not found.
Renamed(t, k, n, frozen) ==
    [t EXCEPT !.pairs[n] = [key |-> k, val |-> Null, frozen |-> frozen]]

\* The slot that matches; or that of the first zombie, renamed; or the free
\* one that ends the chain.
Find_Key_Hashed(t, k, cased, frozen) ==
    LET slot(i) == Probe(t, k, i)
        matches == Matches(t, k, cased)
        zombies == Zombies(t, k)
    IN  IF matches # {} THEN [map |-> t, slot |-> slot(Min(matches))]
        ELSE IF zombies # {}
           THEN LET s == slot(Min(zombies))
                IN  [map |-> Renamed(t, k, t.hashes[s], frozen), slot |-> s]
        ELSE [map |-> t, slot |-> slot(Chain(t, k))]

----------------------------------------------------------------------------
(* Growing.                                                                *)

IsZombie(t, n) == t.pairs[n].val = Null

\* Trailing zombies go.  (The code reads in front of the list if all pairs
\* are zombies.)
Trimmed(t) ==
    LET live == {n \in 1..Len(t.pairs) : ~IsZombie(t, n)}
    IN  [t EXCEPT !.pairs = SubSeq(@, 1, Max(live \union {0}))]

\* Faulty: the last pair is copied over the zombie and kept as well.
Refill_Kept(t, n) == [t EXCEPT !.pairs[n] = t.pairs[Len(t.pairs)]]

\* The last pair takes the place of a zombie.
Refill(t, n) ==
    LET last == Len(t.pairs)
    IN  [t EXCEPT !.pairs = [i \in 1..(last - 1) |->
                                IF i = n THEN t.pairs[last] ELSE t.pairs[i]]]

\* One turn of the loop: the n-th pair, if there still is one, gets its slot.
Rehash_Pair(t, n) ==
    LET full == IF IsZombie(t, n) THEN Refill(t, n) ELSE t
        found == Find_Key_Hashed(full, full.pairs[n].key, TRUE,
                                 full.pairs[n].frozen)
    IN  IF n > Len(t.pairs) THEN t
        ELSE Trimmed([found.map EXCEPT !.hashes[found.slot] = n])

Rehash_Map(t) ==
    LET turn[n \in 0..Len(t.pairs)] ==
           IF n = 0 THEN t ELSE Rehash_Pair(turn[n - 1], n)
    IN  turn[Len(t.pairs)]

Larger(t) == {p \in PrimeSizes : p > t.len}

Expand_Hash(t) ==
    LET prime == Min(Larger(t))
    IN  [t EXCEPT !.len = prime, !.hashes = Empty(prime)]

\* More cells (two a pair) than half of the slots.
Crowded(t) == 2 * Len(t.pairs) > t.len \div 2

\* Faulty: a search for something that is not added does not grow the table.
Grown_Adding(t, v) ==
    IF Crowded(t) /\ v \in Values THEN Rehash_Map(Expand_Hash(t)) ELSE t

\* Find_Map_Entry grows the table before every search, whatever it is for.
Grown(t, v) == IF Crowded(t) THEN Rehash_Map(Expand_Hash(t)) ELSE t

\* Past the end of the list of primes every access fails, and changes nothing.
MayGrow(t) == Crowded(t) => Larger(t) # {}

----------------------------------------------------------------------------
(* The operations of the datatype.                                         *)

\* SELECT, FIND and a path that is read: looking up a missing key can rename
\* a zombie to it, and nothing freezes the key then.
Get(k, cased, frozen) ==
    /\ ~making
    /\ MayGrow(m)
    /\ LET t == Grown(m, Null)
       IN  m' = IF Conflicting(t, k, cased) THEN t
                ELSE Find_Key_Hashed(t, k, cased, frozen).map
    /\ op' = NoOp
    /\ UNCHANGED making

\* Find_Map_Entry with a value: the key given is frozen; a pair that is there
\* keeps the key it has and gets the value; or a pair is added.
Set(t, k, v, cased) ==
    LET found == Find_Key_Hashed(t, k, cased, TRUE)
        n == found.map.hashes[found.slot]
    IN  IF n # 0 THEN [found.map EXCEPT !.pairs[n].val = v]
        ELSE IF v = Null THEN found.map
        ELSE [t EXCEPT !.pairs = Append(@, [key |-> k, val |-> v,
                                            frozen |-> TRUE]),
                       !.hashes[found.slot] = Len(t.pairs) + 1]

\* PUT, a path that is set, and for each of its pairs APPEND; null removes.
Put(k, v, cased) ==
    /\ ~making
    /\ MayGrow(m)
    /\ LET t == Grown(m, v)
       IN  m' = IF Conflicting(t, k, cased) THEN t ELSE Set(t, k, v, cased)
    /\ op' = <<k, cased>>
    /\ UNCHANGED making

\* TO MAP! of a block: its pairs are appended, and all are hashed again.
Append_Map(k, v) ==
    /\ making
    /\ MayGrow(m)
    /\ m' = Set(Grown(m, v), k, v, TRUE)
    /\ op' = <<k, TRUE>>
    /\ UNCHANGED making

TO_Map ==
    /\ making
    /\ making' = FALSE
    /\ m' = Rehash_Map(m)
    /\ op' = NoOp

\* CLEAR keeps the size of the table.
Clear ==
    /\ ~making
    /\ m' = [m EXCEPT !.pairs = << >>, !.hashes = Empty(m.len)]
    /\ op' = NoOp
    /\ UNCHANGED making

Next ==
    \/ \E k \in Keys, cased, frozen \in BOOLEAN : Get(k, cased, frozen)
    \/ \E k \in Keys, v \in Values \union {Null}, cased \in BOOLEAN :
          Put(k, v, cased)
    \/ \E k \in Keys, v \in Values : Append_Map(k, v)
    \/ TO_Map
    \/ Clear

Spec == Init /\ [][Next]_vars

----------------------------------------------------------------------------
(* Properties.                                                             *)

\* The keys that k equals, or that equal k.
Class(k) == {l \in Keys : Equal(k, l, FALSE) \/ Equal(l, k, FALSE)}

\* The keys for which equality is what a hash table needs: their equals have
\* the same hash, equal each other and nothing else, and if case matters only
\* themselves.  Words and strings of ASCII are of this kind.  INTEGER! 1 and
\* DECIMAL! 1.0 are not, Hash_Value mixes the kind in; nor are words whose
\* casings begin with different bytes, and blocks that are not at their head.
Orderly(k) ==
    /\ k \in Class(k)
    /\ \A l \in Class(k), n \in Keys :
          /\ Hash[l] = Hash[k]
          /\ Equal(l, n, FALSE) <=> n \in Class(k)
          /\ Equal(n, l, FALSE) <=> n \in Class(k)
          /\ Equal(l, n, TRUE) <=> n = l
          /\ Equal(n, l, TRUE) <=> n = l

OrderlyKeys == {k \in Keys : Orderly(k)}
Classes == [k \in OrderlyKeys |-> Class(k)]

\* Through removals, zombies that are renamed and tables that grow, the hash
\* table and the list agree: no orderly key is lost, and a search for one, of
\* zombies too, finds the pair it is in.  The other keys of the map, which may
\* be in it twice, or lose their slot to one they equal, do no harm to it.
KeyFound ==
    /\ TypeOK
    /\ \A n \in 1..Len(m.pairs) : m.pairs[n].key \in OrderlyKeys =>
          LET f == Find_Key_Hashed(m, m.pairs[n].key, TRUE, TRUE)
          IN  f.map = m /\ m.hashes[f.slot] = n

\* When the table has to grow the last pair is not a zombie.  Rehash_Map
\* rests on this: it moves the last pair over the first zombie, and drops
\* trailing zombies without a look at where the list begins.
RehashHasLive == Crowded(m) => ~IsZombie(m, Len(m.pairs))

Live == {n \in 1..Len(m.pairs) : ~IsZombie(m, n)}

\* The keys that have a value are immutable: if one were changed, nothing
\* would make the map hash it again.
KeysFrozen == \A n \in Live : m.pairs[n].frozen

\* The orderly keys and their values.
LiveOrderly == {n \in Live : m.pairs[n].key \in OrderlyKeys}
Contents ==
    [k \in {m.pairs[n].key : n \in LiveOrderly} |->
        m.pairs[CHOOSE n \in LiveOrderly : m.pairs[n].key = k].val]

\* The last operation, if it was about an orderly key.
About == IF op[1] \in OrderlyKeys THEN op ELSE NoOp

Abstract ==
    INSTANCE FiniteMap
    WITH Keys <- OrderlyKeys, Fold <- Classes, map <- Contents, last <- About

\* For its users a MAP! is a finite map of its orderly keys, whatever else is
\* in it: an operation changes at most the one key it is about, one about
\* another kind of key none, looking something up and growing the table change
\* nothing, and a value that was removed does not come back under any key.
ImplementsMap == Abstract!Spec
============================================================================
