--------------------------- MODULE MapHashProofs ---------------------------
(***************************************************************************)
(* Proofs about MapHash: that rehashing never meets a list of zombies, and *)
(* that the orderly keys are always found and are a finite map as          *)
(* FiniteMap says, whatever other keys are in the map and however keys     *)
(* compare and hash, for all table sizes.                                  *)
(***************************************************************************)
EXTENDS MapHash, FiniteSetTheorems, WellFoundedInduction, TLAPS

----------------------------------------------------------------------------
(* Numbers.                                                                *)

\* Whatever holds of some natural number holds of a first one.
LEMMA FirstNumber ==
    ASSUME NEW T, T \subseteq Nat, T # {}
    PROVE  \E x \in T : \A y \in T : x <= y
<1> DEFINE R == OpToRel(<, Nat)
<1>1. IsWellFoundedOn(R, Nat)
  BY NatLessThanWellFounded
<1>2. \A x, y \in Nat : x < y => <<x, y>> \in R
  BY DEF OpToRel
<1> HIDE DEF R
<1>3. PICK x \in T : \A y \in T : ~(<<y, x>> \in R)
  BY <1>1, WFMin
<1>4. \A y \in T : ~(y < x)
  BY <1>2, <1>3
<1>5. \A y \in T : x <= y
  BY <1>4
<1> QED  BY <1>5

\* The least of some numbers.
LEMMA MinIs ==
    ASSUME NEW T, T \subseteq Nat, T # {}
    PROVE  Min(T) \in T /\ \A y \in T : Min(T) <= y
BY FirstNumber DEF Min

\* Numbers that have the same remainder differ by a multiple.
LEMMA SameRemainder ==
    ASSUME NEW p \in Nat \ {0}, NEW a \in Nat, NEW b \in Nat, b <= a,
           a % p = b % p
    PROVE  (a - b) % p = 0
<1>1. \A x \in Nat : x \div p \in Int /\ x = p * (x \div p) + (x % p)
  OBVIOUS
<1> DEFINE q == a \div p
           r == b \div p
<1>2. /\ q \in Int /\ r \in Int
      /\ a = p * q + (a % p) /\ b = p * r + (b % p)
  BY <1>1
<1> HIDE DEF q, r
<1>3. a - b = p * (q - r)
  BY <1>2
<1>4. \A z \in Int : (p * z) % p = 0
  OBVIOUS
<1>5. (p * (q - r)) % p = 0
  <2>1. q - r \in Int
    BY <1>2
  <2> QED  BY <1>4, <2>1
<1> QED  BY <1>3, <1>5

----------------------------------------------------------------------------
(* Tables.                                                                 *)

\* The table of the pairs P with the slots H, of which there are L.
Tab(P, L, H) == [pairs |-> P, len |-> L, hashes |-> H]

\* The i-th slot tried for k among L slots.
SlotOf(L, k, i) == ((Hash[k] % L) + i * ((Hash[k] % (L - 1)) + 1)) % L

\* The sizes of tables.
LEMMA SizeIs ==
    ASSUME NEW L \in PrimeSizes
    PROVE  L \in Nat \ {0} /\ L >= 7 /\ L \in Nat
BY MapHashAssumption

\* Probing stays within the table and comes to every slot.
LEMMA ProbeIs ==
    ASSUME NEW L \in PrimeSizes, NEW k \in Keys
    PROVE  /\ \A i \in Nat : SlotOf(L, k, i) \in 0..(L - 1)
           /\ \A i, j \in 0..(L - 1) :
                 SlotOf(L, k, i) = SlotOf(L, k, j) => i = j
<1>1. L \in Nat \ {0} /\ L >= 7 /\ L - 1 \in Nat \ {0}
  BY SizeIs
<1>2. \A a \in Nat, n \in Nat \ {0} : a % n \in 0..(n - 1)
  OBVIOUS
<1>3. PICK h \in 0..(L - 1) : h = Hash[k] % L
  BY <1>1, <1>2, MapHashAssumption
<1>4. PICK s \in 1..(L - 1) : s = (Hash[k] % (L - 1)) + 1
  BY <1>1, <1>2, MapHashAssumption
<1>5. \A i \in Nat : i * s \in Nat /\ h + i * s \in Nat
  OBVIOUS
<1>6. ASSUME NEW i \in Nat  PROVE SlotOf(L, k, i) \in 0..(L - 1)
  BY <1>1, <1>2, <1>3, <1>4, <1>5 DEF SlotOf
<1>7. ASSUME NEW i \in 0..(L - 1), NEW j \in 0..(L - 1), j < i
      PROVE  SlotOf(L, k, i) # SlotOf(L, k, j)
  <2>1. SUFFICES ASSUME (h + i * s) % L = (h + j * s) % L  PROVE FALSE
    BY <1>3, <1>4 DEF SlotOf
  <2>2. (h + i * s) - (h + j * s) = (i - j) * s
    OBVIOUS
  <2>3. h + j * s <= h + i * s
    <3>1. (i - j) * s \in Nat
      <4>1. i - j \in Nat
        BY <1>7
      <4>2. \A a, b \in Nat : a * b \in Nat
        OBVIOUS
      <4> QED  BY <4>1, <4>2
    <3> QED  BY <2>2, <3>1
  <2>4. ((i - j) * s) % L = 0
    <3>1. PICK a \in Nat : a = h + i * s
      BY <1>5
    <3>2. PICK b \in Nat : b = h + j * s
      BY <1>5
    <3>3. (a - b) % L = 0
      BY <1>1, <2>1, <2>3, <3>1, <3>2, SameRemainder
    <3>4. a - b = (i - j) * s
      BY <2>2, <3>1, <3>2
    <3> QED  BY <3>3, <3>4
  <2>5. i - j \in 1..(L - 1)
    BY <1>1, <1>7
  <2> QED  BY <2>4, <2>5, MapHashAssumption DEF IsPrime
<1>8. ASSUME NEW i \in 0..(L - 1), NEW j \in 0..(L - 1),
             SlotOf(L, k, i) = SlotOf(L, k, j)
      PROVE  i = j
  <2>1. i < j \/ j < i \/ i = j
    OBVIOUS
  <2> QED  BY <1>7, <1>8, <2>1
<1> QED  BY <1>6, <1>8

\* No orderly key is there twice.
Distinct(P) ==
    \A n, o \in 1..Len(P) :
        P[n].key = P[o].key /\ P[n].key \in OrderlyKeys => n = o

\* A search for the key of the n-th pair comes to its slot before it comes to
\* a free one.
Placed(P, L, H, n) ==
    \E i \in 0..(L - 1) :
        /\ H[SlotOf(L, P[n].key, i)] = n
        /\ \A j \in 0..(i - 1) : H[SlotOf(L, P[n].key, j)] # 0

\* The slots that are not free.
Used(L, H) == {s \in 0..(L - 1) : H[s] # 0}

\* The slots are those of the first d of the pairs P, and no more than two
\* for each of them, which leaves some free.  Every orderly key of those
\* pairs has a slot.
Hashed(P, L, H, d) ==
    /\ P \in Seq(Pair)
    /\ L \in PrimeSizes
    /\ d \in 0..Len(P) /\ 2 * d < L
    /\ H \in [0..(L - 1) -> 0..d]
    /\ Distinct(P)
    /\ Cardinality(Used(L, H)) <= 2 * d
    /\ \A n \in 1..d : P[n].key \in OrderlyKeys => Placed(P, L, H, n)

\* The chain of slots for k has c used ones.
Ends(L, H, k, c) ==
    /\ c \in 0..(L - 1)
    /\ H[SlotOf(L, k, c)] = 0
    /\ \A j \in 0..(c - 1) : H[SlotOf(L, k, j)] # 0

\* Fields of a table.
LEMMA TabIs ==
    ASSUME NEW P, NEW L, NEW H
    PROVE  /\ Tab(P, L, H).pairs = P /\ Tab(P, L, H).len = L
           /\ Tab(P, L, H).hashes = H
           /\ \A k, i : Probe(Tab(P, L, H), k, i) = SlotOf(L, k, i)
BY DEF Tab, Probe, SlotOf

\* Pairs and their fields.
LEMMA PairIs ==
    ASSUME NEW P \in Seq(Pair), NEW n \in 1..Len(P)
    PROVE  /\ P[n] \in Pair /\ P[n].key \in Keys
           /\ P[n].val \in Values \union {Null}
<1>1. P[n] \in Pair
  OBVIOUS
<1> QED  BY <1>1 DEF Pair

\* The slots of a table are finitely many.
LEMMA UsedIs ==
    ASSUME NEW L \in PrimeSizes, NEW H
    PROVE  IsFiniteSet(Used(L, H)) /\ Cardinality(Used(L, H)) \in Nat
<1>1. 0 \in Int /\ L - 1 \in Int
  BY SizeIs
<1>2. IsFiniteSet(0..(L - 1))
  BY <1>1, FS_Interval
<1>3. Used(L, H) \subseteq 0..(L - 1)
  BY DEF Used
<1> QED  BY <1>2, <1>3, FS_Subset, FS_CardinalityType

\* A chain ends: some slot is free, and the size is a prime.
LEMMA ChainEnds ==
    ASSUME NEW P, NEW L, NEW H, NEW d, Hashed(P, L, H, d), NEW k \in Keys
    PROVE  \E c : Ends(L, H, k, c)
<1> DEFINE T == {i \in 0..(L - 1) : H[SlotOf(L, k, i)] = 0}
<1>1. /\ L \in PrimeSizes /\ L \in Nat /\ L >= 7
      /\ d \in Nat /\ 2 * d < L /\ Cardinality(Used(L, H)) <= 2 * d
  BY SizeIs DEF Hashed
<1>2. \A i \in 0..(L - 1) : SlotOf(L, k, i) \in 0..(L - 1)
  <2>1. \A i \in 0..(L - 1) : i \in Nat
    BY <1>1
  <2> QED  BY <1>1, <2>1, ProbeIs
<1>3. T # {}
  <2> SUFFICES ASSUME T = {}  PROVE FALSE
    OBVIOUS
  <2> DEFINE A == 0..(L - 1)
             B == Used(L, H)
             g == [i \in A |-> SlotOf(L, k, i)]
  <2>1. \A i \in A : SlotOf(L, k, i) \in B
    BY <1>2 DEF Used
  <2>2. g \in [A -> B]
    BY <2>1
  <2>3. IsFiniteSet(A) /\ Cardinality(A) = L
    <3>1. 0 \in Int /\ L - 1 \in Int
      BY <1>1
    <3>2. /\ IsFiniteSet(0..(L - 1))
          /\ Cardinality(0..(L - 1))
               = IF 0 > L - 1 THEN 0 ELSE (L - 1) - 0 + 1
      BY <3>1, FS_Interval
    <3> QED  BY <1>1, <3>2
  <2>4. IsFiniteSet(B) /\ Cardinality(B) < L
    <3>1. IsFiniteSet(B) /\ Cardinality(B) \in Nat
      BY <1>1, UsedIs
    <3> QED  BY <1>1, <3>1
  <2>5. \A i \in A : g[i] = SlotOf(L, k, i)
    OBVIOUS
  <2>6. PICK i, j \in A : i # j /\ g[i] = g[j]
    <3> HIDE DEF g, A, B
    <3> QED  BY <2>2, <2>3, <2>4, FS_PigeonHole
  <2>7. SlotOf(L, k, i) = SlotOf(L, k, j)
    BY <2>5, <2>6
  <2> QED  BY <1>1, <2>6, <2>7, ProbeIs
<1>4. T \subseteq Nat
  BY <1>1
<1>5. PICK c \in T : \A i \in T : c <= i
  <2> HIDE DEF T
  <2> QED  BY <1>3, <1>4, FirstNumber
<1>6. ASSUME NEW j \in 0..(c - 1)  PROVE H[SlotOf(L, k, j)] # 0
  <2>1. j \in 0..(L - 1) /\ ~(c <= j)
    BY <1>1
  <2> QED  BY <1>5, <2>1
<1> QED  BY <1>6 DEF Ends

\* Chain is where it ends.
LEMMA ChainIs ==
    ASSUME NEW P, NEW L, NEW H, NEW d, Hashed(P, L, H, d), NEW k \in Keys
    PROVE  /\ Ends(L, H, k, Chain(Tab(P, L, H), k))
           /\ Passed(Tab(P, L, H), k) = 0..(Chain(Tab(P, L, H), k) - 1)
<1>1. PICK c : Ends(L, H, k, c)
  BY ChainEnds
<1>2. Chain(Tab(P, L, H), k) = CHOOSE i \in 0..(L - 1) :
         /\ H[SlotOf(L, k, i)] = 0
         /\ \A j \in 0..(i - 1) : H[SlotOf(L, k, j)] # 0
  BY TabIs DEF Chain
<1> QED  BY <1>1, <1>2 DEF Ends, Passed

\* What a search passes are pairs.
LEMMA PassedPair ==
    ASSUME NEW P, NEW L, NEW H, NEW d, Hashed(P, L, H, d), NEW k \in Keys,
           NEW c, Ends(L, H, k, c), NEW i \in 0..(c - 1)
    PROVE  /\ i \in 0..(L - 1) /\ SlotOf(L, k, i) \in 0..(L - 1)
           /\ H[SlotOf(L, k, i)] \in 1..d /\ H[SlotOf(L, k, i)] \in 1..Len(P)
<1>1. /\ L \in PrimeSizes /\ L \in Nat /\ L >= 7 /\ c \in 0..(L - 1)
      /\ d \in Nat /\ d <= Len(P) /\ Len(P) \in Nat
      /\ H \in [0..(L - 1) -> 0..d]
  BY SizeIs DEF Hashed, Ends
<1>2. i \in 0..(L - 1) /\ SlotOf(L, k, i) \in 0..(L - 1)
  <2>1. i \in 0..(L - 1) /\ i \in Nat
    BY <1>1
  <2> QED  BY <1>1, <2>1, ProbeIs
<1>3. H[SlotOf(L, k, i)] # 0
  BY DEF Ends
<1>4. H[SlotOf(L, k, i)] \in 0..d
  BY <1>1, <1>2
<1>5. \A x \in 0..d : x # 0 => x \in 1..d /\ x \in 1..Len(P)
  BY <1>1
<1> QED  BY <1>2, <1>3, <1>4, <1>5

\* A search passes every orderly key that has the same hash.
LEMMA PassesAll ==
    ASSUME NEW P, NEW L, NEW H, NEW d, Hashed(P, L, H, d), NEW k \in Keys,
           NEW c, Ends(L, H, k, c), NEW n \in 1..d,
           P[n].key \in OrderlyKeys,
           Hash[P[n].key] = Hash[k]
    PROVE  \E i \in 0..(c - 1) : H[SlotOf(L, k, i)] = n
<1>1. \A i : SlotOf(L, P[n].key, i) = SlotOf(L, k, i)
  BY DEF SlotOf
<1>2. PICK i \in 0..(L - 1) :
         /\ H[SlotOf(L, k, i)] = n
         /\ \A j \in 0..(i - 1) : H[SlotOf(L, k, j)] # 0
  BY <1>1 DEF Hashed, Placed
<1>3. L \in Nat /\ c \in 0..(L - 1) /\ H[SlotOf(L, k, c)] = 0 /\ n # 0
  BY SizeIs DEF Hashed, Ends
<1>4. ~(c \in 0..(i - 1)) /\ c # i
  BY <1>2, <1>3
<1>5. i \in 0..(c - 1)
  BY <1>3, <1>4
<1> QED  BY <1>2, <1>5

----------------------------------------------------------------------------
(* Searching.                                                              *)

Zombie(k, frozen) == [key |-> k, val |-> Null, frozen |-> frozen]

\* The n-th pair as a zombie of k, and with another value.
Rekeyed(P, n, k, frozen) == [P EXCEPT ![n] = Zombie(k, frozen)]
Valued(P, n, v) == [P EXCEPT ![n].val = v]

\* If k is orderly none of the first d pairs has a key equal to it.
Unmatched(P, d, k, cased) ==
    k \in OrderlyKeys => \A n \in 1..d : ~Equal(P[n].key, k, cased)

\* What Find_Key_Hashed gives when there is a match, when a zombie takes the
\* key, and when it comes to a free slot.
FindsMatch(P, L, H, d, k, cased, f) ==
    \E n \in 1..d :
        /\ Equal(P[n].key, k, cased)
        /\ f.map = Tab(P, L, H)
        /\ f.slot \in 0..(L - 1) /\ H[f.slot] = n

FindsZombie(P, L, H, d, k, frozen, f) ==
    \E i \in 0..(L - 1), n \in 1..d :
        /\ \A j \in 0..(i - 1) : H[SlotOf(L, k, j)] # 0
        /\ f.slot = SlotOf(L, k, i) /\ H[f.slot] = n
        /\ P[n].val = Null
        /\ f.map = Tab(Rekeyed(P, n, k, frozen), L, H)

FindsFree(P, L, H, k, f) ==
    \E i \in 0..(L - 1) :
        /\ \A j \in 0..(i - 1) : H[SlotOf(L, k, j)] # 0
        /\ f.slot = SlotOf(L, k, i) /\ H[f.slot] = 0
        /\ f.map = Tab(P, L, H)

\* What equals an orderly key is one itself, and of the same class.
LEMMA ClassIs ==
    ASSUME NEW k \in OrderlyKeys, NEW l \in Class(k)
    PROVE  l \in OrderlyKeys /\ Class(l) = Class(k) /\ Hash[l] = Hash[k]
<1>1. /\ k \in Keys /\ l \in Keys /\ Class(k) \subseteq Keys
      /\ Hash[l] = Hash[k]
      /\ \A n \in Keys : /\ Equal(l, n, FALSE) <=> n \in Class(k)
                         /\ Equal(n, l, FALSE) <=> n \in Class(k)
  BY DEF OrderlyKeys, Orderly, Class
<1>2. Class(l) = Class(k)
  <2>1. Class(l) = {n \in Keys : n \in Class(k)}
    BY <1>1, Zenon DEF Class
  <2> QED  BY <1>1, <2>1
<1>3. Orderly(l)
  BY <1>1, <1>2 DEF OrderlyKeys, Orderly
<1> QED  BY <1>1, <1>2, <1>3 DEF OrderlyKeys

\* An orderly key equals itself.
LEMMA EqualsItself ==
    ASSUME NEW k \in OrderlyKeys, NEW cased \in BOOLEAN
    PROVE  Equal(k, k, cased)
<1>1. k \in Keys /\ Equal(k, k, TRUE)
  BY DEF OrderlyKeys, Orderly
<1> QED  BY <1>1 DEF Equal

\* An orderly key equals only orderly ones, which have the same hash, and if
\* case matters only itself.
LEMMA EqualOrderly ==
    ASSUME NEW q \in Keys, NEW k \in Keys, NEW cased \in BOOLEAN,
           Equal(q, k, cased), q \in OrderlyKeys \/ k \in OrderlyKeys
    PROVE  /\ q \in OrderlyKeys /\ k \in OrderlyKeys
           /\ Hash[q] = Hash[k] /\ Class(q) = Class(k)
           /\ cased => q = k
<1>1. q \in Class(k) /\ k \in Class(q)
  BY DEF Equal, Class
<1>2. q \in OrderlyKeys /\ k \in OrderlyKeys
  BY <1>1, ClassIs
<1>3. cased => Equal(q, k, TRUE)
  BY DEF Equal
<1>4. Equal(q, k, TRUE) => q = k
  BY <1>2 DEF OrderlyKeys, Orderly
<1> QED  BY <1>1, <1>2, <1>3, <1>4, ClassIs

\* The sets that a search builds.
LEMMA SearchSets ==
    ASSUME NEW P, NEW L, NEW H, NEW d, Hashed(P, L, H, d), NEW k \in Keys,
           NEW cased \in BOOLEAN
    PROVE  LET t == Tab(P, L, H)
           IN  \E c : /\ Ends(L, H, k, c) /\ c = Chain(t, k)
                      /\ Matches(t, k, cased)
                           = {i \in 0..(c - 1) :
                                Equal(P[H[SlotOf(L, k, i)]].key, k, cased)}
                      /\ Zombies(t, k)
                           = {i \in 0..(c - 1) :
                                P[H[SlotOf(L, k, i)]].val = Null}
<1> DEFINE t == Tab(P, L, H)
           c == Chain(t, k)
<1>1. Ends(L, H, k, c) /\ Passed(t, k) = 0..(c - 1)
  BY ChainIs
<1>2. \A i : PairAt(t, k, i) = P[H[SlotOf(L, k, i)]]
  BY TabIs DEF PairAt
<1> HIDE DEF t, c
<1>3. Matches(t, k, cased)
        = {i \in 0..(c - 1) : Equal(P[H[SlotOf(L, k, i)]].key, k, cased)}
  BY <1>1, <1>2 DEF Matches
<1>4. Zombies(t, k) = {i \in 0..(c - 1) : P[H[SlotOf(L, k, i)]].val = Null}
  BY <1>1, <1>2 DEF Zombies
<1> QED  BY <1>1, <1>3, <1>4 DEF t, c

\* The three outcomes of a search.
LEMMA FindIs ==
    ASSUME NEW P, NEW L, NEW H, NEW d, Hashed(P, L, H, d), NEW k \in Keys,
           NEW cased \in BOOLEAN, NEW frozen
    PROVE  LET f == Find_Key_Hashed(Tab(P, L, H), k, cased, frozen)
           IN  \/ FindsMatch(P, L, H, d, k, cased, f)
               \/ /\ Unmatched(P, d, k, cased)
                  /\ \/ FindsZombie(P, L, H, d, k, frozen, f)
                     \/ FindsFree(P, L, H, k, f)
<1> DEFINE t == Tab(P, L, H)
           f == Find_Key_Hashed(t, k, cased, frozen)
           M == Matches(t, k, cased)
           Z == Zombies(t, k)
<1>1. PICK c : /\ Ends(L, H, k, c) /\ c = Chain(t, k)
               /\ M = {i \in 0..(c - 1) :
                         Equal(P[H[SlotOf(L, k, i)]].key, k, cased)}
               /\ Z = {i \in 0..(c - 1) : P[H[SlotOf(L, k, i)]].val = Null}
  BY SearchSets
<1>2. /\ \A i : Probe(t, k, i) = SlotOf(L, k, i)
      /\ t.pairs = P /\ t.len = L /\ t.hashes = H
  BY TabIs
<1>3. c \in 0..(L - 1) /\ L \in Nat /\ L \in PrimeSizes
  BY <1>1, SizeIs DEF Hashed, Ends
<1>4. \A i \in 0..(c - 1) :
         /\ i \in 0..(L - 1) /\ i \in Nat /\ SlotOf(L, k, i) \in 0..(L - 1)
         /\ H[SlotOf(L, k, i)] \in 1..d
  <2>1. \A i \in 0..(c - 1) : i \in Nat
    BY <1>3
  <2> QED  BY <1>1, <2>1, PassedPair
<1>5. M \subseteq Nat /\ Z \subseteq Nat
  BY <1>1, <1>4
<1>6. f = IF M # {} THEN [map |-> t, slot |-> SlotOf(L, k, Min(M))]
          ELSE IF Z # {}
             THEN [map |-> Renamed(t, k, H[SlotOf(L, k, Min(Z))], frozen),
                   slot |-> SlotOf(L, k, Min(Z))]
          ELSE [map |-> t, slot |-> SlotOf(L, k, c)]
  BY <1>1, <1>2 DEF Find_Key_Hashed
<1> HIDE DEF f, M, Z
<1>7. CASE M # {}
  <2>1. PICK i \in M : i = Min(M)
    BY <1>5, <1>7, MinIs
  <2>2. f.map = t /\ f.slot = SlotOf(L, k, i)
    BY <1>6, <1>7, <2>1
  <2>3. i \in 0..(c - 1) /\ Equal(P[H[SlotOf(L, k, i)]].key, k, cased)
    BY <1>1
  <2> QED  BY <1>4, <2>2, <2>3 DEF FindsMatch, f, t
<1>8. CASE M = {}
  <2>1. Unmatched(P, d, k, cased)
    <3> SUFFICES ASSUME k \in OrderlyKeys,
                        NEW n \in 1..d, Equal(P[n].key, k, cased)
                 PROVE  FALSE
      BY DEF Unmatched
    <3>1. P[n].key \in Keys
      <4>1. P \in Seq(Pair) /\ n \in 1..Len(P)
        BY DEF Hashed
      <4> QED  BY <4>1, PairIs
    <3>2. PICK i \in 0..(c - 1) : H[SlotOf(L, k, i)] = n
      BY <1>1, <3>1, EqualOrderly, PassesAll
    <3> QED  BY <1>1, <1>8, <3>2
  <2>2. CASE Z # {}
    <3>1. PICK i \in Z : i = Min(Z)
      BY <1>5, <2>2, MinIs
    <3> DEFINE n == H[SlotOf(L, k, i)]
    <3>2. f.map = Renamed(t, k, n, frozen) /\ f.slot = SlotOf(L, k, i)
      BY <1>6, <1>8, <2>2, <3>1
    <3>3. i \in 0..(c - 1) /\ P[n].val = Null
      BY <1>1
    <3>4. n \in 1..d /\ i \in 0..(L - 1)
      BY <1>4, <3>3
    <3>5. Renamed(t, k, n, frozen)
            = Tab(Rekeyed(P, n, k, frozen), L, H)
      <4> HIDE DEF n
      <4> QED  BY DEF Renamed, t, Tab, Rekeyed, Zombie
    <3>6. \A j \in 0..(i - 1) : H[SlotOf(L, k, j)] # 0
      <4>1. \A j \in 0..(i - 1) : j \in 0..(c - 1)
        BY <1>3, <3>3
      <4> QED  BY <1>1, <4>1 DEF Ends
    <3>7. FindsZombie(P, L, H, d, k, frozen, f)
      BY <3>2, <3>3, <3>4, <3>5, <3>6 DEF FindsZombie
    <3> QED  BY <2>1, <3>7 DEF f, t
  <2>3. CASE Z = {}
    <3>1. f.map = t /\ f.slot = SlotOf(L, k, c)
      BY <1>6, <1>8, <2>3
    <3>2. FindsFree(P, L, H, k, f)
      BY <1>1, <1>3, <3>1 DEF FindsFree, Ends, t
    <3> QED  BY <2>1, <3>2 DEF f, t
  <2> QED  BY <2>2, <2>3
<1> QED  BY <1>7, <1>8

\* Where there is no conflict only one pair matches an orderly key.
LEMMA OneMatch ==
    ASSUME NEW P, NEW L, NEW H, NEW d, Hashed(P, L, H, d),
           NEW k \in OrderlyKeys, NEW cased \in BOOLEAN,
           ~Conflicting(Tab(P, L, H), k, cased),
           NEW n \in 1..d, NEW o \in 1..d,
           Equal(P[n].key, k, cased), Equal(P[o].key, k, cased)
    PROVE  n = o
<1>1. /\ P \in Seq(Pair) /\ n \in 1..Len(P) /\ o \in 1..Len(P)
      /\ k \in Keys
  BY DEF Hashed, OrderlyKeys
<1>2. P[n].key \in Keys /\ P[o].key \in Keys
  BY <1>1, PairIs
<1>3. /\ P[n].key \in OrderlyKeys /\ Hash[P[n].key] = Hash[k]
      /\ P[o].key \in OrderlyKeys /\ Hash[P[o].key] = Hash[k]
      /\ cased => P[n].key = k /\ P[o].key = k
  BY <1>1, <1>2, EqualOrderly
<1>4. CASE cased
  BY <1>1, <1>3, <1>4 DEF Hashed, Distinct
<1>5. CASE ~cased
  <2> DEFINE t == Tab(P, L, H)
             M == Matches(t, k, cased)
  <2>1. PICK c : /\ Ends(L, H, k, c)
                 /\ M = {i \in 0..(c - 1) :
                           Equal(P[H[SlotOf(L, k, i)]].key, k, cased)}
    BY <1>1, SearchSets
  <2>2. PICK i \in 0..(c - 1) : H[SlotOf(L, k, i)] = n
    BY <1>1, <1>3, <2>1, PassesAll
  <2>3. PICK j \in 0..(c - 1) : H[SlotOf(L, k, j)] = o
    BY <1>1, <1>3, <2>1, PassesAll
  <2>4. {i, j} \subseteq M
    BY <2>1, <2>2, <2>3
  <2>5. IsFiniteSet(M) /\ Cardinality(M) \in Nat
    <3>1. c \in Nat
      BY <2>1, SizeIs DEF Ends, Hashed
    <3>2. IsFiniteSet(0..(c - 1))
      BY <3>1, FS_Interval
    <3>3. M \subseteq 0..(c - 1)
      BY <2>1
    <3> HIDE DEF M
    <3> QED  BY <3>2, <3>3, FS_Subset, FS_CardinalityType
  <2>6. ~(Cardinality(M) > 1)
    BY <1>5 DEF Conflicting
  <2> HIDE DEF M
  <2>7. i = j
    <3> SUFFICES ASSUME i # j  PROVE FALSE
      OBVIOUS
    <3>1. IsFiniteSet({i}) /\ Cardinality({i}) = 1
      BY FS_Singleton
    <3>2. Cardinality({i} \union {j}) = 2 /\ {i} \union {j} = {i, j}
      <4>1. j \notin {i} /\ {i} \union {j} = {i, j}
        OBVIOUS
      <4>2. Cardinality({i} \union {j}) = Cardinality({i}) + 1
        BY <3>1, <4>1, FS_AddElement
      <4> QED  BY <3>1, <4>1, <4>2
    <3>3. Cardinality({i, j}) <= Cardinality(M) /\ Cardinality({i, j}) = 2
      <4>1. Cardinality({i, j}) <= Cardinality(M)
        BY <2>4, <2>5, FS_Subset
      <4>2. Cardinality({i, j}) = 2
        BY <3>2
      <4> QED  BY <4>1, <4>2
    <3> QED  BY <2>5, <2>6, <3>3
  <2> QED  BY <2>2, <2>3, <2>7
<1> QED  BY <1>4, <1>5

----------------------------------------------------------------------------
(* Changing a table.                                                       *)

\* Where a pair has its slot is a matter of its key.
LEMMA SamePlace ==
    ASSUME NEW P, NEW Q, NEW L, NEW H, NEW n, Q[n].key = P[n].key,
           Placed(P, L, H, n)
    PROVE  Placed(Q, L, H, n)
<1>1. PICK k : k = P[n].key /\ k = Q[n].key
  OBVIOUS
<1> QED  BY <1>1, Zenon DEF Placed

\* Pairs that keep their keys keep their slots: other values, and pairs that
\* have no slot yet, make no difference.
LEMMA SameKeys ==
    ASSUME NEW P, NEW L, NEW H, NEW d, Hashed(P, L, H, d),
           NEW Q \in Seq(Pair), d <= Len(Q), Distinct(Q),
           \A n \in 1..d : Q[n].key = P[n].key
    PROVE  Hashed(Q, L, H, d)
<1>1. d \in Nat /\ d \in 0..Len(Q)
  BY DEF Hashed
<1>2. \A n \in 1..d : P[n].key \in OrderlyKeys => Placed(P, L, H, n)
  BY DEF Hashed
<1>3. \A n \in 1..d : Q[n].key \in OrderlyKeys => Placed(Q, L, H, n)
  BY <1>2, SamePlace
<1> QED  BY <1>1, <1>3 DEF Hashed

\* A pair stays in its place when another slot is used, or its own again.
LEMMA StaysPlaced ==
    ASSUME NEW P, NEW L, NEW H, NEW d, Hashed(P, L, H, d),
           NEW s \in 0..(L - 1), NEW x \in Nat \ {0},
           NEW n \in 1..d, Placed(P, L, H, n), H[s] # n \/ x = n
    PROVE  Placed(P, L, [H EXCEPT ![s] = x], n)
<1> DEFINE G == [H EXCEPT ![s] = x]
           k == P[n].key
<1>1. /\ L \in PrimeSizes /\ L \in Nat /\ L >= 7 /\ n # 0
      /\ H \in [0..(L - 1) -> 0..d]
  BY SizeIs DEF Hashed
<1>2. \A u \in 0..(L - 1) : G[u] = IF u = s THEN x ELSE H[u]
  BY <1>1
<1>3. PICK i \in 0..(L - 1) :
         /\ H[SlotOf(L, k, i)] = n
         /\ \A j \in 0..(i - 1) : H[SlotOf(L, k, j)] # 0
  BY DEF Placed
<1>4. k \in Keys
  <2>1. P \in Seq(Pair) /\ n \in 1..Len(P)
    BY DEF Hashed
  <2> QED  BY <2>1, PairIs
<1>5. \A j \in 0..(L - 1) : SlotOf(L, k, j) \in 0..(L - 1)
  <2>1. \A j \in 0..(L - 1) : j \in Nat
    BY <1>1
  <2> HIDE DEF k
  <2> QED  BY <1>1, <1>4, <2>1, ProbeIs
<1> HIDE DEF G
<1>6. G[SlotOf(L, k, i)] = n
  BY <1>1, <1>2, <1>3, <1>5
<1>7. ASSUME NEW j \in 0..(i - 1)  PROVE G[SlotOf(L, k, j)] # 0
  <2>1. j \in 0..(L - 1)
    BY <1>1
  <2> QED  BY <1>2, <1>3, <1>5, <2>1
<1> QED  BY <1>6, <1>7 DEF Placed, G

\* Using a slot uses one more at most.
LEMMA OneMoreUsed ==
    ASSUME NEW L \in PrimeSizes, NEW H, NEW s \in 0..(L - 1),
           H = [u \in 0..(L - 1) |-> H[u]], NEW x
    PROVE  Cardinality(Used(L, [H EXCEPT ![s] = x]))
              <= Cardinality(Used(L, H)) + 1
<1> DEFINE G == [H EXCEPT ![s] = x]
           A == Used(L, H)
           B == Used(L, G)
<1>1. IsFiniteSet(A) /\ Cardinality(A) \in Nat
  BY UsedIs
<1>2. B \subseteq A \union {s}
  <2>1. \A u \in 0..(L - 1) : u # s => G[u] = H[u]
    OBVIOUS
  <2> HIDE DEF G
  <2> QED  BY <2>1 DEF Used
<1> HIDE DEF G, A, B
<1>3. /\ IsFiniteSet(A \union {s})
      /\ Cardinality(A \union {s}) <= Cardinality(A) + 1
  <2>1. CASE s \in A
    <3>1. A \union {s} = A /\ Cardinality(A) <= Cardinality(A) + 1
      BY <1>1, <2>1
    <3> QED  BY <1>1, <3>1, Zenon
  <2>2. CASE s \notin A
    <3>1. /\ IsFiniteSet(A \union {s})
          /\ Cardinality(A \union {s}) = Cardinality(A) + 1
      BY <1>1, <2>2, FS_AddElement
    <3> QED  BY <1>1, <3>1
  <2> QED  BY <2>1, <2>2
<1>4. Cardinality(B) <= Cardinality(A \union {s})
  BY <1>2, <1>3, FS_Subset
<1>5. Cardinality(B) \in Nat /\ Cardinality(A \union {s}) \in Nat
  BY <1>2, <1>3, FS_Subset, FS_CardinalityType
<1>6. Cardinality(B) <= Cardinality(A) + 1
  BY <1>1, <1>3, <1>4, <1>5
<1> QED  BY <1>6 DEF A, B, G

\* The slot s can be given to the n-th pair when d of them have theirs: no
\* orderly key but its own loses its slot, and its own is in its place.
CanTake(P, L, H, d, n, s) ==
    /\ s \in 0..(L - 1)
    /\ \A o \in 1..d : P[o].key \in OrderlyKeys => H[s] # o \/ o = n
    /\ P[n].key \in OrderlyKeys /\ n > d
          => Placed(P, L, [H EXCEPT ![s] = n], n)

\* A pair that has its slot again, or the next one, gets a slot.
LEMMA TakesSlot ==
    ASSUME NEW P, NEW L, NEW H, NEW d, Hashed(P, L, H, d),
           NEW n \in 1..Len(P), NEW e \in 0..Len(P), 2 * e < L,
           (e = d /\ n <= d) \/ (e = d + 1 /\ n = e),
           NEW s, CanTake(P, L, H, d, n, s),
           Cardinality(Used(L, [H EXCEPT ![s] = n])) <= 2 * e
    PROVE  Hashed(P, L, [H EXCEPT ![s] = n], e)
<1> DEFINE G == [H EXCEPT ![s] = n]
<1>1. /\ P \in Seq(Pair) /\ Len(P) \in Nat /\ d \in Nat /\ e \in Nat
      /\ L \in PrimeSizes /\ n \in Nat \ {0}
      /\ H \in [0..(L - 1) -> 0..d] /\ Distinct(P)
      /\ s \in 0..(L - 1)
  BY DEF Hashed, CanTake
<1>2. n \in 0..e /\ \A x \in 0..d : x \in 0..e
  BY <1>1
<1>3. H \in [0..(L - 1) -> 0..e]
  BY <1>1, <1>2
<1>4. G \in [0..(L - 1) -> 0..e]
  BY <1>1, <1>2, <1>3
<1>5. ASSUME NEW o \in 1..e, P[o].key \in OrderlyKeys
      PROVE  Placed(P, L, G, o)
  <2>1. CASE o \in 1..d
    <3>1. Placed(P, L, H, o) /\ (H[s] # o \/ n = o)
      BY <1>5, <2>1 DEF Hashed, CanTake
    <3> QED  BY <1>1, <2>1, <3>1, StaysPlaced
  <2>2. CASE o \notin 1..d
    <3>1. o = n /\ n > d
      BY <1>1, <2>2
    <3> QED  BY <1>5, <3>1 DEF CanTake
  <2> QED  BY <2>1, <2>2
<1>6. Cardinality(Used(L, G)) <= 2 * e
  OBVIOUS
<1> HIDE DEF G
<1>7. Hashed(P, L, G, e)
  BY <1>1, <1>4, <1>5, <1>6 DEF Hashed
<1> QED  BY <1>7 DEF G

\* The slot that ends the chain of its key can be given to a pair.
LEMMA FreeTakes ==
    ASSUME NEW P, NEW L, NEW H, NEW d, Hashed(P, L, H, d),
           NEW n \in 1..Len(P), NEW k, k = P[n].key,
           NEW i \in 0..(L - 1), H[SlotOf(L, k, i)] = 0,
           \A j \in 0..(i - 1) : H[SlotOf(L, k, j)] # 0
    PROVE  CanTake(P, L, H, d, n, SlotOf(L, k, i))
<1> DEFINE s == SlotOf(L, k, i)
           G == [H EXCEPT ![s] = n]
<1>1. /\ P \in Seq(Pair) /\ Len(P) \in Nat /\ d \in Nat
      /\ L \in PrimeSizes /\ L \in Nat /\ L >= 7
      /\ H \in [0..(L - 1) -> 0..d]
  BY SizeIs DEF Hashed
<1>2. k \in Keys
  BY <1>1, PairIs
<1>3. \A j \in 0..(L - 1) : SlotOf(L, k, j) \in 0..(L - 1)
  <2>1. \A j \in 0..(L - 1) : j \in Nat
    BY <1>1
  <2> QED  BY <1>1, <1>2, <2>1, ProbeIs
<1>4. s \in 0..(L - 1) /\ H[s] = 0
  BY <1>3
<1> HIDE DEF s
<1>5. \A u \in 0..(L - 1) : G[u] = IF u = s THEN n ELSE H[u]
  BY <1>1
<1> HIDE DEF G
<1>6. Placed(P, L, G, n)
  <2>1. G[SlotOf(L, k, i)] = n
    BY <1>4, <1>5 DEF s
  <2>2. ASSUME NEW j \in 0..(i - 1)  PROVE G[SlotOf(L, k, j)] # 0
    <3>1. j \in 0..(L - 1)
      BY <1>1
    <3>2. SlotOf(L, k, j) \in 0..(L - 1) /\ H[SlotOf(L, k, j)] # 0
      BY <1>3, <3>1
    <3>3. n # 0
      BY <1>1
    <3> QED  BY <1>5, <3>2, <3>3
  <2> QED  BY <2>1, <2>2 DEF Placed
<1>7. \A o \in 1..d : H[s] # o
  BY <1>1, <1>4
<1> QED  BY <1>4, <1>6, <1>7 DEF CanTake, G, s

\* A zombie that gets the key of a search which passes it stays in its slot.
LEMMA RenameKeeps ==
    ASSUME NEW P, NEW L, NEW H, NEW d, Hashed(P, L, H, d), d = Len(P),
           NEW k \in Keys, NEW frozen \in BOOLEAN,
           k \in OrderlyKeys => \A o \in 1..d : P[o].key # k,
           NEW n \in 1..d, NEW i \in 0..(L - 1), H[SlotOf(L, k, i)] = n,
           \A j \in 0..(i - 1) : H[SlotOf(L, k, j)] # 0
    PROVE  Hashed(Rekeyed(P, n, k, frozen), L, H, d)
<1> DEFINE Q == [P EXCEPT ![n] = Zombie(k, frozen)]
<1>1. P \in Seq(Pair) /\ Len(P) \in Nat /\ Distinct(P)
  BY DEF Hashed
<1>2. Zombie(k, frozen) \in Pair /\ Zombie(k, frozen).key = k
  BY DEF Zombie, Pair
<1>3. Q \in Seq(Pair) /\ Len(Q) = Len(P)
  BY <1>1, <1>2
<1>4. \A o \in 1..d : Q[o] = IF o = n THEN Zombie(k, frozen) ELSE P[o]
  BY <1>1
<1> HIDE DEF Q
<1>5. \A o \in 1..d : Q[o].key = IF o = n THEN k ELSE P[o].key
  BY <1>2, <1>4
<1>6. Distinct(Q)
  BY <1>1, <1>3, <1>5 DEF Distinct
<1>7. ASSUME NEW o \in 1..d, Q[o].key \in OrderlyKeys
      PROVE  Placed(Q, L, H, o)
  <2>1. CASE o = n
    BY <1>5, <2>1 DEF Placed
  <2>2. CASE o # n
    <3>1. Q[o].key = P[o].key
      BY <1>5, <2>2
    <3>2. Placed(P, L, H, o)
      BY <1>7, <3>1 DEF Hashed
    <3> QED  BY <3>1, <3>2, SamePlace
  <2> QED  BY <2>1, <2>2
<1>8. Hashed(Q, L, H, d)
  BY <1>3, <1>6, <1>7 DEF Hashed
<1> QED  BY <1>8 DEF Q, Rekeyed

----------------------------------------------------------------------------
(* What is in a list of pairs.                                             *)

\* The orderly key k has the value v.
Has(P, k, v) ==
    /\ k \in OrderlyKeys /\ v # Null
    /\ \E n \in 1..Len(P) : P[n].key = k /\ P[n].val = v

\* Q is P with the value v, or if that is Null no value, for s.
Stores(P, Q, s, v) ==
    \A k, w : Has(Q, k, w) <=> IF k = s THEN w = v /\ v # Null
                                        ELSE Has(P, k, w)

\* The orderly keys have the same values in P and Q.
Agree(P, Q) == \A k, w : Has(Q, k, w) <=> Has(P, k, w)

AllLive(P) == \A n \in 1..Len(P) : P[n].val # Null

\* No more slots are used than there are pairs.
Tight(P, L, H) == Cardinality(Used(L, H)) <= Len(P)

\* No zombies, and no more slots used than there are pairs.
Fresh(P, L, H) == AllLive(P) /\ Tight(P, L, H)

\* A pair with another value.
LEMMA ValuedPair ==
    ASSUME NEW P, NEW L, NEW H, NEW d, Hashed(P, L, H, d),
           NEW n \in 1..Len(P), NEW v \in Values \union {Null},
           NEW Q, Q = Valued(P, n, v)
    PROVE  /\ Len(Q) = Len(P)
           /\ Hashed(Q, L, H, d)
           /\ IF P[n].key \in OrderlyKeys THEN Stores(P, Q, P[n].key, v)
                                         ELSE Agree(P, Q)
           /\ AllLive(P) /\ v # Null => AllLive(Q)
<1> DEFINE x == [P[n] EXCEPT !.val = v]
<1>1. P \in Seq(Pair) /\ Distinct(P) /\ d <= Len(P) /\ d \in Nat
  BY DEF Hashed
<1>2. P[n] \in Pair
  BY <1>1
<1>3. x \in Pair /\ x.key = P[n].key /\ x.val = v
  BY <1>2 DEF Pair
<1>4. Q = [P EXCEPT ![n] = x]
  BY DEF Valued
<1> HIDE DEF x
<1>5. /\ Q \in Seq(Pair) /\ Len(Q) = Len(P)
      /\ \A o \in 1..Len(P) : Q[o] = IF o = n THEN x ELSE P[o]
  BY <1>1, <1>3, <1>4
<1>6. /\ \A o \in 1..Len(P) : Q[o].key = P[o].key
      /\ \A o \in 1..Len(P) : Q[o].val = IF o = n THEN v ELSE P[o].val
  BY <1>3, <1>5
<1>7. Distinct(Q)
  BY <1>1, <1>5, <1>6 DEF Distinct
<1>8. Hashed(Q, L, H, d)
  <2>1. \A o \in 1..d : o \in 1..Len(P)
    BY <1>1
  <2> QED  BY <1>1, <1>5, <1>6, <1>7, <2>1, SameKeys
<1>9. AllLive(P) /\ v # Null => AllLive(Q)
  BY <1>5, <1>6 DEF AllLive
<1>10. CASE P[n].key \in OrderlyKeys
  <2> SUFFICES ASSUME NEW k, NEW w
               PROVE  Has(Q, k, w) <=> IF k = P[n].key THEN w = v /\ v # Null
                                                 ELSE Has(P, k, w)
    BY <1>5, <1>8, <1>10, <1>9 DEF Stores
  <2>1. CASE k = P[n].key
    <3>1. \A o \in 1..Len(P) : Q[o].key = k => o = n
      BY <1>1, <1>5, <1>6, <1>10, <2>1 DEF Distinct
    <3> QED  BY <1>5, <1>6, <1>10, <2>1, <3>1 DEF Has
  <2>2. CASE k # P[n].key
    <3>1. \A o \in 1..Len(P) : Q[o].key = k => o # n
      BY <1>6, <2>2
    <3>2. \A o \in 1..Len(P) : P[o].key = k => o # n
      BY <2>2
    <3> QED  BY <1>5, <1>6, <2>2, <3>1, <3>2 DEF Has
  <2> QED  BY <2>1, <2>2
<1>11. CASE P[n].key \notin OrderlyKeys
  <2>1. Agree(P, Q)
    BY <1>5, <1>6, <1>11 DEF Agree, Has
  <2> QED  BY <1>5, <1>8, <1>9, <1>11, <2>1
<1> QED  BY <1>10, <1>11

\* A zombie with another key.
LEMMA RenamedPair ==
    ASSUME NEW P \in Seq(Pair), NEW n \in 1..Len(P), P[n].val = Null,
           NEW k \in Keys, NEW frozen \in BOOLEAN
    PROVE  /\ Len(Rekeyed(P, n, k, frozen)) = Len(P)
           /\ Agree(P, Rekeyed(P, n, k, frozen))
           /\ Rekeyed(P, n, k, frozen)[n].key = k
<1> DEFINE x == Zombie(k, frozen)
           Q == Rekeyed(P, n, k, frozen)
<1>1. x \in Pair /\ x.key = k /\ x.val = Null
  BY DEF Zombie, Pair
<1> HIDE DEF x
<1>2. /\ Q \in Seq(Pair) /\ Len(Q) = Len(P)
      /\ \A o \in 1..Len(P) : Q[o] = IF o = n THEN x ELSE P[o]
  BY <1>1 DEF x, Rekeyed
<1> HIDE DEF Q
<1>3. Agree(P, Q)
  BY <1>1, <1>2 DEF Agree, Has
<1> QED  BY <1>1, <1>2, <1>3 DEF Q

\* A pair more, with a key that was not there.
LEMMA AppendedPair ==
    ASSUME NEW P \in Seq(Pair), Distinct(P), NEW x \in Pair,
           x.val # Null,
           x.key \in OrderlyKeys => \A n \in 1..Len(P) : P[n].key # x.key
    PROVE  LET Q == Append(P, x)
           IN  /\ Q \in Seq(Pair) /\ Len(Q) = Len(P) + 1 /\ Distinct(Q)
               /\ \A n \in 1..Len(P) : Q[n] = P[n]
               /\ Q[Len(Q)] = x
               /\ IF x.key \in OrderlyKeys
                     THEN Stores(P, Q, x.key, x.val) ELSE Agree(P, Q)
               /\ AllLive(P) => AllLive(Q)
<1> DEFINE Q == Append(P, x)
<1>1. /\ Q \in Seq(Pair) /\ Len(Q) = Len(P) + 1 /\ Len(P) \in Nat
      /\ \A n \in 1..Len(P) : Q[n] = P[n]
      /\ Q[Len(Q)] = x
  OBVIOUS
<1> HIDE DEF Q
<1>2. /\ \A n \in 1..Len(Q) : n \in 1..Len(P) \/ n = Len(Q)
      /\ \A n \in 1..Len(P) : n \in 1..Len(Q)
      /\ Len(Q) \in 1..Len(Q)
  BY <1>1
<1>3. Distinct(Q)
  BY <1>1, <1>2 DEF Distinct
<1>4. ASSUME x.key \in OrderlyKeys  PROVE Stores(P, Q, x.key, x.val)
  <2> SUFFICES ASSUME NEW k, NEW w
               PROVE  Has(Q, k, w) <=> IF k = x.key
                                          THEN w = x.val /\ x.val # Null
                                          ELSE Has(P, k, w)
    BY DEF Stores
  <2>1. CASE k = x.key
    <3>1. \A n \in 1..Len(Q) : Q[n].key = k => n = Len(Q)
      BY <1>1, <1>2, <1>4, <2>1
    <3> QED  BY <1>1, <1>2, <1>4, <2>1, <3>1 DEF Has
  <2>2. CASE k # x.key
    <3>1. \A n \in 1..Len(Q) : Q[n].key = k => n \in 1..Len(P)
      BY <1>1, <1>2, <2>2
    <3> QED  BY <1>1, <1>2, <2>2, <3>1 DEF Has
  <2> QED  BY <2>1, <2>2
<1>5. AllLive(P) => AllLive(Q)
  BY <1>1, <1>2 DEF AllLive
<1>6. ASSUME x.key \notin OrderlyKeys  PROVE Agree(P, Q)
  <2>1. \A k \in OrderlyKeys, n \in 1..Len(Q) :
           Q[n].key = k => n \in 1..Len(P)
    BY <1>1, <1>2, <1>6
  <2> QED  BY <1>1, <1>2, <2>1 DEF Agree, Has
<1> QED  BY <1>1, <1>3, <1>4, <1>5, <1>6 DEF Q

\* The key a value is stored under: the one given, or if case is ignored one
\* of its class, and no other of those has a value.
StoredAs(P, k, s, cased) ==
    /\ s \in OrderlyKeys
    /\ cased => s = k
    /\ ~cased => /\ s \in Class(k)
                 /\ \A q, w : Has(P, q, w) /\ q \in Class(k) => q = s

\* Q is P with the value v for k, or if k is not orderly as far as the orderly
\* keys go P.
SetsKey(P, Q, k, v, cased) ==
    IF k \in OrderlyKeys
       THEN \E s : StoredAs(P, k, s, cased) /\ Stores(P, Q, s, v)
       ELSE Agree(P, Q)

\* The table of t with the pairs and slots of a MAP! that is well hashed.
Good(P, L, H) == Hashed(P, L, H, Len(P))

\* An orderly key that no pair matches is stored as it is.
LEMMA NewKey ==
    ASSUME NEW P, NEW k \in OrderlyKeys, NEW cased \in BOOLEAN,
           Unmatched(P, Len(P), k, cased)
    PROVE  /\ StoredAs(P, k, k, cased)
           /\ \A n \in 1..Len(P) : P[n].key # k
<1>1. /\ Equal(k, k, cased) /\ k \in Class(k)
      /\ \A q \in Class(k) : Equal(q, k, FALSE)
  BY EqualsItself DEF OrderlyKeys, Orderly, Class
<1>2. \A n \in 1..Len(P) : ~Equal(P[n].key, k, cased)
  BY DEF Unmatched
<1> QED  BY <1>1, <1>2 DEF StoredAs, Has

\* A search changes nothing of what is in the map.
LEMMA FindKeeps ==
    ASSUME NEW P, NEW L, NEW H, Good(P, L, H), NEW k \in Keys,
           NEW cased \in BOOLEAN, NEW frozen \in BOOLEAN
    PROVE  \E Q : /\ Find_Key_Hashed(Tab(P, L, H), k, cased, frozen).map
                       = Tab(Q, L, H)
                  /\ Good(Q, L, H) /\ Len(Q) = Len(P) /\ Agree(P, Q)
<1> DEFINE f == Find_Key_Hashed(Tab(P, L, H), k, cased, frozen)
           d == Len(P)
<1>1. Hashed(P, L, H, d) /\ P \in Seq(Pair)
  BY DEF Good, Hashed
<1>2. \/ FindsMatch(P, L, H, d, k, cased, f)
      \/ /\ Unmatched(P, d, k, cased)
         /\ \/ FindsZombie(P, L, H, d, k, frozen, f)
            \/ FindsFree(P, L, H, k, f)
  BY <1>1, FindIs
<1> HIDE DEF f
<1>3. CASE \/ FindsMatch(P, L, H, d, k, cased, f)
           \/ FindsFree(P, L, H, k, f)
  <2>1. f.map = Tab(P, L, H)
    BY <1>3 DEF FindsMatch, FindsFree
  <2>2. Agree(P, P)
    BY DEF Agree
  <2> QED  BY <2>1, <2>2 DEF f
<1>4. CASE /\ Unmatched(P, d, k, cased)
           /\ FindsZombie(P, L, H, d, k, frozen, f)
  <2>1. PICK i \in 0..(L - 1), n \in 1..d :
           /\ \A j \in 0..(i - 1) : H[SlotOf(L, k, j)] # 0
           /\ f.slot = SlotOf(L, k, i) /\ H[f.slot] = n
           /\ P[n].val = Null
           /\ f.map = Tab(Rekeyed(P, n, k, frozen), L, H)
    BY <1>4 DEF FindsZombie
  <2>2. k \in OrderlyKeys => \A o \in 1..d : P[o].key # k
    BY <1>4, NewKey
  <2> DEFINE Q == Rekeyed(P, n, k, frozen)
  <2>3. Hashed(Q, L, H, d)
    BY <1>1, <2>1, <2>2, RenameKeeps
  <2>4. Len(Q) = Len(P) /\ Agree(P, Q)
    BY <1>1, <2>1, RenamedPair
  <2>5. f.map = Tab(Q, L, H)
    BY <2>1
  <2> HIDE DEF Q
  <2> QED  BY <2>3, <2>4, <2>5 DEF Good, f
<1> QED  BY <1>2, <1>3, <1>4

\* What Set does: the table stays well hashed, the value is stored under one
\* key, and a pair that is added is a live one at the end.  A table whose used
\* slots are as few as its pairs stays one.
SetTo(P, L, H, k, v, cased, t, Q, G) ==
    /\ t = Tab(Q, L, G)
    /\ Good(Q, L, G)
    /\ \/ Len(Q) = Len(P)
       \/ Len(Q) = Len(P) + 1 /\ Q[Len(Q)].val # Null
    /\ AllLive(P) /\ v # Null => AllLive(Q)
    /\ Tight(P, L, H) => Tight(Q, L, G)
    /\ SetsKey(P, Q, k, v, cased)

\* A pair that matches gets the value.
LEMMA SetMatch ==
    ASSUME NEW P, NEW L, NEW H, Good(P, L, H), NEW k \in Keys,
           NEW v \in Values \union {Null}, NEW cased \in BOOLEAN,
           ~Conflicting(Tab(P, L, H), k, cased),
           FindsMatch(P, L, H, Len(P), k, cased,
                      Find_Key_Hashed(Tab(P, L, H), k, cased, TRUE))
    PROVE  \E Q, G : SetTo(P, L, H, k, v, cased,
                           Set(Tab(P, L, H), k, v, cased), Q, G)
<1> DEFINE t == Tab(P, L, H)
           f == Find_Key_Hashed(t, k, cased, TRUE)
           d == Len(P)
<1>1. Hashed(P, L, H, d) /\ P \in Seq(Pair)
  BY DEF Good, Hashed
<1>2. PICK n \in 1..d : /\ Equal(P[n].key, k, cased)
                        /\ f.map = t /\ f.slot \in 0..(L - 1)
                        /\ H[f.slot] = n
  BY DEF FindsMatch
<1>3. n # 0 /\ t.hashes = H
  BY <1>1, TabIs
<1> DEFINE Q == Valued(P, n, v)
           s == P[n].key
<1>4. Set(t, k, v, cased) = Tab(Q, L, H)
  <2>1. Set(t, k, v, cased) = [t EXCEPT !.pairs[n].val = v]
    <3> HIDE DEF t, f
    <3> QED  BY <1>2, <1>3 DEF Set, f
  <2> QED  BY <2>1 DEF Tab, Valued
<1>5. /\ Len(Q) = Len(P) /\ Hashed(Q, L, H, d)
      /\ IF s \in OrderlyKeys THEN Stores(P, Q, s, v) ELSE Agree(P, Q)
      /\ (AllLive(P) /\ v # Null => AllLive(Q))
  <2> HIDE DEF t, f
  <2> QED  BY <1>1, ValuedPair
<1>6. s \in Keys
  BY <1>1, PairIs
<1>7. ASSUME k \in OrderlyKeys  PROVE StoredAs(P, k, s, cased)
  <2>1. /\ s \in OrderlyKeys /\ (cased => s = k) /\ s \in Class(k)
        /\ \A q \in Class(k) : Equal(q, k, FALSE)
    <3>1. s \in OrderlyKeys /\ (cased => s = k) /\ Class(s) = Class(k)
      BY <1>2, <1>6, <1>7, EqualOrderly
    <3> HIDE DEF s
    <3>2. s \in Class(s)
      BY <3>1 DEF OrderlyKeys, Orderly
    <3>3. \A q \in Class(k) : Equal(q, k, FALSE)
      BY <1>7 DEF OrderlyKeys, Orderly, Class
    <3> QED  BY <3>1, <3>2, <3>3
  <2>2. ASSUME ~cased, NEW q, NEW w, Has(P, q, w), q \in Class(k)
        PROVE  q = s
    <3>1. PICK o \in 1..d : P[o].key = q
      BY <2>2 DEF Has
    <3>2. Equal(P[o].key, k, cased)
      BY <2>1, <2>2, <3>1
    <3>3. o = n
      BY <1>1, <1>2, <1>7, <3>2, OneMatch
    <3> QED  BY <3>1, <3>3
  <2> HIDE DEF s
  <2> QED  BY <2>1, <2>2 DEF StoredAs
<1>8. s \in OrderlyKeys => k \in OrderlyKeys
  BY <1>2, <1>6, EqualOrderly
<1> HIDE DEF Q, s
<1>9. SetsKey(P, Q, k, v, cased)
  <2>1. CASE k \in OrderlyKeys
    BY <1>5, <1>7, <2>1 DEF SetsKey, StoredAs
  <2>2. CASE k \notin OrderlyKeys
    BY <1>5, <1>8, <2>2 DEF SetsKey
  <2> QED  BY <2>1, <2>2
<1>10. SetTo(P, L, H, k, v, cased, Set(t, k, v, cased), Q, H)
  BY <1>4, <1>5, <1>9 DEF SetTo, Good, Tight
<1> QED  BY <1>10

\* A zombie gets the key and the value.
LEMMA SetZombie ==
    ASSUME NEW P, NEW L, NEW H, Good(P, L, H), NEW k \in Keys,
           NEW v \in Values \union {Null}, NEW cased \in BOOLEAN,
           Unmatched(P, Len(P), k, cased),
           FindsZombie(P, L, H, Len(P), k, TRUE,
                       Find_Key_Hashed(Tab(P, L, H), k, cased, TRUE))
    PROVE  \E Q, G : SetTo(P, L, H, k, v, cased,
                           Set(Tab(P, L, H), k, v, cased), Q, G)
<1> DEFINE t == Tab(P, L, H)
           f == Find_Key_Hashed(t, k, cased, TRUE)
           d == Len(P)
<1>1. Hashed(P, L, H, d) /\ P \in Seq(Pair)
  BY DEF Good, Hashed
<1>2. PICK i \in 0..(L - 1), n \in 1..d :
         /\ \A j \in 0..(i - 1) : H[SlotOf(L, k, j)] # 0
         /\ f.slot = SlotOf(L, k, i) /\ H[f.slot] = n
         /\ P[n].val = Null
         /\ f.map = Tab(Rekeyed(P, n, k, TRUE), L, H)
  BY DEF FindsZombie
<1>3. k \in OrderlyKeys =>
         StoredAs(P, k, k, cased) /\ \A o \in 1..d : P[o].key # k
  BY NewKey
<1> DEFINE R == Rekeyed(P, n, k, TRUE)
           Q == Valued(R, n, v)
<1> HIDE DEF f
<1>4. Hashed(R, L, H, d)
  BY <1>1, <1>2, <1>3, RenameKeeps
<1>5. Len(R) = Len(P) /\ Agree(P, R) /\ R[n].key = k
  <2>1. /\ P \in Seq(Pair) /\ P[n].val = Null
        /\ n \in 1..Len(P) /\ TRUE \in BOOLEAN
    BY <1>1, <1>2
  <2>2. /\ Len(Rekeyed(P, n, k, TRUE)) = Len(P)
        /\ Agree(P, Rekeyed(P, n, k, TRUE))
        /\ Rekeyed(P, n, k, TRUE)[n].key = k
    BY <2>1, RenamedPair
  <2> QED  BY <2>2
<1>6. f.map = Tab(R, L, H) /\ n # 0
  BY <1>1, <1>2
<1> HIDE DEF R
<1>7. Set(t, k, v, cased) = Tab(Q, L, H)
  <2>1. f.map.hashes = H
    BY <1>6, TabIs
  <2>2. Set(t, k, v, cased) = [f.map EXCEPT !.pairs[n].val = v]
    <3> HIDE DEF t
    <3> QED  BY <1>2, <1>6, <2>1 DEF Set, f
  <2> QED  BY <1>6, <2>2 DEF Tab, Valued
<1>8. /\ Len(Q) = Len(R) /\ Hashed(Q, L, H, d)
      /\ IF k \in OrderlyKeys THEN Stores(R, Q, k, v) ELSE Agree(R, Q)
  <2>1. n \in 1..Len(R)
    BY <1>5
  <2> QED  BY <1>4, <1>5, <2>1, ValuedPair
<1> HIDE DEF Q
<1>9. SetsKey(P, Q, k, v, cased)
  <2>1. CASE k \in OrderlyKeys
    <3>1. Stores(P, Q, k, v)
      BY <1>5, <1>8, <2>1 DEF Stores, Agree
    <3> QED  BY <1>3, <2>1, <3>1 DEF SetsKey
  <2>2. CASE k \notin OrderlyKeys
    BY <1>5, <1>8, <2>2 DEF SetsKey, Agree
  <2> QED  BY <2>1, <2>2
<1>10. ~AllLive(P)
  BY <1>2 DEF AllLive
<1>11. SetTo(P, L, H, k, v, cased, Set(t, k, v, cased), Q, H)
  BY <1>5, <1>7, <1>8, <1>9, <1>10 DEF SetTo, Good, Tight
<1> QED  BY <1>11

\* A key that is nowhere is added, unless it is to be removed.
LEMMA SetFree ==
    ASSUME NEW P, NEW L, NEW H, Good(P, L, H), 2 * (Len(P) + 1) < L,
           NEW k \in Keys, NEW v \in Values \union {Null},
           NEW cased \in BOOLEAN,
           Unmatched(P, Len(P), k, cased),
           FindsFree(P, L, H, k,
                     Find_Key_Hashed(Tab(P, L, H), k, cased, TRUE))
    PROVE  \E Q, G : SetTo(P, L, H, k, v, cased,
                           Set(Tab(P, L, H), k, v, cased), Q, G)
<1> DEFINE t == Tab(P, L, H)
           f == Find_Key_Hashed(t, k, cased, TRUE)
           d == Len(P)
<1>1. Hashed(P, L, H, d) /\ P \in Seq(Pair) /\ d \in Nat /\ Distinct(P)
  BY DEF Good, Hashed
<1>2. PICK i \in 0..(L - 1) :
         /\ \A j \in 0..(i - 1) : H[SlotOf(L, k, j)] # 0
         /\ f.slot = SlotOf(L, k, i) /\ H[f.slot] = 0
         /\ f.map = t
  BY DEF FindsFree
<1>3. k \in OrderlyKeys =>
         StoredAs(P, k, k, cased) /\ \A o \in 1..d : P[o].key # k
  BY NewKey
<1>4. t.hashes = H /\ t.pairs = P
  BY TabIs
<1>5. CASE v = Null
  <2>1. Set(t, k, v, cased) = Tab(P, L, H)
    <3> HIDE DEF t, f
    <3>1. Set(t, k, v, cased) = t
      BY <1>2, <1>4, <1>5 DEF Set, f
    <3> QED  BY <3>1 DEF t
  <2>2. SetsKey(P, P, k, v, cased)
    BY <1>3, <1>5 DEF SetsKey, Stores, Has, Agree
  <2>3. SetTo(P, L, H, k, v, cased, Set(t, k, v, cased), P, H)
    BY <1>5, <2>1, <2>2 DEF SetTo, Good
  <2> QED  BY <2>3
<1>6. CASE v # Null
  <2> DEFINE x == [key |-> k, val |-> v, frozen |-> TRUE]
             Q == Append(P, x)
             s == SlotOf(L, k, i)
             G == [H EXCEPT ![s] = d + 1]
  <2>1. x \in Pair /\ x.key = k /\ x.val = v
    BY DEF Pair
  <2>2. Set(t, k, v, cased) = Tab(Q, L, G)
    <3>1. Set(t, k, v, cased)
            = [t EXCEPT !.pairs = Append(@, x), !.hashes[s] = d + 1]
      <4> HIDE DEF t, f, s
      <4>1. f.slot = s
        BY <1>2 DEF s
      <4> QED  BY <1>2, <1>4, <1>6, <4>1 DEF Set, f
    <3> HIDE DEF x, s
    <3> QED  BY <3>1 DEF Tab
  <2> HIDE DEF x
  <2>3. /\ Q \in Seq(Pair) /\ Len(Q) = Len(P) + 1 /\ Distinct(Q)
        /\ \A n \in 1..Len(P) : Q[n] = P[n]
        /\ Q[Len(Q)] = x
        /\ IF x.key \in OrderlyKeys
              THEN Stores(P, Q, x.key, x.val) ELSE Agree(P, Q)
        /\ AllLive(P) => AllLive(Q)
    BY <1>1, <1>3, <1>6, <2>1, AppendedPair
  <2> HIDE DEF Q
  <2>4. Hashed(Q, L, H, d)
    <3>1. d <= Len(Q)
      BY <1>1, <2>3
    <3> QED  BY <1>1, <2>3, <3>1, SameKeys
  <2>5. Hashed(Q, L, G, d + 1) /\ (Tight(P, L, H) => Tight(Q, L, G))
    <3>1. PICK n \in 1..Len(Q) : n = d + 1 /\ n \in 0..Len(Q) /\ 2 * n < L
      BY <1>1, <2>3
    <3>2. k = Q[n].key
      BY <2>1, <2>3, <3>1
    <3>3. H[SlotOf(L, k, i)] = 0
      BY <1>2
    <3>4. CanTake(Q, L, H, d, n, s)
      BY <1>2, <2>4, <3>2, <3>3, FreeTakes
    <3>5. Cardinality(Used(L, G)) <= Cardinality(Used(L, H)) + 1
      <4>1. L \in PrimeSizes /\ H = [u \in 0..(L - 1) |-> H[u]]
        BY <1>1 DEF Hashed
      <4>2. s \in 0..(L - 1)
        BY <3>4 DEF CanTake
      <4> HIDE DEF s
      <4> QED  BY <4>1, <4>2, OneMoreUsed
    <3>6. /\ Cardinality(Used(L, H)) <= 2 * d
          /\ Cardinality(Used(L, H)) \in Nat
          /\ Cardinality(Used(L, G)) \in Nat
      BY <1>1, UsedIs DEF Hashed
    <3> HIDE DEF G, s
    <3>7. Cardinality(Used(L, G)) <= 2 * n
      BY <1>1, <3>1, <3>5, <3>6
    <3>8. Hashed(Q, L, G, n)
      BY <2>4, <3>1, <3>4, <3>7, TakesSlot DEF G
    <3>9. Tight(P, L, H) => Tight(Q, L, G)
      BY <1>1, <2>3, <3>5, <3>6 DEF Tight
    <3> QED  BY <3>1, <3>8, <3>9
  <2>6. SetsKey(P, Q, k, v, cased)
    BY <1>3, <2>1, <2>3 DEF SetsKey
  <2> HIDE DEF G
  <2>7. SetTo(P, L, H, k, v, cased, Set(t, k, v, cased), Q, G)
    BY <1>6, <2>1, <2>2, <2>3, <2>5, <2>6 DEF SetTo, Good
  <2> QED  BY <2>7
<1> QED  BY <1>5, <1>6

\* What Set does.
LEMMA SetIs ==
    ASSUME NEW P, NEW L, NEW H, Good(P, L, H), 2 * (Len(P) + 1) < L,
           NEW k \in Keys, NEW v \in Values \union {Null},
           NEW cased \in BOOLEAN, ~Conflicting(Tab(P, L, H), k, cased)
    PROVE  \E Q, G : SetTo(P, L, H, k, v, cased,
                           Set(Tab(P, L, H), k, v, cased), Q, G)
<1> DEFINE f == Find_Key_Hashed(Tab(P, L, H), k, cased, TRUE)
           d == Len(P)
<1>1. \/ FindsMatch(P, L, H, d, k, cased, f)
      \/ /\ Unmatched(P, d, k, cased)
         /\ \/ FindsZombie(P, L, H, d, k, TRUE, f)
            \/ FindsFree(P, L, H, k, f)
  BY FindIs DEF Good
<1> HIDE DEF f
<1>2. CASE FindsMatch(P, L, H, d, k, cased, f)
  BY <1>2, SetMatch DEF f
<1>3. CASE /\ Unmatched(P, d, k, cased)
           /\ FindsZombie(P, L, H, d, k, TRUE, f)
  BY <1>3, SetZombie DEF f
<1>4. CASE /\ Unmatched(P, d, k, cased)
           /\ FindsFree(P, L, H, k, f)
  BY <1>4, SetFree DEF f
<1> QED  BY <1>1, <1>2, <1>3, <1>4

----------------------------------------------------------------------------
(* Rehashing.                                                              *)

\* The greatest of some numbers up to N.
LEMMA MaxIs ==
    ASSUME NEW N \in Nat, NEW T, T \subseteq 0..N, T # {}
    PROVE  Max(T) \in T /\ \A y \in T : y <= Max(T)
<1> DEFINE U == {N - y : y \in T}
<1>1. U \subseteq Nat /\ U # {}
  <2>1. \A y \in T : y \in 0..N
    OBVIOUS
  <2>2. \A y \in 0..N : N - y \in Nat
    OBVIOUS
  <2> QED  BY <2>1, <2>2
<1>2. PICK x \in U : \A z \in U : x <= z
  <2> HIDE DEF U
  <2> QED  BY <1>1, FirstNumber
<1>3. PICK y \in T : x = N - y
  OBVIOUS
<1>4. \A z \in T : y >= z /\ z <= y
  <2>1. \A z \in T : N - z \in U
    OBVIOUS
  <2>2. \A z \in T : x <= N - z
    BY <1>2, <2>1
  <2> QED  BY <1>3, <2>2
<1>5. \E w \in T : \A z \in T : w >= z
  BY <1>4
<1>6. Max(T) \in T /\ \A z \in T : Max(T) >= z
  BY <1>5 DEF Max
<1>7. \A w, z \in T : w >= z => z <= w
  OBVIOUS
<1> QED  BY <1>6, <1>7

\* Q is P, of which at least n pairs are left, up to a live one.
Trims(P, n, Q) ==
    /\ n <= Len(Q) /\ Len(Q) <= Len(P)
    /\ \A o \in 1..Len(Q) : Q[o] = P[o]
    /\ Q[Len(Q)].val # Null
    /\ Agree(P, Q)

\* Trailing zombies go, down to the last pair that is live.
LEMMA TrimmedIs ==
    ASSUME NEW P \in Seq(Pair), NEW L, NEW H,
           NEW n \in 1..Len(P), P[n].val # Null
    PROVE  \E Q \in Seq(Pair) :
              Trimmed(Tab(P, L, H)) = Tab(Q, L, H) /\ Trims(P, n, Q)
<1> DEFINE t == Tab(P, L, H)
           live == {o \in 1..Len(P) : P[o].val # Null}
           T == live \union {0}
           e == Max(T)
           Q == SubSeq(P, 1, e)
<1>1. Len(P) \in Nat /\ T \subseteq 0..Len(P) /\ T # {}
  OBVIOUS
<1>2. e \in T /\ \A y \in T : y <= e
  <2> HIDE DEF T
  <2> QED  BY <1>1, MaxIs
<1>3. Trimmed(t) = Tab(Q, L, H)
  <2>1. live = {o \in 1..Len(t.pairs) : ~IsZombie(t, o)}
    BY TabIs DEF IsZombie
  <2> HIDE DEF live
  <2>2. Trimmed(t) = [t EXCEPT !.pairs = SubSeq(@, 1, e)]
    BY <2>1 DEF Trimmed
  <2> HIDE DEF e
  <2> QED  BY <2>2 DEF Tab
<1>4. n \in T /\ n <= e
  BY <1>2
<1> HIDE DEF e
<1>5. e \in 1..Len(P) /\ P[e].val # Null
  BY <1>1, <1>2, <1>4
<1>6. /\ Q \in Seq(Pair) /\ Len(Q) = e
      /\ \A o \in 1..e : Q[o] = P[o]
  BY <1>5
<1> HIDE DEF Q
<1>7. Agree(P, Q)
  <2>1. \A o \in 1..Len(P) : P[o].val # Null => o \in 1..e
    <3>1. \A o \in 1..Len(P) : P[o].val # Null => o \in T
      OBVIOUS
    <3>2. \A o \in 1..Len(P) : o <= e => o \in 1..e
      BY <1>5
    <3> QED  BY <1>2, <3>1, <3>2
  <2>2. \A o \in 1..e : o \in 1..Len(P)
    BY <1>5
  <2> HIDE DEF T
  <2> QED  BY <1>6, <2>1, <2>2 DEF Agree, Has
<1>8. e <= Len(P)
  BY <1>5
<1>9. Trims(P, n, Q)
  BY <1>4, <1>5, <1>6, <1>7, <1>8 DEF Trims
<1> QED  BY <1>3, <1>6, <1>9

\* Q is P with the last pair in the place of the n-th.
Refills(P, n, Q) ==
    /\ Len(Q) = Len(P) - 1 /\ Distinct(Q)
    /\ \A o \in 1..Len(Q) : o # n => Q[o] = P[o]
    /\ Q[n] = P[Len(P)]
    /\ Agree(P, Q)

\* The last pair takes the place of a zombie.
LEMMA RefillIs ==
    ASSUME NEW P \in Seq(Pair), NEW L, NEW H, Distinct(P),
           NEW n \in 1..(Len(P) - 1), P[n].val = Null
    PROVE  \E Q \in Seq(Pair) :
              Refill(Tab(P, L, H), n) = Tab(Q, L, H) /\ Refills(P, n, Q)
<1> DEFINE N == Len(P)
           Q == [i \in 1..(N - 1) |-> IF i = n THEN P[N] ELSE P[i]]
<1>1. N \in Nat /\ N - 1 \in Nat /\ N \in 1..N /\ n # N /\ n \in 1..N
  OBVIOUS
<1>2. \A i \in 1..N : P[i] \in Pair
  OBVIOUS
<1>3. Refill(Tab(P, L, H), n) = Tab(Q, L, H)
  <2>1. Tab(P, L, H).pairs = P
    BY TabIs
  <2>2. Refill(Tab(P, L, H), n) = [Tab(P, L, H) EXCEPT !.pairs = Q]
    BY <2>1 DEF Refill
  <2> HIDE DEF Q
  <2> QED  BY <2>2 DEF Tab
<1> HIDE DEF N
<1>4. \A i \in 1..(N - 1) : i \in 1..N /\ i # N
  BY <1>1
<1>5. Q \in [1..(N - 1) -> Pair]
  BY <1>1, <1>2, <1>4
<1>6. Q \in Seq(Pair) /\ Len(Q) = N - 1
  BY <1>1, <1>5
<1>7. \A i \in 1..(N - 1) : Q[i] = IF i = n THEN P[N] ELSE P[i]
  OBVIOUS
<1> HIDE DEF Q
<1>8. n \in 1..(N - 1)
  BY DEF N
<1>9. Distinct(Q)
  BY <1>1, <1>4, <1>6, <1>7 DEF Distinct, N
<1>10. Agree(P, Q)
  <2>1. \A i \in 1..N : i \in 1..(N - 1) \/ i = N
    BY <1>1
  <2>2. ASSUME NEW k, NEW w, Has(P, k, w)  PROVE Has(Q, k, w)
    <3>1. PICK i \in 1..N : P[i].key = k /\ P[i].val = w /\ w # Null
                           /\ k \in OrderlyKeys
      BY <2>2 DEF Has, N
    <3>2. CASE i = N
      BY <1>6, <1>7, <1>8, <3>1, <3>2 DEF Has
    <3>3. CASE i # N
      <4>1. i \in 1..(N - 1) /\ i # n
        BY <2>1, <3>1, <3>3
      <4> QED  BY <1>6, <1>7, <3>1, <4>1 DEF Has
    <3> QED  BY <3>2, <3>3
  <2>3. ASSUME NEW k, NEW w, Has(Q, k, w)  PROVE Has(P, k, w)
    <3>1. PICK i \in 1..(N - 1) : Q[i].key = k /\ Q[i].val = w /\ w # Null
                                 /\ k \in OrderlyKeys
      BY <1>6, <2>3 DEF Has
    <3>2. PICK o \in 1..N : Q[i] = P[o]
      BY <1>1, <1>4, <1>7
    <3> QED  BY <3>1, <3>2 DEF Has, N
  <2> QED  BY <2>2, <2>3 DEF Agree
<1> QED  BY <1>3, <1>6, <1>7, <1>8, <1>9, <1>10 DEF N, Refills

\* The first d of the pairs P are live, and so is the last of all.
LiveTo(P, d) ==
    /\ \A n \in 1..d : P[n].val # Null
    /\ Len(P) # 0 => P[Len(P)].val # Null

\* The table t after i turns, which began with the pairs O and L slots: so
\* many pairs, or all that are left, have their slots; none of those is a
\* zombie; and nothing that had a value is lost.
Turned(O, L, i, t) ==
    \E P, H, d :
        /\ t = Tab(P, L, H) /\ Hashed(P, L, H, d)
        /\ Cardinality(Used(L, H)) <= d
        /\ d = i \/ (d = Len(P) /\ d <= i)
        /\ LiveTo(P, d)
        /\ Len(P) <= Len(O) /\ Agree(O, P)

\* Where the first d pairs are live a search for the key of one of them or of
\* the next changes no pair, and gives a slot that the pair can have.
LEMMA RehashSlot ==
    ASSUME NEW P, NEW L, NEW H, NEW d, Hashed(P, L, H, d),
           \A o \in 1..d : P[o].val # Null,
           NEW n \in 1..Len(P), n <= d + 1, NEW frozen
    PROVE  LET f == Find_Key_Hashed(Tab(P, L, H), P[n].key, TRUE, frozen)
           IN  f.map = Tab(P, L, H) /\ CanTake(P, L, H, d, n, f.slot)
<1> DEFINE k == P[n].key
           f == Find_Key_Hashed(Tab(P, L, H), k, TRUE, frozen)
<1>1. /\ P \in Seq(Pair) /\ Len(P) \in Nat /\ d \in Nat /\ Distinct(P)
      /\ d <= Len(P)
  BY DEF Hashed
<1>2. k \in Keys
  BY <1>1, PairIs
<1> HIDE DEF k
<1>3. \/ FindsMatch(P, L, H, d, k, TRUE, f)
      \/ FindsZombie(P, L, H, d, k, frozen, f)
      \/ FindsFree(P, L, H, k, f)
  BY <1>2, FindIs
<1> HIDE DEF f
<1>4. ~FindsZombie(P, L, H, d, k, frozen, f)
  BY DEF FindsZombie
<1>5. CASE FindsMatch(P, L, H, d, k, TRUE, f)
  <2>1. PICK q \in 1..d :
           /\ Equal(P[q].key, k, TRUE)
           /\ f.map = Tab(P, L, H)
           /\ f.slot \in 0..(L - 1) /\ H[f.slot] = q
    BY <1>5 DEF FindsMatch
  <2>2. q \in 1..Len(P) /\ P[q].key \in Keys
    BY <1>1, PairIs
  <2>3. P[q].key \in OrderlyKeys \/ k \in OrderlyKeys => q = n
    <3>1. P[q].key \in OrderlyKeys \/ k \in OrderlyKeys
             => P[q].key = k /\ P[q].key \in OrderlyKeys
      BY <1>2, <2>1, <2>2, EqualOrderly
    <3> QED  BY <1>1, <2>2, <3>1 DEF Distinct, k
  <2>4. CanTake(P, L, H, d, n, f.slot)
    BY <1>1, <2>1, <2>3 DEF CanTake, k
  <2> QED  BY <2>1, <2>4 DEF f, k
<1>6. CASE FindsFree(P, L, H, k, f)
  <2>1. PICK i \in 0..(L - 1) :
           /\ \A j \in 0..(i - 1) : H[SlotOf(L, k, j)] # 0
           /\ f.slot = SlotOf(L, k, i) /\ H[f.slot] = 0
           /\ f.map = Tab(P, L, H)
    BY <1>6 DEF FindsFree
  <2>2. H[SlotOf(L, k, i)] = 0
    BY <2>1
  <2>3. CanTake(P, L, H, d, n, SlotOf(L, k, i))
    BY <2>1, <2>2, FreeTakes DEF k
  <2> QED  BY <2>1, <2>3 DEF f, k
<1> QED  BY <1>3, <1>4, <1>5, <1>6

\* A pair takes the slot that was found for it.
LEMMA SlotTaken ==
    ASSUME NEW P, NEW L, NEW H, NEW d, Hashed(P, L, H, d),
           NEW n \in 1..Len(P), NEW e \in 0..Len(P), 2 * e < L,
           (e = d /\ n <= d) \/ (e = d + 1 /\ n = e),
           NEW s, CanTake(P, L, H, d, n, s),
           Cardinality(Used(L, H)) + 1 <= 2 * e,
           NEW G, G = [H EXCEPT ![s] = n]
    PROVE  /\ Hashed(P, L, G, e)
           /\ Cardinality(Used(L, G)) <= Cardinality(Used(L, H)) + 1
<1>1. /\ L \in PrimeSizes /\ H = [u \in 0..(L - 1) |-> H[u]]
      /\ s \in 0..(L - 1) /\ e \in Nat
  BY DEF Hashed, CanTake
<1>2. Cardinality(Used(L, G)) <= Cardinality(Used(L, H)) + 1
  BY <1>1, OneMoreUsed
<1>3. Cardinality(Used(L, H)) \in Nat /\ Cardinality(Used(L, G)) \in Nat
  BY <1>1, UsedIs
<1>4. Cardinality(Used(L, G)) <= 2 * e
  BY <1>1, <1>2, <1>3
<1>5. Hashed(P, L, G, e)
  BY <1>4, TakesSlot
<1> QED  BY <1>2, <1>5

\* The pair that a turn comes to, once it is a live one, gets its slot, and
\* trailing zombies go.
LEMMA HashesPair ==
    ASSUME NEW O, NEW P, NEW L, NEW H, NEW d, Hashed(P, L, H, d),
           Cardinality(Used(L, H)) <= d, d < Len(P), 2 * (d + 1) < L,
           \A o \in 1..(d + 1) : P[o].val # Null,
           Len(P) <= Len(O), Len(O) \in Nat, Agree(O, P), NEW frozen
    PROVE  LET f == Find_Key_Hashed(Tab(P, L, H), P[d + 1].key, TRUE, frozen)
           IN  Turned(O, L, d + 1,
                      Trimmed([f.map EXCEPT !.hashes[f.slot] = d + 1]))
<1> DEFINE k == P[d + 1].key
           f == Find_Key_Hashed(Tab(P, L, H), k, TRUE, frozen)
<1>1. /\ P \in Seq(Pair) /\ Len(P) \in Nat /\ d \in Nat /\ Distinct(P)
      /\ L \in PrimeSizes
  BY DEF Hashed
<1>2. PICK n \in 1..Len(P) : n = d + 1 /\ n \in 0..Len(P) /\ n \in Nat
  BY <1>1
<1>3. f.map = Tab(P, L, H) /\ CanTake(P, L, H, d, n, f.slot)
  <2>1. \A o \in 1..d : P[o].val # Null
    BY <1>1
  <2>2. n <= d + 1 /\ f = Find_Key_Hashed(Tab(P, L, H), P[n].key, TRUE,
                                          frozen)
    BY <1>1, <1>2
  <2> HIDE DEF f, k
  <2> QED  BY <2>1, <2>2, RehashSlot
<1> HIDE DEF f
<1> DEFINE G == [H EXCEPT ![f.slot] = n]
<1>4. Hashed(P, L, G, n) /\ Cardinality(Used(L, G)) <= n
  <2>1. Cardinality(Used(L, H)) + 1 <= 2 * n
    <3>1. Cardinality(Used(L, H)) \in Nat
      BY <1>1, UsedIs
    <3> QED  BY <1>1, <1>2, <3>1
  <2>2. 2 * n < L
    BY <1>2
  <2> HIDE DEF G
  <2>3. /\ Hashed(P, L, G, n)
        /\ Cardinality(Used(L, G)) <= Cardinality(Used(L, H)) + 1
    BY <1>2, <1>3, <2>1, <2>2, SlotTaken DEF G
  <2>4. Cardinality(Used(L, H)) \in Nat /\ Cardinality(Used(L, G)) \in Nat
    BY <1>1, UsedIs
  <2> QED  BY <1>1, <1>2, <2>3, <2>4
<1>5. [f.map EXCEPT !.hashes[f.slot] = n] = Tab(P, L, G)
  BY <1>3 DEF Tab
<1> HIDE DEF G
<1>6. PICK Q \in Seq(Pair) :
         Trimmed(Tab(P, L, G)) = Tab(Q, L, G) /\ Trims(P, n, Q)
  <2>1. P[n].val # Null
    BY <1>1, <1>2
  <2> QED  BY <1>1, <2>1, TrimmedIs
<1>7. /\ n <= Len(Q) /\ Len(Q) <= Len(P) /\ Len(Q) \in Nat
      /\ \A o \in 1..Len(Q) : Q[o] = P[o]
      /\ Q[Len(Q)].val # Null
      /\ Agree(P, Q)
  BY <1>6 DEF Trims
<1>8. /\ \A o \in 1..Len(Q) : o \in 1..Len(P)
      /\ \A o \in 1..n : o \in 1..Len(Q)
  BY <1>1, <1>7
<1>9. Hashed(Q, L, G, n)
  <2>1. Distinct(Q)
    BY <1>1, <1>7, <1>8 DEF Distinct
  <2>2. \A o \in 1..n : Q[o].key = P[o].key
    BY <1>7, <1>8
  <2> QED  BY <1>4, <1>7, <2>1, <2>2, SameKeys
<1>10. LiveTo(Q, n)
  BY <1>2, <1>7, <1>8 DEF LiveTo
<1>11. Len(Q) <= Len(O) /\ Agree(O, Q)
  <2>1. Len(Q) <= Len(O)
    BY <1>1, <1>7
  <2>2. Agree(O, Q)
    BY <1>7 DEF Agree
  <2> QED  BY <2>1, <2>2
<1>12. Turned(O, L, n, Tab(Q, L, G))
  BY <1>4, <1>9, <1>10, <1>11 DEF Turned
<1> QED  BY <1>2, <1>5, <1>6, <1>12 DEF f

\* A turn of the loop.
LEMMA TurnKeeps ==
    ASSUME NEW O \in Seq(Pair), NEW L, 2 * Len(O) < L, NEW i \in Nat, NEW t,
           Turned(O, L, i, t)
    PROVE  Turned(O, L, i + 1, Rehash_Pair(t, i + 1))
<1>1. PICK P, H, d :
         /\ t = Tab(P, L, H) /\ Hashed(P, L, H, d)
         /\ Cardinality(Used(L, H)) <= d
         /\ d = i \/ (d = Len(P) /\ d <= i)
         /\ LiveTo(P, d)
         /\ Len(P) <= Len(O) /\ Agree(O, P)
  BY DEF Turned
<1>2. /\ P \in Seq(Pair) /\ Len(P) \in Nat /\ Len(O) \in Nat
      /\ d \in Nat /\ d <= Len(P) /\ Distinct(P)
      /\ L \in PrimeSizes /\ L \in Nat
  BY <1>1, SizeIs DEF Hashed
<1>3. t.pairs = P
  BY <1>1, TabIs
<1>4. CASE i + 1 > Len(P)
  <2>1. Rehash_Pair(t, i + 1) = Tab(P, L, H)
    BY <1>1, <1>3, <1>4 DEF Rehash_Pair
  <2>2. d = Len(P) /\ d <= i + 1
    BY <1>1, <1>2, <1>4
  <2>3. Turned(O, L, i + 1, Tab(P, L, H))
    BY <1>1, <2>2 DEF Turned
  <2> QED  BY <2>1, <2>3
<1>5. CASE ~(i + 1 > Len(P))
  <2>1. d = i /\ d < Len(P) /\ d + 1 \in 1..Len(P) /\ 2 * (d + 1) < L
    BY <1>1, <1>2, <1>5
  <2> DEFINE n == d + 1
             full == IF IsZombie(t, n) THEN Refill(t, n) ELSE t
             f == Find_Key_Hashed(full, full.pairs[n].key, TRUE,
                                  full.pairs[n].frozen)
  <2>2. Rehash_Pair(t, i + 1) = Trimmed([f.map EXCEPT !.hashes[f.slot] = n])
    BY <1>3, <1>5, <2>1 DEF Rehash_Pair
  <2>3. \E Q : /\ full = Tab(Q, L, H) /\ Hashed(Q, L, H, d)
               /\ d < Len(Q) /\ \A o \in 1..(d + 1) : Q[o].val # Null
               /\ Len(Q) <= Len(O) /\ Agree(O, Q)
    <3>1. \A o \in 1..(d + 1) : o \in 1..d \/ o = d + 1
      BY <1>2
    <3>2. CASE P[n].val # Null
      <4>1. full = t
        BY <1>3, <3>2 DEF IsZombie
      <4>2. \A o \in 1..(d + 1) : P[o].val # Null
        BY <1>1, <3>1, <3>2 DEF LiveTo
      <4> QED  BY <1>1, <2>1, <4>1, <4>2
    <3>3. CASE P[n].val = Null
      <4>1. full = Refill(t, n)
        BY <1>3, <3>3 DEF IsZombie
      <4>2. n # Len(P) /\ n \in 1..(Len(P) - 1) /\ P[Len(P)].val # Null
        BY <1>1, <1>2, <2>1, <3>3 DEF LiveTo
      <4> HIDE DEF n, full
      <4>3. PICK Q \in Seq(Pair) :
               /\ Refill(Tab(P, L, H), n) = Tab(Q, L, H)
               /\ Len(Q) = Len(P) - 1 /\ Distinct(Q)
               /\ \A o \in 1..Len(Q) : o # n => Q[o] = P[o]
               /\ Q[n] = P[Len(P)]
               /\ Agree(P, Q)
        <5>1. P[n].val = Null
          BY <3>3
        <5>2. \E Q \in Seq(Pair) :
                 Refill(Tab(P, L, H), n) = Tab(Q, L, H) /\ Refills(P, n, Q)
          BY <1>2, <4>2, <5>1, RefillIs
        <5> QED  BY <5>2 DEF Refills
      <4>4. d < Len(Q) /\ Len(Q) <= Len(O) /\ d <= Len(Q)
        BY <1>1, <1>2, <2>1, <4>2, <4>3 DEF n
      <4>5. \A o \in 1..d : o \in 1..Len(Q) /\ o # n
        BY <1>2, <4>4 DEF n
      <4>6. Hashed(Q, L, H, d)
        <5>1. \A o \in 1..d : Q[o].key = P[o].key
          BY <4>3, <4>5
        <5> QED  BY <1>1, <4>3, <4>4, <5>1, SameKeys
      <4>7. \A o \in 1..(d + 1) : Q[o].val # Null
        BY <1>1, <3>1, <4>2, <4>3, <4>5 DEF LiveTo, n
      <4>8. Agree(O, Q)
        BY <1>1, <4>3 DEF Agree
      <4> QED  BY <1>1, <4>1, <4>3, <4>4, <4>6, <4>7, <4>8
    <3> QED  BY <3>2, <3>3
  <2> HIDE DEF full
  <2>4. PICK Q : /\ full = Tab(Q, L, H) /\ Hashed(Q, L, H, d)
                 /\ d < Len(Q) /\ \A o \in 1..(d + 1) : Q[o].val # Null
                 /\ Len(Q) <= Len(O) /\ Agree(O, Q)
    BY <2>3
  <2>5. f = Find_Key_Hashed(Tab(Q, L, H), Q[d + 1].key, TRUE,
                            Q[d + 1].frozen)
    <3>1. full.pairs = Q
      BY <2>4, TabIs
    <3> QED  BY <2>4, <3>1
  <2>6. Turned(O, L, d + 1, Trimmed([f.map EXCEPT !.hashes[f.slot] = d + 1]))
    <3> HIDE DEF f
    <3> QED  BY <1>1, <1>2, <2>1, <2>4, <2>5, HashesPair
  <2> QED  BY <2>1, <2>2, <2>6
<1> QED  BY <1>4, <1>5

\* The tables after each of n turns.
Turns(w, t, n) ==
    /\ w = [i \in 0..n |-> w[i]]
    /\ w[0] = t
    /\ \A i \in 1..n : w[i] = Rehash_Pair(w[i - 1], i)

\* There are such tables for every number of turns.
LEMMA TurnsExist ==
    ASSUME NEW t, NEW n \in Nat
    PROVE  \E w : Turns(w, t, n)
<1> DEFINE T == {x \in Nat : ~ \E w : Turns(w, t, x)}
<1>1. SUFFICES ASSUME T # {}  PROVE FALSE
  OBVIOUS
<1>2. PICK x \in T : \A y \in T : x <= y
  <2>1. T \subseteq Nat
    OBVIOUS
  <2> HIDE DEF T
  <2> QED  BY <1>1, <2>1, FirstNumber
<1>3. CASE x = 0
  <2> DEFINE w == [i \in 0..0 |-> t]
  <2>1. w = [i \in 0..0 |-> w[i]] /\ w[0] = t /\ \A i \in 1..0 : FALSE
    OBVIOUS
  <2> HIDE DEF w
  <2>2. Turns(w, t, 0)
    BY <2>1 DEF Turns
  <2> QED  BY <1>2, <1>3, <2>2
<1>4. CASE x # 0
  <2>1. x \in Nat /\ x - 1 \in Nat /\ x - 1 \notin T
    BY <1>2, <1>4
  <2>2. PICK v : Turns(v, t, x - 1)
    BY <2>1
  <2> DEFINE last == Rehash_Pair(v[x - 1], x)
             w == [i \in 0..x |-> IF i = x THEN last ELSE v[i]]
  <2> HIDE DEF last
  <2>3. /\ w = [i \in 0..x |-> w[i]]
        /\ w[x] = last /\ \A i \in 0..(x - 1) : w[i] = v[i]
    BY <2>1
  <2> HIDE DEF w
  <2>4. w[0] = t
    BY <2>1, <2>2, <2>3 DEF Turns
  <2>5. ASSUME NEW i \in 1..x  PROVE w[i] = Rehash_Pair(w[i - 1], i)
    <3>1. i - 1 \in 0..(x - 1) /\ w[i - 1] = v[i - 1]
      <4>1. i - 1 \in 0..(x - 1)
        BY <2>1
      <4>2. \A j \in 0..(x - 1) : w[j] = v[j]
        BY <2>3
      <4> QED  BY <4>1, <4>2
    <3>2. CASE i = x
      BY <2>3, <3>1, <3>2 DEF last
    <3>3. CASE i # x
      <4>1. i \in 1..(x - 1) /\ i \in 0..(x - 1)
        BY <2>1, <3>3
      <4>2. v[i] = Rehash_Pair(v[i - 1], i)
        BY <2>2, <4>1 DEF Turns
      <4> QED  BY <2>3, <3>1, <4>1, <4>2
    <3> QED  BY <3>2, <3>3
  <2>6. Turns(w, t, x)
    BY <2>3, <2>4, <2>5 DEF Turns
  <2> QED  BY <1>2, <2>6
<1> QED  BY <1>3, <1>4

\* Rehash_Map gives the last of them.
LEMMA RehashTurns ==
    ASSUME NEW t, NEW N \in Nat, N = Len(t.pairs)
    PROVE  \E w : Turns(w, t, N) /\ Rehash_Map(t) = w[N]
<1> DEFINE IsTurn(w) == w = [n \in 0..N |->
                               IF n = 0 THEN t ELSE Rehash_Pair(w[n - 1], n)]
           turn == CHOOSE w : IsTurn(w)
<1>1. Rehash_Map(t) = turn[N]
  BY DEF Rehash_Map
<1>2. PICK v : Turns(v, t, N)
  BY TurnsExist
<1>3. IsTurn(v)
  <2>1. v = [i \in 0..N |-> v[i]]
    BY <1>2 DEF Turns
  <2>2. ASSUME NEW i \in 0..N
        PROVE  v[i] = IF i = 0 THEN t ELSE Rehash_Pair(v[i - 1], i)
    <3>1. CASE i = 0
      BY <1>2, <3>1 DEF Turns
    <3>2. CASE i # 0
      <4>1. i \in 1..N
        BY <3>2
      <4> QED  BY <1>2, <3>2, <4>1 DEF Turns
    <3> QED  BY <3>1, <3>2
  <2> QED  BY <2>1, <2>2
<1>4. IsTurn(turn)
  BY <1>3
<1> HIDE DEF turn
<1>5. turn = [n \in 0..N |->
                IF n = 0 THEN t ELSE Rehash_Pair(turn[n - 1], n)]
  BY <1>4
<1>6. Turns(turn, t, N)
  <2>1. turn = [i \in 0..N |-> turn[i]]
    BY <1>5
  <2>2. turn[0] = t
    BY <1>5
  <2>3. \A i \in 1..N : turn[i] = Rehash_Pair(turn[i - 1], i)
    <3>1. \A i \in 1..N : i \in 0..N /\ i # 0
      OBVIOUS
    <3> QED  BY <1>5, <3>1
  <2> QED  BY <2>1, <2>2, <2>3 DEF Turns
<1> QED  BY <1>1, <1>6

\* A table whose slots are all free, and whose last pair is live, is one that
\* every pair has its slot in when it is rehashed; no zombies are left, and
\* nothing is lost.
LEMMA RehashIs ==
    ASSUME NEW O \in Seq(Pair), NEW L \in PrimeSizes, 2 * Len(O) < L,
           Distinct(O), O[Len(O)].val # Null
    PROVE  \E P, H : /\ Rehash_Map(Tab(O, L, Empty(L))) = Tab(P, L, H)
                     /\ Good(P, L, H) /\ AllLive(P)
                     /\ Tight(P, L, H)
                     /\ Len(P) <= Len(O) /\ Agree(O, P)
<1> DEFINE t == Tab(O, L, Empty(L))
           N == Len(O)
<1>1. N \in Nat /\ L \in Nat /\ t.pairs = O
  BY SizeIs, TabIs
<1>2. PICK w : Turns(w, t, N) /\ Rehash_Map(t) = w[N]
  <2> HIDE DEF t
  <2> QED  BY <1>1, RehashTurns
<1>3. Turned(O, L, 0, t)
  <2>1. Cardinality(Used(L, Empty(L))) = 0
    <3>1. Used(L, Empty(L)) = {}
      BY DEF Used, Empty
    <3> QED  BY <3>1, FS_EmptySet
  <2>2. Hashed(O, L, Empty(L), 0)
    <3>1. \A s \in 0..(L - 1) : Empty(L)[s] = 0
      BY <1>1 DEF Empty
    <3>2. Empty(L) \in [0..(L - 1) -> 0..0]
      BY <1>1 DEF Empty
    <3> HIDE DEF N, t
    <3>3. 0 \in 0..Len(O) /\ 2 * 0 < L /\ \A n \in 1..0 : FALSE
      BY <1>1, SizeIs DEF N
    <3> QED  BY <2>1, <3>1, <3>2, <3>3 DEF Hashed
  <2>3. LiveTo(O, 0)
    BY DEF LiveTo
  <2>4. Agree(O, O) /\ Len(O) <= Len(O)
    BY <1>1 DEF Agree
  <2> QED  BY <2>1, <2>2, <2>3, <2>4 DEF Turned
<1> HIDE DEF t
<1>4. \A i \in 0..N : Turned(O, L, i, w[i])
  <2> DEFINE T == {i \in 0..N : ~Turned(O, L, i, w[i])}
  <2> SUFFICES ASSUME T # {}  PROVE FALSE
    OBVIOUS
  <2>1. T \subseteq Nat
    BY <1>1
  <2>2. PICK x \in T : \A y \in T : x <= y
    <3> HIDE DEF T
    <3> QED  BY <2>1, FirstNumber
  <2>3. x \in 0..N /\ ~Turned(O, L, x, w[x])
    OBVIOUS
  <2>4. x # 0
    BY <1>2, <1>3, <2>3 DEF Turns
  <2>5. x - 1 \in Nat /\ x - 1 \notin T /\ x \in 1..N /\ x - 1 \in 0..N
    BY <1>1, <2>2, <2>3, <2>4
  <2>6. Turned(O, L, x - 1, w[x - 1])
    BY <2>5
  <2>7. w[x] = Rehash_Pair(w[x - 1], x) /\ x = (x - 1) + 1
    <3>1. w[x] = Rehash_Pair(w[x - 1], x)
      BY <1>2, <2>5 DEF Turns
    <3>2. x = (x - 1) + 1
      BY <2>5
    <3> QED  BY <3>1, <3>2
  <2>8. Turned(O, L, (x - 1) + 1, Rehash_Pair(w[x - 1], (x - 1) + 1))
    BY <2>5, <2>6, TurnKeeps
  <2> QED  BY <2>3, <2>7, <2>8
<1>5. PICK P, H, d :
         /\ w[N] = Tab(P, L, H) /\ Hashed(P, L, H, d)
         /\ Cardinality(Used(L, H)) <= d
         /\ d = N \/ (d = Len(P) /\ d <= N)
         /\ LiveTo(P, d)
         /\ Len(P) <= Len(O) /\ Agree(O, P)
  <2>1. Turned(O, L, N, w[N])
    BY <1>1, <1>4
  <2> QED  BY <2>1 DEF Turned
<1>6. d = Len(P)
  <2>1. d \in Nat /\ d <= Len(P) /\ Len(P) \in Nat
    BY <1>5 DEF Hashed
  <2> QED  BY <1>1, <1>5, <2>1
<1> QED  BY <1>2, <1>5, <1>6 DEF Good, AllLive, LiveTo, Tight, t

\* When a table without zombies is hashed again a turn may give a pair another
\* slot, and changes no pair.
LEMMA TurnAgain ==
    ASSUME NEW P, NEW L, NEW H, Good(P, L, H), AllLive(P),
           NEW n \in 1..Len(P), Cardinality(Used(L, H)) < Len(P) + n
    PROVE  \E G : /\ Rehash_Pair(Tab(P, L, H), n) = Tab(P, L, G)
                  /\ Good(P, L, G)
                  /\ Cardinality(Used(L, G)) <= Len(P) + n
<1> DEFINE t == Tab(P, L, H)
           N == Len(P)
           f == Find_Key_Hashed(t, P[n].key, TRUE, P[n].frozen)
           G == [H EXCEPT ![f.slot] = n]
<1>1. /\ P \in Seq(Pair) /\ N \in Nat /\ L \in PrimeSizes
      /\ Hashed(P, L, H, N) /\ 2 * N < L
      /\ N \in 1..N /\ N \in 0..N /\ P[N].val # Null
  BY DEF Good, Hashed, AllLive
<1>2. Rehash_Pair(t, n) = Trimmed([f.map EXCEPT !.hashes[f.slot] = n])
  <2>1. t.pairs = P /\ ~IsZombie(t, n) /\ ~(n > Len(P))
    <3>1. t.pairs = P
      BY TabIs
    <3> HIDE DEF t
    <3> QED  BY <1>1, <3>1 DEF IsZombie, AllLive
  <2> HIDE DEF t
  <2> QED  BY <2>1 DEF Rehash_Pair
<1>3. f.map = Tab(P, L, H) /\ CanTake(P, L, H, N, n, f.slot)
  <2>1. \A o \in 1..N : P[o].val # Null
    BY DEF AllLive
  <2>2. n <= N + 1 /\ n \in 1..Len(P)
    BY <1>1
  <2> HIDE DEF N
  <2> QED  BY <1>1, <2>1, <2>2, RehashSlot
<1> HIDE DEF f
<1>4. Hashed(P, L, G, N) /\ Cardinality(Used(L, G)) <= N + n
  <2>1. Cardinality(Used(L, H)) \in Nat /\ Cardinality(Used(L, G)) \in Nat
    BY <1>1, UsedIs
  <2>2. Cardinality(Used(L, H)) + 1 <= N + n /\ N + n <= 2 * N /\ n <= N
    BY <1>1, <2>1
  <2>3. Cardinality(Used(L, H)) + 1 <= 2 * N
    BY <1>1, <2>1, <2>2
  <2> HIDE DEF G
  <2>4. /\ Hashed(P, L, G, N)
        /\ Cardinality(Used(L, G)) <= Cardinality(Used(L, H)) + 1
    BY <1>1, <1>3, <2>2, <2>3, SlotTaken DEF G
  <2> QED  BY <1>1, <2>1, <2>2, <2>4
<1>5. [f.map EXCEPT !.hashes[f.slot] = n] = Tab(P, L, G)
  BY <1>3 DEF Tab
<1> HIDE DEF G
<1>6. Trimmed(Tab(P, L, G)) = Tab(P, L, G)
  <2>1. PICK Q \in Seq(Pair) :
           Trimmed(Tab(P, L, G)) = Tab(Q, L, G) /\ Trims(P, N, Q)
    BY <1>1, TrimmedIs
  <2>2. Q = P
    <3>1. Len(Q) = Len(P)
      BY <1>1, <2>1 DEF Trims
    <3>2. \A o \in 1..Len(P) : Q[o] = P[o]
      BY <2>1, <3>1 DEF Trims
    <3> QED  BY <1>1, <3>1, <3>2
  <2> QED  BY <2>1, <2>2
<1>7. Rehash_Pair(t, n) = Tab(P, L, G)
  BY <1>2, <1>5, <1>6
<1> QED  BY <1>4, <1>7 DEF Good

\* The table t after i turns of hashing the pairs P again.
Again(P, L, i, t) ==
    \E G : /\ t = Tab(P, L, G) /\ Good(P, L, G)
           /\ Cardinality(Used(L, G)) <= Len(P) + i

\* Hashing again a table without zombies changes no pair.
LEMMA RehashAgain ==
    ASSUME NEW P, NEW L, NEW H, Good(P, L, H), AllLive(P), Tight(P, L, H)
    PROVE  \E G : Rehash_Map(Tab(P, L, H)) = Tab(P, L, G) /\ Good(P, L, G)
<1> DEFINE t == Tab(P, L, H)
           N == Len(P)
<1>1. N \in Nat /\ t.pairs = P /\ L \in PrimeSizes
  BY TabIs DEF Good, Hashed
<1>2. Again(P, L, 0, t)
  BY <1>1 DEF Again, Tight
<1> HIDE DEF t
<1>3. PICK w : Turns(w, t, N) /\ Rehash_Map(t) = w[N]
  BY <1>1, RehashTurns
<1>4. \A i \in 0..N : Again(P, L, i, w[i])
  <2> DEFINE T == {i \in 0..N : ~Again(P, L, i, w[i])}
  <2> SUFFICES ASSUME T # {}  PROVE FALSE
    OBVIOUS
  <2>1. T \subseteq Nat
    BY <1>1
  <2>2. PICK x \in T : \A y \in T : x <= y
    <3> HIDE DEF T
    <3> QED  BY <2>1, FirstNumber
  <2>3. x \in 0..N /\ ~Again(P, L, x, w[x])
    OBVIOUS
  <2>4. x # 0
    BY <1>2, <1>3, <2>3 DEF Turns
  <2>5. x - 1 \in Nat /\ x - 1 \notin T /\ x \in 1..N /\ x - 1 \in 0..N
    BY <1>1, <2>2, <2>3, <2>4
  <2>6. PICK G : /\ w[x - 1] = Tab(P, L, G) /\ Good(P, L, G)
                 /\ Cardinality(Used(L, G)) <= N + (x - 1)
    BY <2>5 DEF Again
  <2>7. w[x] = Rehash_Pair(Tab(P, L, G), x)
    BY <1>3, <2>5, <2>6 DEF Turns
  <2>8. x \in 1..Len(P) /\ Cardinality(Used(L, G)) < Len(P) + x
    <3>1. Cardinality(Used(L, G)) \in Nat
      BY <1>1, UsedIs
    <3> QED  BY <1>1, <2>5, <2>6, <3>1
  <2>9. Again(P, L, x, Rehash_Pair(Tab(P, L, G), x))
    BY <2>6, <2>8, TurnAgain DEF Again
  <2> QED  BY <2>3, <2>7, <2>9
<1>5. Again(P, L, N, w[N])
  BY <1>1, <1>4
<1> QED  BY <1>3, <1>5 DEF Again, t

----------------------------------------------------------------------------
(* Growing.                                                                *)

\* At most one pair too many, which then is the last and live.
WellMade(P, L, H) ==
    /\ Good(P, L, H)
    /\ 2 * Len(P) <= (L \div 2) + 2
    /\ 2 * Len(P) > L \div 2 => P[Len(P)].val # Null

\* There is room for a pair.
Roomy(P, L) == 2 * Len(P) <= L \div 2

\* A larger table has room for all pairs.
LEMMA LargerIs ==
    ASSUME NEW L \in PrimeSizes, NEW q \in PrimeSizes, L < q,
           NEW n \in Nat, 2 * n <= (L \div 2) + 2
    PROVE  2 * n < q /\ 2 * n <= q \div 2
<1>1. L \in Nat /\ q \in Nat /\ L >= 7 /\ L + 4 <= q
  BY SizeIs, MapHashAssumption
<1>2. \A x \in Nat : x \div 2 \in Nat /\ x = 2 * (x \div 2) + (x % 2)
                     /\ x % 2 \in 0..1
  OBVIOUS
<1>3. PICK a \in Nat : a = L \div 2 /\ 2 * a <= L /\ L <= 2 * a + 1
  BY <1>1, <1>2
<1>4. PICK b \in Nat : b = q \div 2 /\ 2 * b <= q /\ q <= 2 * b + 1
  BY <1>1, <1>2
<1>5. a + 2 <= b
  BY <1>1, <1>3, <1>4
<1> QED  BY <1>1, <1>3, <1>4, <1>5

\* A table with room for a pair has more slots than that.
LEMMA RoomIs ==
    ASSUME NEW L \in PrimeSizes, NEW n \in Nat, 2 * n <= L \div 2
    PROVE  2 * (n + 1) < L /\ 2 * (n + 1) <= (L \div 2) + 2
<1>1. L \in Nat /\ L >= 7
  BY SizeIs
<1>2. \A x \in Nat : x \div 2 \in Nat /\ x = 2 * (x \div 2) + (x % 2)
                     /\ x % 2 \in 0..1
  OBVIOUS
<1>3. PICK a \in Nat : a = L \div 2 /\ 2 * a <= L /\ L <= 2 * a + 1
  BY <1>1, <1>2
<1> QED  BY <1>1, <1>3

\* After Grown there is room, and what was in the map still is.
LEMMA GrownIs ==
    ASSUME NEW P, NEW L, NEW H, WellMade(P, L, H),
           MayGrow(Tab(P, L, H)), NEW v
    PROVE  \E Q, q, G : /\ Grown(Tab(P, L, H), v) = Tab(Q, q, G)
                        /\ Good(Q, q, G) /\ Roomy(Q, q) /\ Agree(P, Q)
                        /\ Fresh(P, L, H) => Fresh(Q, q, G)
<1> DEFINE t == Tab(P, L, H)
<1>1. /\ P \in Seq(Pair) /\ Len(P) \in Nat /\ Distinct(P)
      /\ L \in PrimeSizes /\ L \in Nat
  BY SizeIs DEF WellMade, Good, Hashed
<1>2. t.pairs = P /\ t.len = L
  BY TabIs
<1>3. \A x \in Nat : x \div 2 \in Nat
  OBVIOUS
<1>4. CASE ~Crowded(t)
  <2>1. Grown(t, v) = t
    BY <1>4 DEF Grown
  <2>2. Roomy(P, L)
    BY <1>1, <1>2, <1>3, <1>4 DEF Crowded, Roomy
  <2>3. Agree(P, P)
    BY DEF Agree
  <2> QED  BY <2>1, <2>2, <2>3 DEF WellMade
<1>5. CASE Crowded(t)
  <2>1. Larger(t) # {} /\ Larger(t) \subseteq Nat
    BY <1>5, MapHashAssumption DEF MayGrow, Larger
  <2>2. PICK q \in Larger(t) : q = Min(Larger(t))
    BY <2>1, MinIs
  <2>3. q \in PrimeSizes /\ L < q
    BY <1>1, <1>2, <2>2, SizeIs DEF Larger
  <2>4. Grown(t, v) = Rehash_Map(Tab(P, q, Empty(q)))
    <3>1. Expand_Hash(t) = [t EXCEPT !.len = q, !.hashes = Empty(q)]
      <4> HIDE DEF t
      <4> QED  BY <2>2 DEF Expand_Hash
    <3>2. Expand_Hash(t) = Tab(P, q, Empty(q))
      BY <3>1 DEF Tab
    <3> HIDE DEF t
    <3> QED  BY <1>5, <3>2 DEF Grown
  <2>5. 2 * Len(P) > L \div 2 /\ P[Len(P)].val # Null
    BY <1>2, <1>5 DEF Crowded, WellMade
  <2>6. 2 * Len(P) < q /\ 2 * Len(P) <= q \div 2
    BY <1>1, <2>3, LargerIs DEF WellMade
  <2>7. PICK Q, G : /\ Rehash_Map(Tab(P, q, Empty(q))) = Tab(Q, q, G)
                    /\ Good(Q, q, G) /\ Fresh(Q, q, G)
                    /\ Len(Q) <= Len(P) /\ Agree(P, Q)
    BY <1>1, <2>3, <2>5, <2>6, RehashIs DEF Fresh
  <2>8. Roomy(Q, q)
    <3>1. Len(Q) \in Nat /\ q \in Nat
      BY <2>3, <2>7, SizeIs DEF Good, Hashed
    <3> QED  BY <1>1, <1>3, <2>6, <2>7, <3>1 DEF Roomy
  <2> QED  BY <2>4, <2>7, <2>8
<1> QED  BY <1>4, <1>5

----------------------------------------------------------------------------
(* The invariant.                                                          *)

\* The map is a well hashed table that has at most one pair too many; one
\* that is still being made has no zombies.
IInv ==
    /\ m = Tab(m.pairs, m.len, m.hashes)
    /\ WellMade(m.pairs, m.len, m.hashes)
    /\ making \in BOOLEAN
    /\ making => Fresh(m.pairs, m.len, m.hashes)
    /\ op \in (Keys \X BOOLEAN) \union {NoOp}

\* The next state of the map, with the pairs Q.
Becomes(Q) ==
    \E q, G : m' = Tab(Q, q, G) /\ WellMade(Q, q, G)

\* The same, with nothing removed from it yet.
BecomesFresh(Q) ==
    \E q, G : m' = Tab(Q, q, G) /\ WellMade(Q, q, G) /\ Fresh(Q, q, G)

\* A table with room is well made.
LEMMA RoomyMade ==
    ASSUME NEW P, NEW L, NEW H, Good(P, L, H), Roomy(P, L)
    PROVE  WellMade(P, L, H)
<1>1. Len(P) \in Nat /\ L \in Nat
  BY SizeIs DEF Good, Hashed
<1>2. \A x \in Nat : x \div 2 \in Nat
  OBVIOUS
<1> QED  BY <1>1, <1>2 DEF WellMade, Roomy

\* Set on a table with room leaves it well made.
LEMMA SetMade ==
    ASSUME NEW P, NEW L, NEW H, Good(P, L, H), Roomy(P, L),
           NEW k \in Keys, NEW v \in Values \union {Null},
           NEW cased \in BOOLEAN, ~Conflicting(Tab(P, L, H), k, cased)
    PROVE  \E Q, G : /\ Set(Tab(P, L, H), k, v, cased) = Tab(Q, L, G)
                     /\ WellMade(Q, L, G)
                     /\ Fresh(P, L, H) /\ v # Null => Fresh(Q, L, G)
                     /\ SetsKey(P, Q, k, v, cased)
<1>1. Len(P) \in Nat /\ L \in Nat /\ L \in PrimeSizes
  BY SizeIs DEF Good, Hashed
<1>2. 2 * (Len(P) + 1) < L /\ 2 * (Len(P) + 1) <= (L \div 2) + 2
  BY <1>1, RoomIs DEF Roomy
<1>3. PICK Q, G : SetTo(P, L, H, k, v, cased,
                        Set(Tab(P, L, H), k, v, cased), Q, G)
  BY <1>2, SetIs
<1>4. Good(Q, L, G)
  BY <1>3 DEF SetTo
<1>5. WellMade(Q, L, G)
  <2>1. CASE Len(Q) = Len(P)
    BY <1>4, <2>1, RoomyMade DEF Roomy
  <2>2. CASE Len(Q) = Len(P) + 1 /\ Q[Len(Q)].val # Null
    BY <1>2, <1>4, <2>2 DEF WellMade
  <2> QED  BY <1>3, <2>1, <2>2 DEF SetTo
<1> QED  BY <1>3, <1>5 DEF SetTo, Fresh

\* Get.
LEMMA GetIs ==
    ASSUME IInv, NEW k \in Keys, NEW cased \in BOOLEAN,
           NEW frozen \in BOOLEAN, Get(k, cased, frozen)
    PROVE  \E Q : Becomes(Q) /\ Agree(m.pairs, Q)
<1>1. PICK P, L, H : /\ m = Tab(P, L, H) /\ WellMade(P, L, H)
                     /\ P = m.pairs
  BY DEF IInv
<1>2. PICK Q, q, G : /\ Grown(Tab(P, L, H), Null) = Tab(Q, q, G)
                     /\ Good(Q, q, G) /\ Roomy(Q, q) /\ Agree(P, Q)
  BY <1>1, GrownIs DEF Get
<1>3. m' = IF Conflicting(Tab(Q, q, G), k, cased) THEN Tab(Q, q, G)
           ELSE Find_Key_Hashed(Tab(Q, q, G), k, cased, frozen).map
  BY <1>1, <1>2 DEF Get
<1>4. CASE Conflicting(Tab(Q, q, G), k, cased)
  <2>1. m' = Tab(Q, q, G)
    BY <1>3, <1>4
  <2>2. WellMade(Q, q, G)
    BY <1>2, RoomyMade
  <2> QED  BY <1>1, <1>2, <2>1, <2>2 DEF Becomes
<1>5. CASE ~Conflicting(Tab(Q, q, G), k, cased)
  <2>1. m' = Find_Key_Hashed(Tab(Q, q, G), k, cased, frozen).map
    BY <1>3, <1>5
  <2>2. PICK R : /\ Find_Key_Hashed(Tab(Q, q, G), k, cased, frozen).map
                      = Tab(R, q, G)
                 /\ Good(R, q, G) /\ Len(R) = Len(Q) /\ Agree(Q, R)
    BY <1>2, FindKeeps
  <2>3. WellMade(R, q, G)
    BY <1>2, <2>2, RoomyMade DEF Roomy
  <2>4. Agree(P, R)
    BY <1>2, <2>2 DEF Agree
  <2>5. Becomes(R)
    BY <2>1, <2>2, <2>3 DEF Becomes
  <2> QED  BY <1>1, <2>4, <2>5
<1> QED  BY <1>4, <1>5

\* What is stored in a map is stored in one with the same contents.
LEMMA SameStores ==
    ASSUME NEW O, NEW P, NEW Q, Agree(O, P), NEW k, NEW v, NEW cased,
           SetsKey(P, Q, k, v, cased)
    PROVE  SetsKey(O, Q, k, v, cased)
<1>1. CASE k \in OrderlyKeys
  <2>1. PICK s : StoredAs(P, k, s, cased) /\ Stores(P, Q, s, v)
    BY <1>1 DEF SetsKey
  <2>2. StoredAs(O, k, s, cased)
    BY <2>1 DEF Agree, StoredAs
  <2>3. Stores(O, Q, s, v)
    BY <2>1 DEF Agree, Stores
  <2> QED  BY <1>1, <2>2, <2>3 DEF SetsKey
<1>2. CASE k \notin OrderlyKeys
  BY <1>2 DEF SetsKey, Agree
<1> QED  BY <1>1, <1>2

\* Put.
LEMMA PutIs ==
    ASSUME IInv, NEW k \in Keys, NEW v \in Values \union {Null},
           NEW cased \in BOOLEAN, Put(k, v, cased)
    PROVE  \E Q : /\ Becomes(Q)
                  /\ \/ ~cased /\ Agree(m.pairs, Q)
                     \/ SetsKey(m.pairs, Q, k, v, cased)
<1>1. PICK P, L, H : /\ m = Tab(P, L, H) /\ WellMade(P, L, H)
                     /\ P = m.pairs
  BY DEF IInv
<1>2. PICK Q, q, G : /\ Grown(Tab(P, L, H), v) = Tab(Q, q, G)
                     /\ Good(Q, q, G) /\ Roomy(Q, q) /\ Agree(P, Q)
  BY <1>1, GrownIs DEF Put
<1>3. m' = IF Conflicting(Tab(Q, q, G), k, cased) THEN Tab(Q, q, G)
           ELSE Set(Tab(Q, q, G), k, v, cased)
  BY <1>1, <1>2 DEF Put
<1>4. CASE Conflicting(Tab(Q, q, G), k, cased)
  <2>1. m' = Tab(Q, q, G) /\ ~cased
    BY <1>3, <1>4 DEF Conflicting
  <2>2. WellMade(Q, q, G)
    BY <1>2, RoomyMade
  <2> QED  BY <1>1, <1>2, <2>1, <2>2 DEF Becomes
<1>5. CASE ~Conflicting(Tab(Q, q, G), k, cased)
  <2>1. m' = Set(Tab(Q, q, G), k, v, cased)
    BY <1>3, <1>5
  <2>2. PICK R, F : /\ Set(Tab(Q, q, G), k, v, cased) = Tab(R, q, F)
                    /\ WellMade(R, q, F)
                    /\ SetsKey(Q, R, k, v, cased)
    BY <1>2, <1>5, SetMade
  <2>3. SetsKey(P, R, k, v, cased)
    BY <1>2, <2>2, SameStores
  <2>4. Becomes(R)
    BY <2>1, <2>2 DEF Becomes
  <2> QED  BY <1>1, <2>3, <2>4
<1> QED  BY <1>4, <1>5

\* Append_Map.
LEMMA AppendIs ==
    ASSUME IInv, NEW k \in Keys, NEW v \in Values, Append_Map(k, v)
    PROVE  \E Q : /\ BecomesFresh(Q)
                  /\ SetsKey(m.pairs, Q, k, v, TRUE)
<1>1. PICK P, L, H : /\ m = Tab(P, L, H) /\ WellMade(P, L, H)
                     /\ P = m.pairs /\ Fresh(P, L, H)
  BY DEF IInv, Append_Map
<1>2. PICK Q, q, G : /\ Grown(Tab(P, L, H), v) = Tab(Q, q, G)
                     /\ Good(Q, q, G) /\ Roomy(Q, q) /\ Agree(P, Q)
                     /\ Fresh(Q, q, G)
  BY <1>1, GrownIs DEF Append_Map
<1>3. m' = Set(Tab(Q, q, G), k, v, TRUE)
  BY <1>1, <1>2 DEF Append_Map
<1>4. v \in Values \union {Null} /\ v # Null
  BY MapHashAssumption
<1>5. ~Conflicting(Tab(Q, q, G), k, TRUE) /\ TRUE \in BOOLEAN
  BY DEF Conflicting
<1>6. PICK R, F : /\ Set(Tab(Q, q, G), k, v, TRUE) = Tab(R, q, F)
                  /\ WellMade(R, q, F) /\ Fresh(R, q, F)
                  /\ SetsKey(Q, R, k, v, TRUE)
  BY <1>2, <1>4, <1>5, SetMade
<1>7. SetsKey(P, R, k, v, TRUE)
  BY <1>2, <1>6, SameStores
<1>8. BecomesFresh(R)
  BY <1>3, <1>6 DEF BecomesFresh
<1> QED  BY <1>1, <1>7, <1>8

\* TO_Map.
LEMMA TO_MapIs ==
    ASSUME IInv, TO_Map
    PROVE  Becomes(m.pairs)
<1>1. PICK P, L, H : /\ m = Tab(P, L, H) /\ WellMade(P, L, H)
                     /\ P = m.pairs /\ Fresh(P, L, H)
  BY DEF IInv, TO_Map
<1>2. PICK G : Rehash_Map(Tab(P, L, H)) = Tab(P, L, G) /\ Good(P, L, G)
  BY <1>1, RehashAgain DEF WellMade, Fresh
<1>3. m' = Tab(P, L, G) /\ WellMade(P, L, G)
  BY <1>1, <1>2 DEF TO_Map, WellMade
<1> QED  BY <1>1, <1>3 DEF Becomes

\* An empty list, with no slot used.
LEMMA EmptyMade ==
    ASSUME NEW L \in PrimeSizes
    PROVE  WellMade(<< >>, L, Empty(L)) /\ Fresh(<< >>, L, Empty(L))
<1>1. L \in Nat /\ L >= 7
  BY SizeIs
<1>2. /\ \A s \in 0..(L - 1) : Empty(L)[s] = 0
      /\ Empty(L) \in [0..(L - 1) -> 0..0]
  BY <1>1 DEF Empty
<1>3. /\ << >> \in Seq(Pair) /\ Len(<< >>) = 0
      /\ 0 \in 0..0 /\ 2 * 0 < L /\ \A n \in 1..0 : FALSE
  BY <1>1
<1>4. Distinct(<< >>) /\ AllLive(<< >>)
  BY <1>3 DEF Distinct, AllLive
<1>5. Cardinality(Used(L, Empty(L))) = 0
  <2>1. Used(L, Empty(L)) = {}
    BY <1>2 DEF Used
  <2> QED  BY <2>1, FS_EmptySet
<1>6. Good(<< >>, L, Empty(L))
  BY <1>2, <1>3, <1>4, <1>5 DEF Good, Hashed
<1>7. Roomy(<< >>, L)
  <2>1. \A x \in Nat : x \div 2 \in Nat
    OBVIOUS
  <2> QED  BY <1>1, <1>3, <2>1 DEF Roomy
<1>8. Tight(<< >>, L, Empty(L))
  BY <1>3, <1>5 DEF Tight
<1> QED  BY <1>4, <1>7, <1>6, <1>8, RoomyMade DEF Fresh

\* Clear.
LEMMA ClearIs ==
    ASSUME IInv, Clear
    PROVE  Becomes(<< >>)
<1>1. PICK P, L, H : m = Tab(P, L, H) /\ L = m.len /\ L \in PrimeSizes
  BY DEF IInv, WellMade, Good, Hashed
<1>2. m' = Tab(<< >>, L, Empty(L))
  <2>1. m' = [m EXCEPT !.pairs = << >>, !.hashes = Empty(L)]
    BY <1>1 DEF Clear
  <2> QED  BY <1>1, <2>1 DEF Tab
<1>3. WellMade(<< >>, L, Empty(L))
  BY <1>1, EmptyMade
<1> QED  BY <1>2, <1>3 DEF Becomes

\* Make_Map.
LEMMA InitInv == Init => IInv
<1> SUFFICES ASSUME Init  PROVE IInv
  OBVIOUS
<1>1. PICK L \in PrimeSizes : L = Min(PrimeSizes)
  BY MinIs, MapHashAssumption
<1>2. m = Tab(<< >>, L, Empty(L))
  BY <1>1 DEF Init, Tab
<1>3. WellMade(<< >>, L, Empty(L)) /\ Fresh(<< >>, L, Empty(L))
  BY EmptyMade
<1>4. m.pairs = << >> /\ m.len = L /\ m.hashes = Empty(L)
  BY <1>2, TabIs
<1> QED  BY <1>2, <1>3, <1>4 DEF Init, IInv

\* The next state satisfies the part of the invariant about the table.
LEMMA BecomesIs ==
    ASSUME NEW Q, Becomes(Q)
    PROVE  /\ m'.pairs = Q
           /\ m' = Tab(m'.pairs, m'.len, m'.hashes)
           /\ WellMade(m'.pairs, m'.len, m'.hashes)
<1>1. PICK q, G : m' = Tab(Q, q, G) /\ WellMade(Q, q, G)
  BY DEF Becomes
<1>2. m'.pairs = Q /\ m'.len = q /\ m'.hashes = G
  BY <1>1, TabIs
<1> QED  BY <1>1, <1>2

\* And so does one that nothing was removed from.
LEMMA FreshIs ==
    ASSUME NEW Q, BecomesFresh(Q)
    PROVE  Becomes(Q) /\ Fresh(m'.pairs, m'.len, m'.hashes)
<1>1. PICK q, G : m' = Tab(Q, q, G) /\ WellMade(Q, q, G) /\ Fresh(Q, q, G)
  BY DEF BecomesFresh
<1>2. m'.pairs = Q /\ m'.len = q /\ m'.hashes = G
  BY <1>1, TabIs
<1> QED  BY <1>1, <1>2 DEF Becomes

\* Every action keeps the invariant.
LEMMA NextInv ==
    ASSUME IInv, [Next]_vars
    PROVE  IInv'
<1>1. ASSUME NEW Q, Becomes(Q), making' \in BOOLEAN,
             making' => BecomesFresh(Q),
             op' \in (Keys \X BOOLEAN) \union {NoOp}
      PROVE  IInv'
  BY <1>1, BecomesIs, FreshIs DEF IInv
<1>2. making \in BOOLEAN /\ op \in (Keys \X BOOLEAN) \union {NoOp}
  BY DEF IInv
<1>3. ASSUME NEW k \in Keys, NEW cased \in BOOLEAN, NEW frozen \in BOOLEAN,
             Get(k, cased, frozen)
      PROVE  IInv'
  <2>1. PICK Q : Becomes(Q)
    BY <1>3, GetIs
  <2>2. making' = FALSE /\ op' = NoOp
    BY <1>2, <1>3 DEF Get
  <2> QED  BY <1>1, <2>1, <2>2
<1>4. ASSUME NEW k \in Keys, NEW v \in Values \union {Null},
             NEW cased \in BOOLEAN, Put(k, v, cased)
      PROVE  IInv'
  <2>1. PICK Q : Becomes(Q)
    BY <1>4, PutIs
  <2>2. making' = FALSE /\ op' \in Keys \X BOOLEAN
    BY <1>2, <1>4 DEF Put
  <2> QED  BY <1>1, <2>1, <2>2
<1>5. ASSUME NEW k \in Keys, NEW v \in Values, Append_Map(k, v)
      PROVE  IInv'
  <2>1. PICK Q : Becomes(Q) /\ BecomesFresh(Q)
    BY <1>5, AppendIs, FreshIs
  <2>2. making' = making /\ op' \in Keys \X BOOLEAN
    BY <1>5 DEF Append_Map
  <2> QED  BY <1>1, <1>2, <2>1, <2>2
<1>6. ASSUME TO_Map  PROVE IInv'
  <2>1. Becomes(m.pairs)
    BY <1>6, TO_MapIs
  <2>2. making' = FALSE /\ op' = NoOp
    BY <1>6 DEF TO_Map
  <2> QED  BY <1>1, <2>1, <2>2
<1>7. ASSUME Clear  PROVE IInv'
  <2>1. Becomes(<< >>)
    BY <1>7, ClearIs
  <2>2. making' = FALSE /\ op' = NoOp
    BY <1>2, <1>7 DEF Clear
  <2> QED  BY <1>1, <2>1, <2>2
<1>8. ASSUME UNCHANGED vars  PROVE IInv'
  BY <1>8 DEF IInv, vars
<1> QED  BY <1>3, <1>4, <1>5, <1>6, <1>7, <1>8 DEF Next

\* The invariant holds in every state.
THEOREM Invariance == Spec => []IInv
<1>1. IInv /\ [Next]_vars => IInv'
  BY NextInv
<1> QED  BY <1>1, InitInv, PTL DEF Spec

----------------------------------------------------------------------------
(* Theorems.                                                               *)

\* A search for the key of the n-th pair finds the pair.
FoundIn(t, n) ==
    LET f == Find_Key_Hashed(t, t.pairs[n].key, TRUE, TRUE)
    IN  f.map = t /\ t.hashes[f.slot] = n

\* In a well hashed table a search for an orderly key of a pair finds it.
LEMMA FindsIt ==
    ASSUME NEW P, NEW L, NEW H, Good(P, L, H), NEW n \in 1..Len(P),
           P[n].key \in OrderlyKeys
    PROVE  FoundIn(Tab(P, L, H), n)
<1> DEFINE d == Len(P)
           k == P[n].key
           f == Find_Key_Hashed(Tab(P, L, H), k, TRUE, TRUE)
<1>1. /\ P \in Seq(Pair) /\ d \in Nat /\ Distinct(P)
      /\ Hashed(P, L, H, d) /\ H \in [0..(L - 1) -> 0..d]
  BY DEF Good, Hashed
<1>2. k \in Keys /\ TRUE \in BOOLEAN
  BY <1>1, PairIs
<1>3. \/ FindsMatch(P, L, H, d, k, TRUE, f)
      \/ Unmatched(P, d, k, TRUE)
  <2> HIDE DEF k, d
  <2> QED  BY <1>1, <1>2, FindIs
<1>4. Equal(P[n].key, k, TRUE) /\ k \in OrderlyKeys
  BY EqualsItself
<1> HIDE DEF f
<1>5. PICK o \in 1..d : /\ Equal(P[o].key, k, TRUE)
                        /\ f.map = Tab(P, L, H)
                        /\ f.slot \in 0..(L - 1) /\ H[f.slot] = o
  <2>1. FindsMatch(P, L, H, d, k, TRUE, f)
    BY <1>3, <1>4 DEF Unmatched
  <2> QED  BY <2>1 DEF FindsMatch
<1>6. o = n
  <2>1. P[o].key \in Keys /\ o \in 1..Len(P)
    BY <1>1, PairIs
  <2>2. P[o].key = k
    BY <1>2, <1>4, <1>5, <2>1, EqualOrderly
  <2> QED  BY <1>1, <1>4, <2>1, <2>2 DEF Distinct
<1>7. /\ Tab(P, L, H).pairs = P /\ Tab(P, L, H).hashes = H
      /\ f = Find_Key_Hashed(Tab(P, L, H), P[n].key, TRUE, TRUE)
  BY TabIs DEF f
<1> QED  BY <1>5, <1>6, <1>7 DEF FoundIn

\* Whatever keys are in the map and however they compare and hash: no orderly
\* key of it is lost, through removals, renamed zombies and growing tables.
THEOREM KeyAlwaysFound == Spec => []KeyFound
<1>1. IInv => KeyFound
  <2> SUFFICES ASSUME IInv  PROVE KeyFound
    OBVIOUS
  <2>1. PICK P, L, H : /\ m = Tab(P, L, H) /\ Good(P, L, H)
                       /\ m.pairs = P /\ m.len = L /\ m.hashes = H
    BY DEF IInv, WellMade
  <2>2. TypeOK
    BY <2>1 DEF TypeOK, IInv, Good, Hashed
  <2>3. ASSUME NEW n \in 1..Len(m.pairs), m.pairs[n].key \in OrderlyKeys
        PROVE  FoundIn(m, n)
    <3>1. n \in 1..Len(P) /\ P[n].key \in OrderlyKeys
      BY <2>1, <2>3
    <3>2. FoundIn(Tab(P, L, H), n)
      BY <2>1, <3>1, FindsIt
    <3> QED  BY <2>1, <3>2
  <2> QED  BY <2>2, <2>3 DEF KeyFound, FoundIn
<1> QED  BY <1>1, Invariance, PTL

\* When the table has to grow the last pair is not a zombie, so that
\* Rehash_Map has a pair to fill a gap with and stops at the list's start.
THEOREM LastAlwaysLive == Spec => []RehashHasLive
<1>1. IInv => RehashHasLive
  BY DEF IInv, WellMade, RehashHasLive, Crowded, IsZombie
<1> QED  BY <1>1, Invariance, PTL

----------------------------------------------------------------------------
(* Refinement.                                                             *)

\* The finite map f has the orderly keys and the values of the pairs P.
IsMapOf(f, P) ==
    /\ f = [k \in DOMAIN f |-> f[k]]
    /\ \A k : k \in DOMAIN f <=> \E v : Has(P, k, v)
    /\ \A k, v : Has(P, k, v) => k \in OrderlyKeys /\ f[k] = v

\* Contents is that of the pairs.
LEMMA ContentsIs == IInv => IsMapOf(Contents, m.pairs)
<1> SUFFICES ASSUME IInv  PROVE IsMapOf(Contents, m.pairs)
  OBVIOUS
<1>1. PICK P : P = m.pairs /\ P \in Seq(Pair) /\ Distinct(P)
  BY DEF IInv, WellMade, Good, Hashed
<1>2. LiveOrderly = {n \in 1..Len(P) : /\ P[n].val # Null
                                      /\ P[n].key \in OrderlyKeys}
  BY <1>1 DEF LiveOrderly, Live, IsZombie
<1> DEFINE D == {P[n].key : n \in LiveOrderly}
           C == [k \in D |-> P[CHOOSE n \in LiveOrderly : P[n].key = k].val]
<1>3. Contents = C
  BY <1>1 DEF Contents
<1>4. \A n \in LiveOrderly : P[n].key \in OrderlyKeys
  BY <1>1, <1>2, PairIs
<1>5. \A k : k \in D <=> \E v : Has(P, k, v)
  BY <1>2 DEF Has
<1>6. ASSUME NEW k, NEW v, Has(P, k, v)  PROVE k \in OrderlyKeys /\ C[k] = v
  <2>1. PICK n \in LiveOrderly : P[n].key = k /\ P[n].val = v
    BY <1>2, <1>6 DEF Has
  <2>2. k \in D
    BY <2>1
  <2>3. PICK o \in LiveOrderly : o = CHOOSE x \in LiveOrderly : P[x].key = k
    BY <2>1
  <2>4. P[o].key = k
    BY <2>1, <2>3
  <2>5. o = n
    BY <1>1, <1>2, <2>1, <2>4 DEF Distinct
  <2>6. C[k] = P[o].val
    BY <2>2, <2>3
  <2> QED  BY <1>4, <2>1, <2>5, <2>6
<1>7. DOMAIN C = D /\ C = [k \in DOMAIN C |-> C[k]]
  OBVIOUS
<1> HIDE DEF C
<1>8. IsMapOf(C, P)
  BY <1>5, <1>6, <1>7 DEF IsMapOf
<1> QED  BY <1>1, <1>3, <1>8

\* The same pairs make the same finite map.
LEMMA SameMap ==
    ASSUME NEW P, NEW Q, NEW f, NEW g, IsMapOf(f, P), IsMapOf(g, Q),
           Agree(P, Q)
    PROVE  g = f
<1>1. DOMAIN g = DOMAIN f
  BY DEF IsMapOf, Agree
<1>2. \A k \in DOMAIN f : g[k] = f[k]
  BY <1>1 DEF IsMapOf, Agree
<1>3. f = [k \in DOMAIN f |-> f[k]] /\ g = [k \in DOMAIN g |-> g[k]]
  BY DEF IsMapOf
<1> QED  BY <1>1, <1>2, <1>3

\* The finite map f with the value v for s.
With(f, s, v) == [q \in DOMAIN f \union {s} |-> IF q = s THEN v ELSE f[q]]

\* Storing a value is storing it in the finite map.
LEMMA StoredMap ==
    ASSUME NEW P, NEW Q, NEW f, NEW g, IsMapOf(f, P), IsMapOf(g, Q),
           NEW s, NEW v, v # Null, Stores(P, Q, s, v)
    PROVE  g = With(f, s, v)
<1>1. DOMAIN g = DOMAIN f \union {s}
  BY DEF IsMapOf, Stores
<1>2. ASSUME NEW q \in DOMAIN g
      PROVE  g[q] = IF q = s THEN v ELSE f[q]
  <2>1. PICK w : Has(Q, q, w)
    BY DEF IsMapOf
  <2>2. g[q] = w
    BY <2>1 DEF IsMapOf
  <2>3. CASE q = s
    BY <2>1, <2>2, <2>3 DEF Stores
  <2>4. CASE q # s
    <3>1. Has(P, q, w)
      BY <2>1, <2>4 DEF Stores
    <3> QED  BY <2>2, <2>4, <3>1 DEF IsMapOf
  <2> QED  BY <2>3, <2>4
<1>3. g = [k \in DOMAIN g |-> g[k]]
  BY DEF IsMapOf
<1> QED  BY <1>1, <1>2, <1>3 DEF With

\* Removing a value is removing it from the finite map.
LEMMA RemovedMap ==
    ASSUME NEW P, NEW Q, NEW f, NEW g, IsMapOf(f, P), IsMapOf(g, Q),
           NEW s, Stores(P, Q, s, Null)
    PROVE  g = [q \in DOMAIN f \ {s} |-> f[q]]
<1>1. DOMAIN g = DOMAIN f \ {s}
  BY DEF IsMapOf, Stores
<1>2. ASSUME NEW q \in DOMAIN g  PROVE g[q] = f[q]
  <2>1. PICK w : Has(Q, q, w)
    BY DEF IsMapOf
  <2>2. q # s /\ Has(P, q, w)
    BY <2>1 DEF Stores
  <2> QED  BY <2>1, <2>2 DEF IsMapOf
<1>3. g = [k \in DOMAIN g |-> g[k]]
  BY DEF IsMapOf
<1> QED  BY <1>1, <1>2, <1>3

\* No pairs make the map with nothing in it.
LEMMA NothingMap ==
    ASSUME NEW f, IsMapOf(f, << >>)
    PROVE  f = Abstract!Nothing
<1>1. \A k, v : ~Has(<< >>, k, v)
  <2>1. \A n \in 1..Len(<< >>) : FALSE
    OBVIOUS
  <2> QED  BY <2>1 DEF Has
<1>2. DOMAIN f = {}
  BY <1>1 DEF IsMapOf
<1>3. f = [k \in DOMAIN f |-> f[k]]
  BY DEF IsMapOf
<1> QED  BY <1>2, <1>3 DEF Abstract!Nothing

\* The key a value is stored under is one that FiniteMap allows.
LEMMA StoredMay ==
    ASSUME NEW P, IsMapOf(Contents, P), NEW k \in OrderlyKeys,
           NEW cased \in BOOLEAN, NEW s, StoredAs(P, k, s, cased)
    PROVE  s \in OrderlyKeys /\ Abstract!MayStore(k, s, cased)
<1>1. s \in OrderlyKeys
  BY DEF StoredAs
<1>2. CASE cased
  BY <1>1, <1>2 DEF StoredAs, Abstract!MayStore
<1>3. CASE ~cased
  <2>1. Abstract!Synonyms(k) = {q \in OrderlyKeys : Class(q) = Class(k)}
    BY DEF Abstract!Synonyms, Classes
  <2>2. s \in Abstract!Synonyms(k)
    <3>1. s \in Class(k)
      BY <1>3 DEF StoredAs
    <3> QED  BY <1>1, <2>1, <3>1, ClassIs
  <2>3. ASSUME NEW q \in DOMAIN Contents, q \in Abstract!Synonyms(k)
        PROVE  q = s
    <3>1. q \in Class(k)
      BY <2>1, <2>3 DEF OrderlyKeys, Orderly
    <3> QED  BY <1>3, <3>1 DEF StoredAs, IsMapOf
  <2>4. Abstract!Synonyms(k) \intersect Abstract!Present \subseteq {s}
    BY <2>3 DEF Abstract!Present
  <2> QED  BY <1>1, <1>3, <2>2, <2>4 DEF Abstract!MayStore
<1> QED  BY <1>2, <1>3

\* A map that is made has nothing in it.
LEMMA InitImplements ==
    ASSUME Init, IsMapOf(Contents, m.pairs)
    PROVE  Abstract!Init
<1>1. m.pairs = << >>
  BY DEF Init
<1>2. Contents = Abstract!Nothing
  BY <1>1, NothingMap
<1> QED  BY <1>2 DEF Init, About, Abstract!Init

\* Every action is one of FiniteMap: Put a Put, a Remove or a Refuse if it is
\* about an orderly key; if it is not, or only looks something up, it leaves
\* the map as it is.
LEMMA StepImplements ==
    ASSUME IInv, IInv', [Next]_vars,
           IsMapOf(Contents, m.pairs), IsMapOf(Contents', m'.pairs)
    PROVE  [Abstract!Next]_(Abstract!vars)
<1>1. ASSUME NEW Q, Becomes(Q), Agree(m.pairs, Q)
      PROVE  Contents' = Contents
  <2>1. m'.pairs = Q
    BY <1>1, BecomesIs
  <2> QED  BY <1>1, <2>1, SameMap
<1>2. ASSUME NEW k \in OrderlyKeys, NEW v \in Values, NEW cased \in BOOLEAN,
             NEW Q, Becomes(Q), NEW s, StoredAs(m.pairs, k, s, cased),
             Stores(m.pairs, Q, s, v), op' = <<k, cased>>
      PROVE  Abstract!Next
  <2>1. m'.pairs = Q /\ v # Null
    BY <1>2, BecomesIs, MapHashAssumption
  <2>2. s \in OrderlyKeys /\ Abstract!MayStore(k, s, cased)
    BY <1>2, StoredMay
  <2>3. Contents' = With(Contents, s, v)
    <3>1. /\ IsMapOf(Contents', Q) /\ Stores(m.pairs, Q, s, v)
          /\ v # Null
      BY <1>2, <2>1
    <3> QED  BY <3>1, StoredMap
  <2>4. Abstract!Put(k, v, cased)
    <3>1. About' = <<k, cased>>
      BY <1>2 DEF About
    <3> QED  BY <2>2, <2>3, <3>1 DEF Abstract!Put, Abstract!Present, With
  <2> QED  BY <2>4 DEF Abstract!Next
<1>3. ASSUME NEW k \in OrderlyKeys, NEW cased \in BOOLEAN,
             NEW Q, Becomes(Q), NEW s, StoredAs(m.pairs, k, s, cased),
             Stores(m.pairs, Q, s, Null), op' = <<k, cased>>
      PROVE  Abstract!Next
  <2>1. m'.pairs = Q
    BY <1>3, BecomesIs
  <2>2. s \in OrderlyKeys /\ Abstract!MayStore(k, s, cased)
    BY <1>3, StoredMay
  <2>3. Contents' = [q \in DOMAIN Contents \ {s} |-> Contents[q]]
    BY <1>3, <2>1, RemovedMap
  <2>4. Abstract!Remove(k, cased)
    <3>1. About' = <<k, cased>>
      BY <1>3 DEF About
    <3> QED  BY <2>2, <2>3, <3>1 DEF Abstract!Remove, Abstract!Present
  <2> QED  BY <2>4 DEF Abstract!Next
<1>4. ASSUME NEW k, k \notin OrderlyKeys, NEW cased, op' = <<k, cased>>,
             Contents' = Contents
       PROVE  Abstract!Next
  <2>1. About' = NoOp
    BY <1>4 DEF About
  <2> QED  BY <1>4, <2>1 DEF Abstract!Next, Abstract!Get
<1>5. ASSUME NEW k \in Keys, NEW cased \in BOOLEAN, NEW frozen \in BOOLEAN,
             Get(k, cased, frozen)
      PROVE  Abstract!Next
  <2>1. Contents' = Contents
    BY <1>1, <1>5, GetIs
  <2>2. About' = NoOp
    BY <1>5 DEF Get, About
  <2> QED  BY <2>1, <2>2 DEF Abstract!Next, Abstract!Get
<1>6. ASSUME NEW k \in Keys, NEW v \in Values \union {Null},
             NEW cased \in BOOLEAN, Put(k, v, cased)
      PROVE  Abstract!Next
  <2>1. PICK Q : /\ Becomes(Q)
                 /\ \/ ~cased /\ Agree(m.pairs, Q)
                    \/ SetsKey(m.pairs, Q, k, v, cased)
    BY <1>6, PutIs
  <2>2. op' = <<k, cased>>
    BY <1>6 DEF Put
  <2>3. CASE ~cased /\ Agree(m.pairs, Q) /\ k \in OrderlyKeys
    <3>1. Contents' = Contents
      BY <1>1, <2>1, <2>3
    <3>2. About' = <<k, FALSE>>
      BY <2>2, <2>3 DEF About
    <3> QED  BY <2>3, <3>1, <3>2 DEF Abstract!Next, Abstract!Refuse
  <2>4. CASE SetsKey(m.pairs, Q, k, v, cased) /\ k \in OrderlyKeys
    <3>1. PICK s : StoredAs(m.pairs, k, s, cased) /\ Stores(m.pairs, Q, s, v)
      BY <2>4 DEF SetsKey
    <3>2. CASE v \in Values
      BY <1>2, <2>1, <2>2, <2>4, <3>1, <3>2
    <3>3. CASE v = Null
      BY <1>3, <2>1, <2>2, <2>4, <3>1, <3>3
    <3> QED  BY <3>2, <3>3
  <2>5. CASE k \notin OrderlyKeys
    <3>1. Contents' = Contents
      BY <1>1, <2>1, <2>5 DEF SetsKey
    <3> QED  BY <1>4, <2>2, <2>5, <3>1
  <2> QED  BY <2>1, <2>3, <2>4, <2>5
<1>7. ASSUME NEW k \in Keys, NEW v \in Values, Append_Map(k, v)
      PROVE  Abstract!Next
  <2>1. PICK Q : Becomes(Q) /\ SetsKey(m.pairs, Q, k, v, TRUE)
    BY <1>7, AppendIs, FreshIs
  <2>2. op' = <<k, TRUE>> /\ TRUE \in BOOLEAN
    BY <1>7 DEF Append_Map
  <2>3. CASE k \in OrderlyKeys
    <3>1. PICK s : StoredAs(m.pairs, k, s, TRUE) /\ Stores(m.pairs, Q, s, v)
      BY <2>1, <2>3 DEF SetsKey
    <3> QED  BY <1>2, <2>1, <2>2, <2>3, <3>1
  <2>4. CASE k \notin OrderlyKeys
    <3>1. Contents' = Contents
      BY <1>1, <2>1, <2>4 DEF SetsKey
    <3> QED  BY <1>4, <2>2, <2>4, <3>1
  <2> QED  BY <2>3, <2>4
<1>8. ASSUME TO_Map  PROVE Abstract!Next
  <2>1. m'.pairs = m.pairs
    BY <1>8, TO_MapIs, BecomesIs
  <2>2. Agree(m.pairs, m'.pairs)
    BY <2>1 DEF Agree
  <2>3. Contents' = Contents
    BY <2>2, SameMap
  <2>4. About' = NoOp
    BY <1>8 DEF TO_Map, About
  <2> QED  BY <2>3, <2>4 DEF Abstract!Next, Abstract!Get
<1>9. ASSUME Clear  PROVE Abstract!Next
  <2>1. m'.pairs = << >>
    BY <1>9, ClearIs, BecomesIs
  <2>2. Contents' = Abstract!Nothing
    BY <2>1, NothingMap
  <2>3. About' = NoOp
    BY <1>9 DEF Clear, About
  <2> QED  BY <2>2, <2>3 DEF Abstract!Next, Abstract!Clear
<1>10. ASSUME UNCHANGED vars  PROVE UNCHANGED Abstract!vars
  <2>1. Agree(m.pairs, m'.pairs)
    BY <1>10 DEF vars, Agree
  <2>2. Contents' = Contents
    BY <2>1, SameMap
  <2> QED  BY <1>10, <2>2 DEF vars, About, Abstract!vars
<1> QED  BY <1>5, <1>6, <1>7, <1>8, <1>9, <1>10 DEF Next

\* For any keys, however they compare and hash, and any table sizes a MAP! is
\* to its users a finite map of its orderly keys: each operation changes what
\* it is about and nothing else, and no such key or value is lost, doubled or
\* comes back when the table grows, whatever happens to the other keys.
THEOREM MapImplemented == Spec => ImplementsMap
<1> DEFINE Agrees == IsMapOf(Contents, m.pairs)
<1>1. IInv => Agrees
  BY ContentsIs
<1>2. Init /\ Agrees => Abstract!Init
  BY InitImplements
<1>3. IInv /\ Agrees /\ IInv' /\ Agrees' /\ [Next]_vars
         => [Abstract!Next]_(Abstract!vars)
  BY StepImplements
<1> HIDE DEF Agrees
<1> QED  BY <1>1, <1>2, <1>3, Invariance, PTL
         DEF Spec, ImplementsMap, Abstract!Spec
============================================================================
