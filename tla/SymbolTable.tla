---------------------------- MODULE SymbolTable ----------------------------
(***************************************************************************)
(* The table of interned words: PG_Canons_By_Hash and the rings of         *)
(* synonyms.                                                               *)
(*                                                                         *)
(* The table has one slot per canon, found by probing from the hash of a   *)
(* spelling; the other casings hang off the canon in a circular list.  A   *)
(* word that is garbage collected is cut out of its ring; a dead canon     *)
(* hands its slot to the next in the ring, and the last of a ring leaves   *)
(* the slot marked as deleted, which a probe passes over and an insertion  *)
(* reuses.  Rehashing into a larger table drops the deleted slots.         *)
(*                                                                         *)
(* The hash of a word is meant not to depend on case, but Hash_UTF8 starts *)
(* it from the number of bytes and the first byte of the UTF-8, which case *)
(* may change beyond ASCII.  Then the casings of a word can be in several  *)
(* rings, and a string can sit in a slot that its hash does not lead to.   *)
(* What interning promises is stated for the classes whose spellings hash  *)
(* alike, in a table that they share with such words.                      *)
(*                                                                         *)
(* An interning is a pair of its spelling and a number that tells copies   *)
(* apart.                                                                  *)
(***************************************************************************)
EXTENDS Naturals, FiniteSets

CONSTANTS
    Spellings,   \* the texts of words
    Classes,     \* spellings up to case
    Fold,        \* the class of a spelling
    Hash,        \* Hash_UTF8 of a spelling
    Words,       \* the words of %words.r, which are never collected
    PrimeSizes,  \* the prime sizes a table can grow to
    StartSlots,  \* the first size: 1 in a debug build
    MaxCopies,   \* bound on the copies of one spelling
    NoSpelling,
    Null,        \* a vacant slot
    Deleted      \* DELETED_CANON

ASSUME SymbolTableAssumption ==
    /\ Fold \in [Spellings -> Classes]
    /\ Hash \in [Spellings -> Nat]
    /\ Words \subseteq Spellings
    /\ \E v, w \in Words : v # w
    /\ PrimeSizes \subseteq Nat
    /\ \A p \in PrimeSizes : p >= 7
    /\ \A p, q \in PrimeSizes : p < q => p + 2 <= q
    /\ StartSlots \in PrimeSizes \union {1}
    /\ MaxCopies \in Nat \ {0}
    /\ NoSpelling \notin Spellings
    /\ Null \notin Spellings \X (1..MaxCopies)
    /\ Deleted \notin Spellings \X (1..MaxCopies)
    /\ Null # Deleted

VARIABLES
    phase,     \* "idle", "rehash", "search" or "down"
    wanted,    \* the spelling being interned
    slots,     \* PG_Canons_By_Hash, numbered from 0
    numSlots,  \* its length
    inUse,     \* PG_Num_Canon_Slots_In_Use
    deleteds,  \* PG_Num_Canon_Deleteds
    grown,     \* the table being built by Expand_Word_Table
    grownSize, \* its length
    oldSlot,   \* the next slot it takes over
    live,      \* the internings that exist
    synonym,   \* LINK_SYNONYM
    canons,    \* those with STRING_CANON
    doomed     \* not marked by the collection that is sweeping

vars == <<phase, wanted, slots, numSlots, inUse, deleteds, grown, grownSize,
          oldSlot, live, synonym, canons, doomed>>
table == <<slots, numSlots, inUse, deleteds>>
growth == <<grown, grownSize, oldSlot>>
rings == <<live, synonym, canons>>

Strings == Spellings \X (1..MaxCopies)
Spell(x) == x[1]
Class(x) == Fold[x[1]]
Slot == Strings \union {Null, Deleted}

Spelled == {Spell(x) : x \in live}
Free(n) == [i \in 0..(n - 1) |-> Null]

TypeOK ==
    /\ phase \in {"idle", "rehash", "search", "down"}
    /\ wanted \in Spellings \union {NoSpelling}
    /\ wanted \in Spellings <=> phase \in {"rehash", "search"}
    /\ numSlots \in PrimeSizes \union {1}
    /\ slots \in [0..(numSlots - 1) -> Slot]
    /\ inUse \in Nat
    /\ deleteds \in Nat
    /\ grownSize \in PrimeSizes \union {1}
    /\ grown \in [0..(grownSize - 1) -> Slot]
    /\ oldSlot \in 0..numSlots
    /\ live \subseteq Strings
    /\ synonym \in [Strings -> Strings]
    /\ canons \subseteq live
    /\ doomed \subseteq live

\* Startup_Interning.
Init ==
    /\ phase = "idle"
    /\ wanted = NoSpelling
    /\ slots = Free(StartSlots)
    /\ numSlots = StartSlots
    /\ inUse = 0
    /\ deleteds = 0
    /\ grown = Free(1)
    /\ grownSize = 1
    /\ oldSlot = 0
    /\ live = {}
    /\ synonym = [x \in Strings |-> x]
    /\ canons = {}
    /\ doomed = {}

----------------------------------------------------------------------------
(* Probing.                                                                *)

Least(S) == CHOOSE i \in S : \A j \in S : i <= j
Greatest(S) == CHOOSE i \in S : \A j \in S : i >= j

\* The skip and the slot come from overlapping bits of the hash.
Skip(hash, n) == LET k == (hash % 65536) % n IN IF k = 0 THEN 1 ELSE k
First_Hash_Candidate_Slot(hash, n) == (((hash \div 256) % 65536) * 256) % n

\* The i-th slot that is looked at for spelling s in a table of n slots.
Probe(s, n, i) ==
    (First_Hash_Candidate_Slot(Hash[s], n) + i * Skip(Hash[s], n)) % n

\* The steps of the probe at which a search for s can stop: Compare_UTF8
\* finds a canon that differs at most in case.
Stops(s) ==
    {i \in 0..(numSlots - 1) :
        LET x == slots[Probe(s, numSlots, i)]
        IN  x = Null \/ (x \in Strings /\ Class(x) = Fold[s])}

\* Where the search for s ends, for a table in which it ends.
Candidate(s) == Probe(s, numSlots, Least(Stops(s)))

\* The deleted slots passed on the way there; the last one is remembered.
DeletedBefore(s) ==
    {i \in 0..(Least(Stops(s)) - 1) :
        slots[Probe(s, numSlots, i)] = Deleted}

\* The ring of x, as far as its links go.
Ring(x) ==
    LET walk[k \in 0..Cardinality(live)] ==
           IF k = 0 THEN x ELSE synonym[walk[k - 1]]
    IN  {walk[k] : k \in 0..Cardinality(live)}

----------------------------------------------------------------------------
(* Growing the table.                                                      *)

Larger == {p \in PrimeSizes : p >= numSlots + 1}

\* Faulty: grows only when there are more words than slots.
Crowded_Full == inUse > numSlots

\* The table is kept at most about half full.
Crowded == inUse > numSlots \div 2

\* The next size up; past the end of the list of primes interning fails.
Expand_Word_Table ==
    /\ Larger # {}
    /\ phase' = "rehash"
    /\ grownSize' = Least(Larger)
    /\ grown' = Free(grownSize')
    /\ oldSlot' = 0

\* One turn of the loop over the old table: a canon goes to the first vacant
\* slot of its probe, a deleted slot is not taken over.
Rehash_Slot ==
    LET x == slots[oldSlot]
    IN  /\ phase = "rehash"
        /\ oldSlot < numSlots
        /\ oldSlot' = oldSlot + 1
        /\ IF x \in Strings
              THEN \E i \in 0..(grownSize - 1) :
                      /\ grown[Probe(Spell(x), grownSize, i)] = Null
                      /\ \A j \in 0..(i - 1) :
                            grown[Probe(Spell(x), grownSize, j)] # Null
                      /\ grown' =
                            [grown EXCEPT ![Probe(Spell(x), grownSize, i)] = x]
              ELSE UNCHANGED grown
        /\ IF x = Deleted
              THEN inUse' = inUse - 1 /\ deleteds' = deleteds - 1
              ELSE UNCHANGED <<inUse, deleteds>>
        /\ UNCHANGED <<phase, wanted, slots, numSlots, grownSize, doomed>>
        /\ UNCHANGED rings

\* The new table replaces the old one.
Rehash_Done ==
    /\ phase = "rehash"
    /\ oldSlot = numSlots
    /\ phase' = "search"
    /\ slots' = grown
    /\ numSlots' = grownSize
    /\ grown' = Free(1)
    /\ grownSize' = 1
    /\ oldSlot' = 0
    /\ UNCHANGED <<wanted, inUse, deleteds, doomed>>
    /\ UNCHANGED rings

----------------------------------------------------------------------------
(* Interning.                                                              *)

Booted == Words \subseteq Spelled

\* The table is checked before the search, whether or not the search will
\* add to it.  The words of %words.r are interned first, at boot.
Intern_UTF8_Managed(s) ==
    /\ phase = "idle"
    /\ doomed = {}
    /\ s \in Words \/ Booted
    /\ wanted' = s
    /\ IF Crowded
          THEN Expand_Word_Table
          ELSE phase' = "search" /\ UNCHANGED growth
    /\ UNCHANGED <<table, rings, doomed>>

Searched ==
    /\ phase = "search"
    /\ Stops(wanted) # {}
    /\ phase' = "idle"
    /\ wanted' = NoSpelling
    /\ UNCHANGED <<growth, doomed>>

Found == slots[Candidate(wanted)]

\* The canon itself or one of its ring is an exact match.
Intern_Existing ==
    /\ Searched
    /\ Found # Null
    /\ \E x \in Ring(Found) : Spell(x) = wanted
    /\ UNCHANGED <<table, rings>>

\* The string made for `wanted`: the lowest number that is free.
Fresh == {x \in Strings \ live :
             /\ Spell(x) = wanted
             /\ \A k \in 1..(x[2] - 1) : <<wanted, k>> \in live}

\* Faulty: the ring is closed without what was in it.
Intern_Synonym_Cut ==
    /\ Searched
    /\ Found # Null
    /\ \A x \in Ring(Found) : Spell(x) # wanted
    /\ \E s \in Fresh :
          /\ live' = live \union {s}
          /\ synonym' = [synonym EXCEPT ![s] = Found, ![Found] = s]
    /\ UNCHANGED <<table, canons>>

\* A new casing goes into the ring after the canon.
Intern_Synonym ==
    /\ Searched
    /\ Found # Null
    /\ \A x \in Ring(Found) : Spell(x) # wanted
    /\ \E s \in Fresh :
          /\ live' = live \union {s}
          /\ synonym' = [synonym EXCEPT ![s] = synonym[Found], ![Found] = s]
    /\ UNCHANGED <<table, canons>>

\* Faulty: a reused slot is counted once more.
Intern_Canon_Recount ==
    /\ Searched
    /\ Found = Null
    /\ \E s \in Fresh :
          /\ live' = live \union {s}
          /\ canons' = canons \union {s}
          /\ synonym' = [synonym EXCEPT ![s] = s]
          /\ inUse' = inUse + 1
          /\ IF DeletedBefore(wanted) # {}
                THEN /\ slots' = [slots EXCEPT
                           ![Probe(wanted, numSlots,
                                   Greatest(DeletedBefore(wanted)))] = s]
                     /\ deleteds' = deleteds - 1
                ELSE /\ slots' = [slots EXCEPT ![Candidate(wanted)] = s]
                     /\ UNCHANGED deleteds
    /\ UNCHANGED numSlots

\* A word for which no canon was found becomes one, in the last deleted slot
\* that the search passed if there was one.
Intern_Canon ==
    /\ Searched
    /\ Found = Null
    /\ \E s \in Fresh :
          /\ live' = live \union {s}
          /\ canons' = canons \union {s}
          /\ synonym' = [synonym EXCEPT ![s] = s]
          /\ IF DeletedBefore(wanted) # {}
                THEN /\ slots' = [slots EXCEPT
                           ![Probe(wanted, numSlots,
                                   Greatest(DeletedBefore(wanted)))] = s]
                     /\ deleteds' = deleteds - 1
                     /\ UNCHANGED inUse
                ELSE /\ slots' = [slots EXCEPT ![Candidate(wanted)] = s]
                     /\ inUse' = inUse + 1
                     /\ UNCHANGED deleteds
    /\ UNCHANGED numSlots

----------------------------------------------------------------------------
(* Collection.                                                             *)

\* A collection finds `dead` unmarked.  Nothing is interned during it.
Recycle(dead) ==
    /\ phase = "idle"
    /\ doomed = {}
    /\ Booted
    /\ doomed' = dead
    /\ UNCHANGED <<phase, wanted, table, growth, rings>>

\* Shutdown collects everything.
Shutdown ==
    /\ phase = "idle"
    /\ doomed = {}
    /\ Booted
    /\ phase' = "down"
    /\ doomed' = live
    /\ UNCHANGED <<wanted, table, growth, rings>>

\* The steps of the probe at which the canon x is found.  The loop does not
\* stop at a vacant slot: it comes to the canon wherever that is.
KillStops(x) ==
    {i \in 0..(numSlots - 1) : slots[Probe(Spell(x), numSlots, i)] = x}

\* The links without x: what pointed at x (the walk round the ring finds it)
\* now points past it.
CutOut(x) ==
    LET before == CHOOSE t \in live : synonym[t] = x
    IN  [synonym EXCEPT ![before] = synonym[x], ![x] = x]

\* Faulty: the synonym takes the slot without being marked as canon.
Promote_Unmarked(x, slot) ==
    /\ slots' = [slots EXCEPT ![slot] = synonym[x]]
    /\ canons' = canons \ {x}
    /\ UNCHANGED deleteds

\* The next in the ring takes over the slot.
Promote(x, slot) ==
    /\ slots' = [slots EXCEPT ![slot] = synonym[x]]
    /\ canons' = (canons \ {x}) \union {synonym[x]}
    /\ UNCHANGED deleteds

\* Faulty: leaves the slot vacant, which ends the probes that pass it.
Vacate_Null(x, slot) ==
    /\ slots' = [slots EXCEPT ![slot] = Null]
    /\ canons' = canons \ {x}
    /\ deleteds' = deleteds + 1

\* Nothing is left in the ring.  The loop that should ripple later entries
\* back never advances previous_slot, so all that remains of it is that the
\* canon's own slot is marked as deleted.
Vacate(x, slot) ==
    /\ slots' = [slots EXCEPT ![slot] = Deleted]
    /\ canons' = canons \ {x}
    /\ deleteds' = deleteds + 1

\* The sweep frees x, in whatever order it meets the doomed.
GC_Kill_Interning(x) ==
    /\ x \in doomed
    /\ doomed' = doomed \ {x}
    /\ live' = live \ {x}
    /\ synonym' = CutOut(x)
    /\ IF x \in canons
          THEN /\ KillStops(x) # {}
               /\ LET slot == Probe(Spell(x), numSlots, Least(KillStops(x)))
                  IN  IF synonym[x] # x THEN Promote(x, slot)
                                        ELSE Vacate(x, slot)
          ELSE UNCHANGED <<slots, canons, deleteds>>
    /\ UNCHANGED <<phase, wanted, numSlots, inUse, growth>>

Next ==
    \/ \E s \in Spellings : Intern_UTF8_Managed(s)
    \/ Rehash_Slot
    \/ Rehash_Done
    \/ Intern_Existing
    \/ Intern_Synonym
    \/ Intern_Canon
    \/ \E dead \in SUBSET {x \in live : Spell(x) \notin Words} : Recycle(dead)
    \/ Shutdown
    \/ \E x \in doomed : GC_Kill_Interning(x)

Spec == Init /\ [][Next]_vars

----------------------------------------------------------------------------
(* Properties.                                                             *)

\* The classes whose casings have one hash, as all those of ASCII words do.
Alike(c) ==
    \A s, t \in Spellings : Fold[s] = c /\ Fold[t] = c => Hash[s] = Hash[t]
AlikeClasses == {c \in Classes : Alike(c)}
AlikeSpellings == {s \in Spellings : Alike(Fold[s])}

Members(c) == {x \in live : Class(x) = c}
Lookup(s) == IF Stops(s) = {} THEN Null ELSE slots[Candidate(s)]

\* The canons are what is in the table, each in one slot, whatever they hash
\* to: no freed canon is left in it and none is lost by a rehash.  Whichever
\* of the casings that hash alike is looked up, the search stops at the one
\* canon of the class and not at a vacant slot before it; a class without
\* internings is not found.  STR_CANON and the pointer comparison of words
\* (SAME_STR) rest on this, after any order of collection and rehashing.
CanonFound ==
    /\ \A x \in canons : \E i \in DOMAIN slots : slots[i] = x
    /\ \A i \in DOMAIN slots : slots[i] \in Strings =>
          /\ slots[i] \in canons
          /\ \A j \in DOMAIN slots : slots[j] = slots[i] => j = i
    /\ \A s \in AlikeSpellings :
          IF Members(Fold[s]) = {}
             THEN Lookup(s) = Null
             ELSE Members(Fold[s]) \intersect canons = {Lookup(s)}

\* Every ring has one canon, to which STR_CANON comes, and has casings of
\* one word only; all of them, so that a search that walks the ring misses
\* none, if they hash alike.
RingIsClass ==
    \A x \in live :
       LET ring == Ring(x)
           all == Members(Class(x))
       IN  /\ \E y \in canons : ring \intersect canons = {y}
           /\ ring \subseteq all
           /\ Class(x) \in AlikeClasses => ring = all

\* The state is well typed (no freed node is a canon), and the counters that
\* decide when the table grows, and in which Shutdown_Interning looks for
\* leaks, are what is in the table.
SlotsCounted ==
    /\ TypeOK
    /\ phase # "rehash" =>
         /\ inUse = Cardinality({i \in DOMAIN slots : slots[i] # Null})
         /\ deleteds = Cardinality({i \in DOMAIN slots : slots[i] = Deleted})

\* When something is looked up (to intern it or because the sweep frees it)
\* the table has a vacant slot: without one the probing loops would not end.
VacancyLeft ==
    phase = "search" \/ doomed # {} =>
       \E i \in DOMAIN slots : slots[i] = Null

\* The table implements Interning for the classes that hash alike.
Implemented ==
    INSTANCE Interning WITH
       Spellings <- AlikeSpellings,
       Classes <- AlikeClasses,
       copies <- [s \in AlikeSpellings |->
                     Cardinality({x \in live : Spell(x) = s})],
       canon <- [c \in AlikeClasses |->
                    IF \E x \in canons : Class(x) = c
                       THEN Spell(CHOOSE x \in canons : Class(x) = c)
                       ELSE NoSpelling]

\* There is one copy of a spelling at most, and a canon stays the canon for
\* as long as it lives, whatever is collected, reused or rehashed, and
\* whatever words that do not hash alike are in the way.
ImplementsInterning == Implemented!Spec
============================================================================
