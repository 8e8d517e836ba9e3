------------------------- MODULE SymbolTableProofs -------------------------
(***************************************************************************)
(* Proofs about SymbolTable, for all words, hashes and table sizes: that   *)
(* the canons are what is in the table and every ring has one, that words  *)
(* whose casings hash alike are found and their rings are their classes,   *)
(* that the counters are right and there is a vacant slot whenever the     *)
(* table is probed; and that the table implements Interning for the words  *)
(* whose casings hash alike.                                               *)
(***************************************************************************)
EXTENDS SymbolTable, FiniteSetTheorems, WellFoundedInduction, TLAPS

----------------------------------------------------------------------------
(* Numbers.                                                                *)

\* A set of natural numbers that is not empty has a least element.
LEMMA SetMin ==
    ASSUME NEW T, T \subseteq Nat, T # {}
    PROVE  \E x \in T : \A y \in T : x <= y
<1> DEFINE R == OpToRel(<, Nat)
<1>1. IsWellFoundedOn(R, Nat)
  BY NatLessThanWellFounded
<1>2. \A x, y \in Nat : x < y => <<x, y>> \in R
  BY DEF OpToRel
<1> HIDE DEF R
<1>3. PICK x \in T : \A y \in T : ~(<<y, x>> \in R)
  BY <1>1, WFMin
<1>4. \A y \in T : ~(y < x)
  BY <1>2, <1>3
<1>5. \A y \in T : x <= y
  BY <1>4
<1> QED  BY <1>5

\* A bounded one has a greatest element.
LEMMA SetMax ==
    ASSUME NEW T, NEW n \in Nat, T \subseteq 0..n, T # {}
    PROVE  \E x \in T : \A y \in T : x >= y
<1> DEFINE U == {n - x : x \in T}
<1>1. ASSUME NEW x \in T  PROVE x \in Nat /\ n - x \in Nat /\ n - x \in U
  <2>1. x \in 0..n
    OBVIOUS
  <2> QED  BY <2>1
<1>2. U \subseteq Nat /\ U # {}
  BY <1>1
<1> HIDE DEF U
<1>3. PICK u \in U : \A v \in U : u <= v
  BY <1>2, SetMin
<1>4. PICK x \in T : u = n - x
  BY DEF U
<1>5. ASSUME NEW y \in T  PROVE x >= y
  <2>1. n - x <= n - y
    BY <1>1, <1>3, <1>4
  <2>2. x \in Nat /\ y \in Nat
    BY <1>1
  <2> QED  BY <2>1, <2>2
<1> QED  BY <1>5

\* Least is the least element.
LEMMA LeastIs ==
    ASSUME NEW T, T \subseteq Nat, T # {}
    PROVE  /\ Least(T) \in T
           /\ \A j \in T : Least(T) <= j
BY SetMin DEF Least

\* Greatest is the greatest element.
LEMMA GreatestIs ==
    ASSUME NEW T, NEW n \in Nat, T \subseteq 0..n, T # {}
    PROVE  /\ Greatest(T) \in T
           /\ \A j \in T : Greatest(T) >= j
BY SetMax DEF Greatest

\* Probing stays within the table.
LEMMA ProbeIs ==
    ASSUME NEW s \in Spellings, NEW n \in Nat \ {0}, NEW i \in Nat
    PROVE  Probe(s, n, i) \in 0..(n - 1)
<1>1. PICK h \in Nat : h = Hash[s]
  BY SymbolTableAssumption
<1>2. \A a \in Nat, m \in Nat \ {0} : a % m \in 0..(m - 1)
  OBVIOUS
<1>3. Skip(h, n) \in Nat
  BY <1>2 DEF Skip
<1>4. First_Hash_Candidate_Slot(h, n) \in Nat
  BY <1>2 DEF First_Hash_Candidate_Slot
<1>5. \A a, b \in Nat : a * b \in Nat /\ a + b \in Nat
  OBVIOUS
<1>6. First_Hash_Candidate_Slot(h, n) + i * Skip(h, n) \in Nat
  BY <1>3, <1>4, <1>5
<1> QED  BY <1>1, <1>2, <1>6 DEF Probe

----------------------------------------------------------------------------
(* A table t of n slots that holds the strings H.                          *)

\* A search for x comes to its slot before it comes to a vacant one.
OnPath(t, n, x) ==
    \E i \in 0..(n - 1) :
        /\ t[Probe(Spell(x), n, i)] = x
        /\ \A j \in 0..(i - 1) : t[Probe(Spell(x), n, j)] # Null

\* Do the casings of x hash alike?
Good(x) == Class(x) \in AlikeClasses

\* Every string of H has one slot, and those whose casings hash alike are
\* found.
Tidy(t, n, H) ==
    /\ t \in [0..(n - 1) -> Slot]
    /\ \A k \in 0..(n - 1) : t[k] \in Strings => t[k] \in H
    /\ \A k, l \in 0..(n - 1) : t[k] \in Strings /\ t[k] = t[l] => k = l
    /\ \A x \in H : \E k \in 0..(n - 1) : t[k] = x
    /\ \A x \in H : Good(x) => OnPath(t, n, x)

\* What is not a string is one of the two marks.
LEMMA Marks ==
    /\ Null \notin Strings /\ Deleted \notin Strings /\ Null # Deleted
    /\ Null \in Slot /\ Deleted \in Slot /\ Strings \subseteq Slot
    /\ \A x \in Slot : x \notin Strings => x = Null \/ x = Deleted
BY SymbolTableAssumption DEF Strings, Slot

\* A string has a class and a spelling.
LEMMA ClassIs ==
    ASSUME NEW x \in Strings
    PROVE  Class(x) \in Classes /\ Spell(x) \in Spellings
BY SymbolTableAssumption DEF Strings, Class, Spell

\* Where casings hash alike they have one probe.
LEMMA SameProbe ==
    ASSUME NEW s \in Spellings, NEW t \in Spellings, Fold[s] = Fold[t],
           Fold[s] \in AlikeClasses, NEW n, NEW i
    PROVE  Probe(s, n, i) = Probe(t, n, i)
<1>1. Hash[s] = Hash[t]
  BY DEF AlikeClasses, Alike
<1> QED  BY <1>1 DEF Probe

\* A slot that does not hold y, nor becomes vacant, does not hide y.
LEMMA PathKept ==
    ASSUME NEW n \in Nat \ {0}, NEW t \in [0..(n - 1) -> Slot],
           NEW k \in 0..(n - 1), NEW v \in Slot, v # Null,
           NEW y \in Strings, t[k] # y, OnPath(t, n, y)
    PROVE  OnPath([t EXCEPT ![k] = v], n, y)
<1> DEFINE c == Spell(y)
<1>1. PICK i \in 0..(n - 1) :
         /\ t[Probe(c, n, i)] = y
         /\ \A j \in 0..(i - 1) : t[Probe(c, n, j)] # Null
  BY DEF OnPath
<1>2. \A j \in 0..i : Probe(c, n, j) \in 0..(n - 1)
  BY ClassIs, ProbeIs
<1>3. [t EXCEPT ![k] = v][Probe(c, n, i)] = y
  BY <1>1, <1>2
<1>4. \A j \in 0..(i - 1) : [t EXCEPT ![k] = v][Probe(c, n, j)] # Null
  BY <1>1, <1>2
<1> QED  BY <1>3, <1>4 DEF OnPath

\* A string goes into a slot of its path that holds none.
LEMMA PutTidy ==
    ASSUME NEW n \in Nat \ {0}, NEW t, NEW H, H \subseteq Strings,
           Tidy(t, n, H), NEW x \in Strings \ H, NEW i \in 0..(n - 1),
           t[Probe(Spell(x), n, i)] \notin Strings,
           \A j \in 0..(i - 1) : t[Probe(Spell(x), n, j)] # Null
    PROVE  Tidy([t EXCEPT ![Probe(Spell(x), n, i)] = x], n, H \union {x})
<1> DEFINE k == Probe(Spell(x), n, i)
           u == [t EXCEPT ![k] = x]
<1>1. t \in [0..(n - 1) -> Slot] /\ k \in 0..(n - 1)
  BY ClassIs, ProbeIs DEF Tidy
<1>2. x \in Slot /\ x # Null
  BY Marks
<1>3. u \in [0..(n - 1) -> Slot]
  BY <1>1, <1>2
<1>4. u[k] = x /\ \A l \in 0..(n - 1) : l # k => u[l] = t[l]
  BY <1>1
<1>5. \A l \in 0..(n - 1) : u[l] \in Strings => u[l] \in H \union {x}
  BY <1>4 DEF Tidy
<1>6. ASSUME NEW l \in 0..(n - 1), NEW m \in 0..(n - 1),
             u[l] \in Strings, u[l] = u[m]
      PROVE  l = m
  BY <1>4, <1>6 DEF Tidy
<1>7. ASSUME NEW y \in H, Good(y)  PROVE OnPath(u, n, y)
  <2>1. t[k] # y /\ OnPath(t, n, y)
    BY <1>7 DEF Tidy
  <2> HIDE DEF k
  <2> QED  BY <1>1, <1>2, <2>1, PathKept
<1>8. OnPath(u, n, x)
  <2>1. \A j \in 0..(i - 1) : Probe(Spell(x), n, j) \in 0..(n - 1)
    BY ClassIs, ProbeIs
  <2>2. \A j \in 0..(i - 1) : u[Probe(Spell(x), n, j)] # Null
    BY <1>2, <1>4, <2>1
  <2> QED  BY <1>4, <2>2 DEF OnPath
<1>9. ASSUME NEW y \in H \union {x}  PROVE \E l \in 0..(n - 1) : u[l] = y
  <2>1. CASE y = x
    BY <1>1, <1>4, <2>1
  <2>2. CASE y \in H
    <3>1. PICK l \in 0..(n - 1) : t[l] = y
      BY <2>2 DEF Tidy
    <3>2. l # k
      BY <2>2, <3>1
    <3> QED  BY <1>4, <3>1, <3>2
  <2> QED  BY <2>1, <2>2
<1> QED  BY <1>3, <1>5, <1>6, <1>7, <1>8, <1>9 DEF Tidy

\* A string hands its slot to another of its class.
LEMMA HandOverTidy ==
    ASSUME NEW n \in Nat \ {0}, NEW t, NEW H, H \subseteq Strings,
           Tidy(t, n, H), NEW x \in H, NEW k \in 0..(n - 1), t[k] = x,
           NEW y \in Strings \ H, Class(y) = Class(x)
    PROVE  Tidy([t EXCEPT ![k] = y], n, (H \ {x}) \union {y})
<1> DEFINE u == [t EXCEPT ![k] = y]
<1>1. t \in [0..(n - 1) -> Slot]
  BY DEF Tidy
<1>2. y \in Slot /\ y # Null
  BY Marks
<1>3. u \in [0..(n - 1) -> Slot]
  BY <1>1, <1>2
<1>4. u[k] = y /\ \A l \in 0..(n - 1) : l # k => u[l] = t[l]
  BY <1>1
<1>5. \A l \in 0..(n - 1) : l # k => t[l] # x
  BY DEF Tidy
<1>6. \A l \in 0..(n - 1) : u[l] \in Strings => u[l] \in (H \ {x}) \union {y}
  BY <1>4, <1>5 DEF Tidy
<1>7. ASSUME NEW l \in 0..(n - 1), NEW m \in 0..(n - 1),
             u[l] \in Strings, u[l] = u[m]
      PROVE  l = m
  BY <1>4, <1>7 DEF Tidy
<1>8. ASSUME NEW z \in H \ {x}, Good(z)  PROVE OnPath(u, n, z)
  <2>1. t[k] # z /\ OnPath(t, n, z) /\ z \in Strings
    BY <1>8 DEF Tidy
  <2> QED  BY <1>1, <1>2, <2>1, PathKept
<1>9. ASSUME Good(y)  PROVE OnPath(u, n, y)
  <2> DEFINE c == Spell(x)
  <2>0. /\ Good(x) /\ c \in Spellings
        /\ \A j \in 0..(n - 1) : Probe(Spell(y), n, j) = Probe(c, n, j)
    <3>1. /\ c \in Spellings /\ Spell(y) \in Spellings
          /\ Fold[c] = Class(x) /\ Fold[Spell(y)] = Class(y)
      BY ClassIs DEF Class, Spell
    <3> QED  BY <1>9, <3>1, SameProbe DEF Good
  <2>1. PICK i \in 0..(n - 1) :
           /\ t[Probe(c, n, i)] = x
           /\ \A j \in 0..(i - 1) : t[Probe(c, n, j)] # Null
    BY <2>0 DEF OnPath, Tidy
  <2>2. \A j \in 0..i : Probe(c, n, j) \in 0..(n - 1)
    BY <2>0, ProbeIs
  <2>3. Probe(c, n, i) = k
    BY <1>5, <2>1, <2>2
  <2>4. \A j \in 0..(i - 1) : u[Probe(c, n, j)] # Null
    BY <1>2, <1>4, <2>1, <2>2
  <2> HIDE DEF u, c
  <2>5. /\ u[Probe(Spell(y), n, i)] = y
        /\ \A j \in 0..(i - 1) : u[Probe(Spell(y), n, j)] # Null
    <3>1. \A j \in 0..(i - 1) : j \in 0..(n - 1)
      OBVIOUS
    <3> QED  BY <1>4, <2>0, <2>3, <2>4, <3>1
  <2> QED  BY <2>5 DEF OnPath
<1>10. ASSUME NEW z \in (H \ {x}) \union {y}
       PROVE  \E l \in 0..(n - 1) : u[l] = z
  <2>1. CASE z = y
    BY <1>4, <2>1
  <2>2. CASE z \in H \ {x}
    <3>1. PICK l \in 0..(n - 1) : t[l] = z
      BY <2>2 DEF Tidy
    <3>2. l # k
      BY <2>2, <3>1
    <3> QED  BY <1>4, <3>1, <3>2
  <2> QED  BY <2>1, <2>2
<1> QED  BY <1>3, <1>6, <1>7, <1>8, <1>9, <1>10 DEF Tidy

\* A string leaves its slot marked as deleted.
LEMMA DeleteTidy ==
    ASSUME NEW n \in Nat \ {0}, NEW t, NEW H, H \subseteq Strings,
           Tidy(t, n, H), NEW x \in H, NEW k \in 0..(n - 1), t[k] = x
    PROVE  Tidy([t EXCEPT ![k] = Deleted], n, H \ {x})
<1> DEFINE u == [t EXCEPT ![k] = Deleted]
<1>1. t \in [0..(n - 1) -> Slot]
  BY DEF Tidy
<1>2. Deleted \in Slot /\ Deleted # Null /\ Deleted \notin Strings
  BY Marks
<1>3. u \in [0..(n - 1) -> Slot]
  BY <1>1, <1>2
<1>4. u[k] = Deleted /\ \A l \in 0..(n - 1) : l # k => u[l] = t[l]
  BY <1>1
<1>5. \A l \in 0..(n - 1) : l # k => t[l] # x
  BY DEF Tidy
<1>6. \A l \in 0..(n - 1) : u[l] \in Strings => u[l] \in H \ {x}
  BY <1>2, <1>4, <1>5 DEF Tidy
<1>7. ASSUME NEW l \in 0..(n - 1), NEW m \in 0..(n - 1),
             u[l] \in Strings, u[l] = u[m]
      PROVE  l = m
  BY <1>2, <1>4, <1>7 DEF Tidy
<1>8. ASSUME NEW z \in H \ {x}, Good(z)  PROVE OnPath(u, n, z)
  <2>1. t[k] # z /\ OnPath(t, n, z) /\ z \in Strings
    BY <1>8 DEF Tidy
  <2> QED  BY <1>1, <1>2, <2>1, PathKept
<1>9. ASSUME NEW z \in H \ {x}  PROVE \E l \in 0..(n - 1) : u[l] = z
  <2>1. PICK l \in 0..(n - 1) : t[l] = z
    BY DEF Tidy
  <2>2. l # k
    BY <2>1
  <2> QED  BY <1>4, <2>1, <2>2
<1> QED  BY <1>3, <1>6, <1>7, <1>8, <1>9 DEF Tidy

----------------------------------------------------------------------------
(* The rings of the strings L with the links S.  O gives each string its   *)
(* owner, the one of the canons C that is in its ring.                     *)

RingOf(L, O, c) == {x \in L : O[x] = c}

\* Links stay in the ring and do not join; what contains a string and is
\* closed under the links contains the ring of the string.
Linked(L, S, C, O) ==
    /\ L \subseteq Strings /\ C \subseteq L
    /\ S \in [Strings -> Strings] /\ O \in [Strings -> Strings]
    /\ \A x \in L : O[x] \in C /\ Class(O[x]) = Class(x)
    /\ \A x \in C : O[x] = x
    /\ \A x \in L : S[x] \in L /\ O[S[x]] = O[x]
    /\ \A x, y \in L : S[x] = S[y] => x = y
    /\ \A T \in SUBSET L : \A x \in T :
          (\A y \in T : S[y] \in T) => RingOf(L, O, O[x]) \subseteq T

\* Something links to every string.
LEMMA LinkBefore ==
    ASSUME NEW L, NEW S, NEW C, NEW O, Linked(L, S, C, O), NEW x \in L
    PROVE  \E b \in L : S[b] = x
<1> DEFINE M == RingOf(L, O, O[x])
           T == {S[y] : y \in M}
<1>1. T \subseteq M
  BY DEF Linked, RingOf
<1>2. T \in SUBSET L
  BY <1>1 DEF RingOf
<1>3. \A y \in T : S[y] \in T
  BY <1>1
<1>4. x \in M /\ S[x] \in T /\ O[S[x]] = O[x]
  BY DEF Linked, RingOf
<1> HIDE DEF T
<1>5. M \subseteq T
  BY <1>2, <1>3, <1>4 DEF Linked
<1>6. x \in T
  BY <1>4, <1>5
<1> QED  BY <1>6 DEF T, RingOf

\* A string that links to itself is alone in its ring, as its canon.
LEMMA AloneInRing ==
    ASSUME NEW L, NEW S, NEW C, NEW O, Linked(L, S, C, O), NEW x \in L,
           S[x] = x
    PROVE  x \in C /\ \A y \in L : O[y] = x => y = x
<1>1. {x} \in SUBSET L /\ \A y \in {x} : S[y] \in {x}
  OBVIOUS
<1>2. RingOf(L, O, O[x]) \subseteq {x}
  BY <1>1 DEF Linked
<1>3. O[x] \in C /\ O[x] \in L /\ O[O[x]] = O[x]
  BY DEF Linked
<1>4. O[x] = x
  BY <1>2, <1>3 DEF RingOf
<1> QED  BY <1>2, <1>3, <1>4 DEF RingOf

\* A new canon makes a ring of its own.
LEMMA LinkFirst ==
    ASSUME NEW L, NEW S, NEW C, NEW O, Linked(L, S, C, O),
           NEW s \in Strings \ L
    PROVE  Linked(L \union {s}, [S EXCEPT ![s] = s], C \union {s},
                  [O EXCEPT ![s] = s])
<1> DEFINE K == L \union {s}
           R == [S EXCEPT ![s] = s]
           D == C \union {s}
           P == [O EXCEPT ![s] = s]
<1>1. /\ K \subseteq Strings /\ R \in [Strings -> Strings]
      /\ D \subseteq K /\ P \in [Strings -> Strings]
      /\ R[s] = s /\ s \notin L /\ P[s] = s
      /\ \A x \in L : R[x] = S[x] /\ S[x] \in L
      /\ \A x \in L : P[x] = O[x] /\ O[x] \in L /\ O[x] \in C
  BY DEF Linked
<1> HIDE DEF K, R, D, P
<1>2. \A x \in K : R[x] \in K /\ P[R[x]] = P[x]
  BY <1>1 DEF K, Linked
<1>3. \A x, y \in K : R[x] = R[y] => x = y
  BY <1>1 DEF K, Linked
<1>4. ASSUME NEW T \in SUBSET K, NEW x \in T, \A y \in T : R[y] \in T
      PROVE  RingOf(K, P, P[x]) \subseteq T
  <2>1. CASE x = s
    <3>1. RingOf(K, P, s) \subseteq {s}
      BY <1>1 DEF RingOf, K
    <3> QED  BY <1>1, <2>1, <3>1
  <2>2. CASE x # s
    <3> DEFINE U == T \ {s}
    <3>1. U \in SUBSET L /\ x \in U /\ x \in L
      BY <2>2 DEF K
    <3>2. \A y \in U : S[y] \in U
      BY <1>1, <1>4, <3>1
    <3>3. RingOf(L, O, O[x]) \subseteq U
      BY <3>1, <3>2 DEF Linked
    <3>4. RingOf(K, P, P[x]) = RingOf(L, O, O[x])
      BY <1>1, <3>1 DEF RingOf, K
    <3> QED  BY <3>3, <3>4
  <2> QED  BY <2>1, <2>2
<1>5. /\ \A x \in K : P[x] \in D /\ Class(P[x]) = Class(x)
      /\ \A x \in D : P[x] = x
  BY <1>1 DEF K, D, Linked
<1> QED  BY <1>1, <1>2, <1>3, <1>4, <1>5 DEF Linked, K, R, D, P

\* Another string of the class goes into the ring after its canon f.
LEMMA LinkAfter ==
    ASSUME NEW L, NEW S, NEW C, NEW O, Linked(L, S, C, O), NEW f \in C,
           NEW s \in Strings \ L, Class(s) = Class(f)
    PROVE  Linked(L \union {s}, [S EXCEPT ![s] = S[f], ![f] = s], C,
                  [O EXCEPT ![s] = f])
<1> DEFINE K == L \union {s}
           R == [S EXCEPT ![s] = S[f], ![f] = s]
           P == [O EXCEPT ![s] = f]
<1>1. /\ K \subseteq Strings /\ R \in [Strings -> Strings]
      /\ P \in [Strings -> Strings] /\ f \in L /\ C \subseteq L
      /\ R[s] = S[f] /\ R[f] = s /\ s \notin L /\ s # f
      /\ \A x \in L : x # f => R[x] = S[x]
      /\ \A x \in L : S[x] \in L /\ S[x] # s
      /\ P[s] = f /\ O[f] = f
      /\ \A x \in L : P[x] = O[x] /\ O[S[x]] = O[x]
  BY DEF Linked
<1> HIDE DEF K, R, P
<1>2. \A x \in K : R[x] \in K /\ P[R[x]] = P[x]
  BY <1>1 DEF K
<1>3. \A x, y \in K : R[x] = R[y] => x = y
  BY <1>1 DEF K, Linked
<1>4. ASSUME NEW T \in SUBSET K, NEW x \in T, \A y \in T : R[y] \in T
      PROVE  RingOf(K, P, P[x]) \subseteq T
  <2> DEFINE U == T \ {s}
  <2>1. U \in SUBSET L
    BY DEF K
  <2>2. ASSUME NEW y \in U  PROVE S[y] \in U
    <3>1. y \in L /\ y \in T
      BY <2>1
    <3>2. CASE y = f
      <4>1. s \in T
        BY <1>1, <1>4, <3>1, <3>2
      <4> QED  BY <1>1, <1>4, <3>1, <3>2, <4>1
    <3>3. CASE y # f
      BY <1>1, <1>4, <3>1, <3>3
    <3> QED  BY <3>2, <3>3
  <2>3. PICK z \in U : O[z] = P[x]
    <3>1. CASE x = s
      <4>1. S[f] \in U /\ O[S[f]] = P[x]
        BY <1>1, <1>4, <3>1
      <4> QED  BY <4>1
    <3>2. CASE x # s
      BY <1>1, <2>1, <3>2
    <3> QED  BY <3>1, <3>2
  <2> HIDE DEF U
  <2>4. RingOf(L, O, P[x]) \subseteq U
    BY <2>1, <2>2, <2>3 DEF Linked
  <2>5. ASSUME P[s] = P[x]  PROVE s \in T
    <3>1. f \in T
      BY <1>1, <2>4, <2>5 DEF RingOf, U
    <3> QED  BY <1>1, <1>4, <3>1
  <2>6. ASSUME NEW y \in K, P[y] = P[x]  PROVE y \in T
    <3>1. CASE y = s
      BY <2>5, <2>6, <3>1
    <3>2. CASE y \in L
      <4>1. y \in RingOf(L, O, P[x])
        BY <1>1, <2>6, <3>2 DEF RingOf
      <4> QED  BY <2>4, <4>1 DEF U
    <3> QED  BY <3>1, <3>2 DEF K
  <2> QED  BY <2>6 DEF RingOf
<1>5. /\ \A x \in K : P[x] \in C /\ Class(P[x]) = Class(x)
      /\ \A x \in C : P[x] = x
  BY <1>1 DEF K, Linked
<1> QED  BY <1>1, <1>2, <1>3, <1>4, <1>5 DEF Linked, K, R, P

\* Without x, the owners P among the canons D divide the strings L as the
\* owners O did.
Divided(L, O, x, D, P) ==
    /\ D \subseteq L \ {x}
    /\ P \in [Strings -> Strings]
    /\ \A y \in L \ {x} : P[y] \in D /\ Class(P[y]) = Class(y)
    /\ \A y \in D : P[y] = y
    /\ \A y, z \in L \ {x} : P[y] = P[z] <=> O[y] = O[z]

\* A string is cut out of its ring.
LEMMA LinkCut ==
    ASSUME NEW L, NEW S, NEW C, NEW O, Linked(L, S, C, O),
           NEW x \in L, NEW b \in L, S[b] = x,
           NEW D, NEW P, Divided(L, O, x, D, P)
    PROVE  Linked(L \ {x}, [S EXCEPT ![b] = S[x], ![x] = x], D, P)
<1> DEFINE K == L \ {x}
           R == [S EXCEPT ![b] = S[x], ![x] = x]
<1>1. /\ K \subseteq Strings /\ R \in [Strings -> Strings]
      /\ b # x => R[b] = S[x]
      /\ \A y \in L : y # b /\ y # x => R[y] = S[y]
      /\ \A y \in L : S[y] \in L /\ O[S[y]] = O[y]
      /\ \A y, z \in L : S[y] = S[z] => y = z
  BY DEF Linked
<1> HIDE DEF K, R
<1>2. \A y \in K : R[y] \in K /\ O[R[y]] = O[y]
  BY <1>1 DEF K
<1>3. \A y, z \in K : R[y] = R[z] => y = z
  BY <1>1 DEF K
<1>4. ASSUME NEW T \in SUBSET K, NEW z \in T, \A y \in T : R[y] \in T
      PROVE  RingOf(K, P, P[z]) \subseteq T
  <2> DEFINE U == IF b \in T THEN T \union {x} ELSE T
  <2>1. U \in SUBSET L /\ z \in U /\ T \subseteq U /\ U \subseteq T \union {x}
    BY DEF K
  <2>2. ASSUME NEW y \in U  PROVE S[y] \in U
    <3>1. CASE y = x
      <4>1. b \in T /\ b # x
        BY <3>1 DEF K
      <4>2. S[x] \in T
        BY <1>1, <1>4, <4>1
      <4> QED  BY <2>1, <3>1, <4>2
    <3>2. CASE y # x /\ y = b
      <4>1. b \in T
        BY <2>1, <3>2
      <4> QED  BY <3>2, <4>1
    <3>3. CASE y # x /\ y # b
      <4>1. y \in T /\ y \in L
        BY <2>1, <3>3
      <4>2. R[y] = S[y] /\ R[y] \in T
        BY <1>1, <1>4, <3>3, <4>1
      <4> QED  BY <2>1, <4>2
    <3> QED  BY <3>1, <3>2, <3>3
  <2> HIDE DEF U
  <2>3. RingOf(L, O, O[z]) \subseteq U
    BY <2>1, <2>2 DEF Linked
  <2>4. ASSUME NEW y \in K, P[y] = P[z]  PROVE y \in T
    <3>1. O[y] = O[z] /\ y \in L /\ y # x
      BY <2>4 DEF K, Divided
    <3>2. y \in U
      BY <2>3, <3>1 DEF RingOf
    <3> QED  BY <2>1, <3>1, <3>2
  <2> QED  BY <2>4 DEF RingOf
<1>5. \A y \in K : R[y] \in K /\ P[R[y]] = P[y]
  BY <1>2 DEF K, Divided
<1> QED  BY <1>1, <1>3, <1>4, <1>5 DEF Linked, Divided, K, R

\* The first m steps of a walk from x.
Walks(w, x, S, m) ==
    /\ w \in [0..m -> Strings]
    /\ w[0] = x
    /\ \A k \in 1..m : w[k] = S[w[k - 1]]

\* One can walk for any number of steps.
LEMMA WalkExists ==
    ASSUME NEW x \in Strings, NEW S \in [Strings -> Strings], NEW n \in Nat
    PROVE  \E w : Walks(w, x, S, n)
<1> DEFINE T == {m \in Nat : ~ \E w : Walks(w, x, S, m)}
<1>1. SUFFICES ASSUME T # {}  PROVE FALSE
  OBVIOUS
<1>2. PICK m \in T : \A k \in T : m <= k
  <2>1. T \subseteq Nat
    OBVIOUS
  <2> HIDE DEF T
  <2> QED  BY <1>1, <2>1, SetMin
<1>3. CASE m = 0
  <2> DEFINE w == [k \in 0..0 |-> x]
  <2>1. w \in [0..0 -> Strings] /\ w[0] = x /\ \A k \in 1..0 : FALSE
    OBVIOUS
  <2> HIDE DEF w
  <2>2. Walks(w, x, S, 0)
    BY <2>1 DEF Walks
  <2> QED  BY <1>2, <1>3, <2>2
<1>4. CASE m # 0
  <2>1. m \in Nat /\ m - 1 \in Nat /\ m - 1 \notin T
    BY <1>2, <1>4
  <2>2. PICK v : Walks(v, x, S, m - 1)
    BY <2>1
  <2> DEFINE w == [k \in 0..m |-> IF k = m THEN S[v[m - 1]] ELSE v[k]]
  <2>3. \A k \in 0..(m - 1) : v[k] \in Strings
    BY <2>2 DEF Walks
  <2>4. S[v[m - 1]] \in Strings
    BY <2>1, <2>3
  <2>5. ASSUME NEW k \in 0..m
        PROVE  (IF k = m THEN S[v[m - 1]] ELSE v[k]) \in Strings
    <3>1. CASE k = m
      BY <2>4, <3>1
    <3>2. CASE k # m
      <4>1. k \in 0..(m - 1)
        BY <2>1, <3>2
      <4> QED  BY <2>3, <3>2, <4>1
    <3> QED  BY <3>1, <3>2
  <2>6. w \in [0..m -> Strings]
    BY <2>5
  <2>7. w[m] = S[v[m - 1]] /\ \A k \in 0..(m - 1) : w[k] = v[k]
    BY <2>1
  <2> HIDE DEF w
  <2>8. w[0] = x
    BY <2>1, <2>2, <2>7 DEF Walks
  <2>9. ASSUME NEW k \in 1..m  PROVE w[k] = S[w[k - 1]]
    <3>1. k - 1 \in 0..(m - 1)
      BY <2>1
    <3>2. w[k - 1] = v[k - 1]
      BY <2>7, <3>1
    <3>3. CASE k = m
      BY <2>7, <3>2, <3>3
    <3>4. CASE k # m
      <4>1. k \in 1..(m - 1) /\ k \in 0..(m - 1)
        BY <2>1, <3>4
      <4>2. v[k] = S[v[k - 1]]
        BY <2>2, <4>1 DEF Walks
      <4> QED  BY <2>7, <3>2, <4>1, <4>2
    <3> QED  BY <3>3, <3>4
  <2>10. Walks(w, x, S, m)
    BY <2>6, <2>8, <2>9 DEF Walks
  <2> QED  BY <1>2, <2>10
<1> QED  BY <1>3, <1>4

\* Ring takes as many steps as there are strings.
LEMMA RingWalks ==
    ASSUME NEW x \in Strings, synonym \in [Strings -> Strings],
           Cardinality(live) \in Nat
    PROVE  \E w : /\ Walks(w, x, synonym, Cardinality(live))
                  /\ Ring(x) = {w[k] : k \in 0..Cardinality(live)}
<1> DEFINE n == Cardinality(live)
           IsWalk(w) == w = [k \in 0..n |-> IF k = 0 THEN x
                                           ELSE synonym[w[k - 1]]]
           walk == CHOOSE w : IsWalk(w)
<1>1. Ring(x) = {walk[k] : k \in 0..n}
  BY DEF Ring
<1> HIDE DEF n
<1>2. PICK v : Walks(v, x, synonym, n)
  BY WalkExists DEF n
<1>3. IsWalk(v)
  <2>1. v = [k \in 0..n |-> v[k]]
    BY <1>2 DEF Walks
  <2>2. ASSUME NEW k \in 0..n
        PROVE  v[k] = IF k = 0 THEN x ELSE synonym[v[k - 1]]
    <3>1. CASE k = 0
      BY <1>2, <3>1 DEF Walks
    <3>2. CASE k # 0
      <4>1. k \in 1..n
        BY <3>2 DEF n
      <4> QED  BY <1>2, <3>2, <4>1 DEF Walks
    <3> QED  BY <3>1, <3>2
  <2> QED  BY <2>1, <2>2
<1>4. IsWalk(walk)
  BY <1>3
<1> HIDE DEF walk
<1>5. walk = [k \in 0..n |-> IF k = 0 THEN x ELSE synonym[walk[k - 1]]]
  BY <1>4
<1>6. walk = v
  <2> DEFINE T == {k \in 0..n : walk[k] # v[k]}
  <2>1. T = {}
    <3> SUFFICES ASSUME T # {}  PROVE FALSE
      OBVIOUS
    <3>1. T \subseteq Nat
      BY DEF n
    <3>2. PICK m \in T : \A k \in T : m <= k
      <4> HIDE DEF T
      <4> QED  BY <3>1, SetMin
    <3>3. m \in 0..n /\ walk[m] # v[m]
      OBVIOUS
    <3>4. m # 0
      BY <1>2, <1>5, <3>3 DEF Walks
    <3>5. m - 1 \in 0..n /\ m - 1 \notin T /\ m \in 1..n
      BY <3>2, <3>3, <3>4 DEF n
    <3>6. walk[m - 1] = v[m - 1]
      BY <3>5
    <3>7. walk[m] = synonym[walk[m - 1]]
      BY <1>5, <3>3, <3>4
    <3>8. v[m] = synonym[v[m - 1]]
      BY <1>2, <3>5 DEF Walks
    <3> QED  BY <3>3, <3>6, <3>7, <3>8
  <2>2. \A k \in 0..n : walk[k] = v[k]
    BY <2>1
  <2>3. v = [k \in 0..n |-> v[k]] /\ walk = [k \in 0..n |-> walk[k]]
    BY <1>2, <1>5 DEF Walks
  <2> QED  BY <2>2, <2>3
<1> QED  BY <1>1, <1>2, <1>6 DEF n

\* A walk round the ring meets the whole ring: two of its steps come to the
\* same string, and what was met before the second of them is closed.
LEMMA RingMembers ==
    ASSUME NEW O, Linked(live, synonym, canons, O), IsFiniteSet(live),
           NEW x \in live
    PROVE  Ring(x) = RingOf(live, O, O[x])
<1> DEFINE n == Cardinality(live)
<1>1. n \in Nat
  BY FS_CardinalityType
<1>2. PICK w : Walks(w, x, synonym, n) /\ Ring(x) = {w[k] : k \in 0..n}
  BY <1>1, RingWalks DEF Linked
<1>3. \A k \in 0..n : w[k] \in live /\ O[w[k]] = O[x]
  <2> DEFINE T == {k \in 0..n : ~(w[k] \in live /\ O[w[k]] = O[x])}
  <2> SUFFICES ASSUME T # {}  PROVE FALSE
    OBVIOUS
  <2>1. T \subseteq Nat
    BY <1>1
  <2>2. PICK m \in T : \A k \in T : m <= k
    <3> HIDE DEF T
    <3> QED  BY <2>1, SetMin
  <2>3. m \in 0..n /\ ~(w[m] \in live /\ O[w[m]] = O[x])
    OBVIOUS
  <2> HIDE DEF n
  <2>4. m # 0
    BY <1>2, <2>3 DEF Walks
  <2>5. m - 1 \in 0..n /\ m - 1 \notin T /\ m \in 1..n
    BY <1>1, <2>2, <2>3, <2>4
  <2>6. w[m - 1] \in live /\ O[w[m - 1]] = O[x]
    BY <2>5
  <2>7. w[m] = synonym[w[m - 1]]
    BY <1>2, <2>5 DEF Walks
  <2> QED  BY <2>3, <2>6, <2>7 DEF Linked
<1>4. \E i, j \in 0..n : i < j /\ w[i] = w[j]
  <2>1. IsFiniteSet(0..n) /\ Cardinality(0..n) = n + 1
    BY <1>1, FS_Interval
  <2>2. w \in [0..n -> live]
    BY <1>2, <1>3 DEF Walks
  <2>3. Cardinality(live) < Cardinality(0..n)
    BY <1>1, <2>1
  <2>4. PICK i, j \in 0..n : i # j /\ w[i] = w[j]
    BY <2>1, <2>2, <2>3, FS_PigeonHole
  <2>5. i < j \/ j < i
    BY <1>1, <2>4
  <2> QED  BY <2>4, <2>5
<1> HIDE DEF n
<1>5. PICK i, j \in 0..n : i < j /\ w[i] = w[j]
  BY <1>4
<1> DEFINE T == {w[k] : k \in 0..(j - 1)}
<1>6. 0 \in 0..(j - 1) /\ \A k \in 0..(j - 1) : k \in 0..n /\ k + 1 \in 1..n
  BY <1>1, <1>5
<1>7. T \in SUBSET live /\ x \in T /\ T \subseteq Ring(x)
  BY <1>2, <1>3, <1>6 DEF Walks
<1>8. ASSUME NEW k \in 0..(j - 1)  PROVE synonym[w[k]] \in T
  <2>1. w[k + 1] = synonym[w[(k + 1) - 1]]
    BY <1>2, <1>6 DEF Walks
  <2>2. (k + 1) - 1 = k
    BY <1>6
  <2>3. w[k + 1] = synonym[w[k]]
    BY <2>1, <2>2
  <2>4. CASE k + 1 = j
    <3>1. w[i] \in T
      BY <1>1, <1>5
    <3> QED  BY <1>5, <2>3, <2>4, <3>1
  <2>5. CASE k + 1 # j
    <3>1. k + 1 \in 0..(j - 1)
      BY <1>1, <1>5, <2>5
    <3> QED  BY <2>3, <3>1
  <2> QED  BY <2>4, <2>5
<1>9. \A y \in T : synonym[y] \in T
  BY <1>8
<1> HIDE DEF T
<1>10. RingOf(live, O, O[x]) \subseteq T
  BY <1>7, <1>9 DEF Linked
<1>11. Ring(x) \subseteq RingOf(live, O, O[x])
  BY <1>2, <1>3 DEF RingOf
<1> QED  BY <1>7, <1>10, <1>11

----------------------------------------------------------------------------
(* The invariant.                                                          *)

Sizes == PrimeSizes \union {1}

\* The slots that count as in use when o slots have been taken over by a
\* larger table, and the deleted ones among them.
Taken(t, n, o) ==
    {k \in 0..(n - 1) : t[k] \in Strings \/ (t[k] = Deleted /\ k >= o)}
Dead(t, n, o) == {k \in 0..(n - 1) : t[k] = Deleted /\ k >= o}

\* The slots of a table that are not vacant, and the strings among the first
\* o slots.
Used(t, n) == {k \in 0..(n - 1) : t[k] # Null}
Moved(t, o) == {k \in 0..(o - 1) : t[k] \in Strings}

\* There is one copy of a spelling, if its casings hash alike.
OneCopy(L) == \A x, y \in L : Spell(x) = Spell(y) /\ Good(x) => x = y

Types ==
    /\ phase \in {"idle", "rehash", "search", "down"}
    /\ wanted \in Spellings \union {NoSpelling}
    /\ wanted \in Spellings <=> phase \in {"rehash", "search"}
    /\ numSlots \in Sizes
    /\ doomed \subseteq live
    /\ IsFiniteSet(live)
    /\ OneCopy(live)

\* A class that has strings has a canon, and one only if it hashes alike.
Canonical(L, C) ==
    /\ C \subseteq L
    /\ \A x, y \in C : Class(x) = Class(y) /\ Good(x) => x = y
    /\ \A x \in L : \E y \in C : Class(y) = Class(x)

\* The links are rings with a canon each.
Owned == \E O : Linked(live, synonym, canons, O)

Counted ==
    /\ inUse = Cardinality(Taken(slots, numSlots, oldSlot))
    /\ deleteds = Cardinality(Dead(slots, numSlots, oldSlot))

\* While the table grows the new one holds what was taken over so far.
Growing ==
    IF phase = "rehash"
       THEN /\ grownSize \in PrimeSizes
            /\ numSlots + 2 <= grownSize
            /\ oldSlot \in 0..numSlots
            /\ Tidy(grown, grownSize,
                    {slots[k] : k \in Moved(slots, oldSlot)})
            /\ \A k \in 0..(grownSize - 1) : grown[k] # Deleted
            /\ Cardinality(Used(grown, grownSize))
                 = Cardinality(Moved(slots, oldSlot))
       ELSE grown = Free(1) /\ grownSize = 1 /\ oldSlot = 0

\* A search that adds a string leaves a slot vacant.  Only the table of one
\* slot, in which boot interns the first word, may be full.
Room ==
    /\ phase \in {"idle", "down"} =>
          \/ inUse < numSlots
          \/ numSlots = 1 /\ \A x, y \in live : Spell(x) = Spell(y)
    /\ phase = "search" =>
          \/ inUse + 1 < numSlots
          \/ numSlots = 1 /\ inUse = 0 /\ live = {}
    /\ doomed # {} => phase \in {"idle", "down"} /\ inUse < numSlots

IInv ==
    /\ Types
    /\ Owned
    /\ Canonical(live, canons)
    /\ Tidy(slots, numSlots, canons)
    /\ Counted
    /\ Growing
    /\ Room

\* What the parts of the invariant say of the table.
LEMMA TableIs ==
    ASSUME IInv
    PROVE  /\ numSlots \in Nat \ {0}
           /\ slots \in [0..(numSlots - 1) -> Slot]
           /\ live \subseteq Strings /\ canons \subseteq Strings
           /\ synonym \in [Strings -> Strings]
           /\ canons \subseteq live
<1>1. numSlots \in Nat \ {0}
  BY SymbolTableAssumption DEF IInv, Types, Sizes
<1>2. slots \in [0..(numSlots - 1) -> Slot]
  BY DEF IInv, Tidy
<1>3. live \subseteq Strings /\ synonym \in [Strings -> Strings]
  BY DEF IInv, Owned, Linked
<1>4. canons \subseteq live
  BY DEF IInv, Canonical
<1> QED  BY <1>1, <1>2, <1>3, <1>4

\* Sets of slots are finite.
LEMMA SlotsFinite ==
    ASSUME NEW n \in Nat, NEW T, T \subseteq 0..(n - 1)
    PROVE  /\ IsFiniteSet(T) /\ Cardinality(T) \in Nat
           /\ Cardinality(T) <= n
<1>1. IsFiniteSet(0..(n - 1)) /\ Cardinality(0..(n - 1)) = n
  <2>1. 0 \in Int /\ n - 1 \in Int
    OBVIOUS
  <2>2. /\ IsFiniteSet(0..(n - 1))
        /\ Cardinality(0..(n - 1)) = IF 0 > n - 1 THEN 0 ELSE (n - 1) - 0 + 1
    BY <2>1, FS_Interval
  <2> QED  BY <2>2
<1>2. IsFiniteSet(T) /\ Cardinality(T) <= Cardinality(0..(n - 1))
  BY <1>1, FS_Subset
<1> QED  BY <1>1, <1>2, FS_CardinalityType

\* The counters are numbers.
LEMMA CountersAre ==
    ASSUME IInv
    PROVE  inUse \in Nat /\ deleteds \in Nat /\ inUse <= numSlots
<1>1. /\ Taken(slots, numSlots, oldSlot) \subseteq 0..(numSlots - 1)
      /\ Dead(slots, numSlots, oldSlot) \subseteq 0..(numSlots - 1)
  BY DEF Taken, Dead
<1> QED  BY <1>1, TableIs, SlotsFinite DEF IInv, Counted

\* Where nothing was taken over the counted slots are the used ones.
LEMMA AllTaken ==
    ASSUME NEW n \in Nat, NEW t \in [0..(n - 1) -> Slot]
    PROVE  Taken(t, n, 0) = Used(t, n)
BY Marks DEF Taken, Used

\* A search for a casing of a canon that hashes alike stops at the canon.
LEMMA FoundCanon ==
    ASSUME IInv, NEW x \in canons, Good(x),
           NEW s \in Spellings, Fold[s] = Class(x)
    PROVE  Stops(s) # {} /\ slots[Candidate(s)] = x
<1>1. PICK n \in Nat \ {0} : n = numSlots
  BY TableIs
<1>2. x \in Strings /\ Spell(x) \in Spellings /\ Fold[Spell(x)] = Class(x)
  BY TableIs, ClassIs DEF Class, Spell
<1>3. PICK i \in 0..(n - 1) :
         /\ slots[Probe(Spell(x), n, i)] = x
         /\ \A j \in 0..(i - 1) : slots[Probe(Spell(x), n, j)] # Null
  BY <1>1 DEF IInv, Tidy, OnPath
<1>4. \A j : Probe(Spell(x), n, j) = Probe(s, n, j)
  BY <1>2, SameProbe DEF Good
<1>5. /\ slots[Probe(s, n, i)] = x
      /\ \A j \in 0..(i - 1) : slots[Probe(s, n, j)] # Null
  BY <1>3, <1>4
<1>6. i \in Stops(s) /\ Stops(s) \subseteq 0..(n - 1)
  BY <1>1, <1>2, <1>5 DEF Stops
<1>7. Least(Stops(s)) \in Stops(s) /\ Least(Stops(s)) <= i
  <2>1. Stops(s) \subseteq Nat
    BY <1>1, <1>6
  <2> QED  BY <1>6, <2>1, LeastIs
<1>8. PICK l \in 0..(n - 1) : l = Least(Stops(s)) /\ l <= i
  BY <1>6, <1>7
<1>9. \/ slots[Probe(s, n, l)] = Null
      \/ /\ slots[Probe(s, n, l)] \in Strings
         /\ Class(slots[Probe(s, n, l)]) = Fold[s]
  BY <1>1, <1>7, <1>8 DEF Stops
<1>10. slots[Probe(s, n, l)] = x
  <2>1. CASE l = i
    BY <1>5, <2>1
  <2>2. CASE l # i
    <3>1. l \in 0..(i - 1)
      BY <1>8, <2>2
    <3>2. /\ slots[Probe(s, n, l)] \in Strings
          /\ Class(slots[Probe(s, n, l)]) = Class(x)
      BY <1>5, <1>9, <3>1
    <3>3. Probe(s, n, l) \in 0..(n - 1)
      BY ProbeIs
    <3>4. slots[Probe(s, n, l)] \in canons
      BY <1>1, <3>2, <3>3 DEF IInv, Tidy
    <3> QED  BY <3>2, <3>4 DEF IInv, Canonical
  <2> QED  BY <2>1, <2>2
<1> QED  BY <1>1, <1>6, <1>8, <1>10 DEF Candidate

\* A search that stops does so at a vacant slot or at a canon of the class,
\* and has passed no vacant slot.
LEMMA FoundAny ==
    ASSUME IInv, NEW s \in Spellings, Stops(s) # {}
    PROVE  /\ Least(Stops(s)) \in 0..(numSlots - 1)
           /\ \/ slots[Candidate(s)] = Null
              \/ /\ slots[Candidate(s)] \in canons
                 /\ Class(slots[Candidate(s)]) = Fold[s]
           /\ \A j \in 0..(Least(Stops(s)) - 1) :
                 slots[Probe(s, numSlots, j)] # Null
<1>1. PICK n \in Nat \ {0} : n = numSlots
  BY TableIs
<1>2. Stops(s) \subseteq 0..(n - 1) /\ Stops(s) \subseteq Nat
  BY <1>1 DEF Stops
<1>3. Least(Stops(s)) \in Stops(s) /\ \A j \in Stops(s) : Least(Stops(s)) <= j
  BY <1>2, LeastIs
<1>4. PICK l \in 0..(n - 1) : l = Least(Stops(s))
  BY <1>2, <1>3
<1>5. \/ slots[Probe(s, n, l)] = Null
      \/ /\ slots[Probe(s, n, l)] \in Strings
         /\ Class(slots[Probe(s, n, l)]) = Fold[s]
  BY <1>1, <1>3, <1>4 DEF Stops
<1>6. \/ slots[Probe(s, n, l)] = Null
      \/ /\ slots[Probe(s, n, l)] \in canons
         /\ Class(slots[Probe(s, n, l)]) = Fold[s]
  <2>1. Probe(s, n, l) \in 0..(n - 1)
    BY ProbeIs
  <2> QED  BY <1>1, <1>5, <2>1 DEF IInv, Tidy
<1>7. ASSUME NEW j \in 0..(l - 1)  PROVE slots[Probe(s, n, j)] # Null
  <2>1. j \in 0..(n - 1) /\ ~(l <= j)
    BY <1>4
  <2>2. j \notin Stops(s)
    BY <1>3, <1>4, <2>1
  <2> QED  BY <1>1, <2>1, <2>2 DEF Stops
<1> QED  BY <1>1, <1>4, <1>6, <1>7 DEF Candidate

\* Found is a canon of the wanted class; one that hashes alike is not missed.
LEMMA FoundIs ==
    ASSUME IInv, wanted \in Spellings, Stops(wanted) # {}
    PROVE  /\ Fold[wanted] \in Classes
           /\ Found # Null => Found \in canons /\ Class(Found) = Fold[wanted]
           /\ Found = Null /\ Fold[wanted] \in AlikeClasses =>
                 \A x \in live : Class(x) # Fold[wanted]
<1>1. Fold[wanted] \in Classes
  BY SymbolTableAssumption
<1>2. Found # Null => Found \in canons /\ Class(Found) = Fold[wanted]
  BY FoundAny DEF Found
<1>3. ASSUME Found = Null, Fold[wanted] \in AlikeClasses,
             NEW x \in live, Class(x) = Fold[wanted]
      PROVE  FALSE
  <2>1. PICK y \in canons : Class(y) = Class(x)
    BY DEF IInv, Canonical
  <2>2. Found = y
    BY <1>3, <2>1, FoundCanon DEF Found, Good
  <2> QED  BY <1>3, <2>1, <2>2, TableIs, Marks
<1> QED  BY <1>1, <1>2, <1>3

----------------------------------------------------------------------------
(* The steps.                                                              *)

\* A table of vacant slots.
LEMMA FreeTidy ==
    ASSUME NEW n \in Nat \ {0}
    PROVE  /\ Tidy(Free(n), n, {})
           /\ \A k \in 0..(n - 1) : Free(n)[k] = Null
           /\ Used(Free(n), n) = {}
           /\ \A o \in Nat : Taken(Free(n), n, o) = {}
           /\ \A o \in Nat : Dead(Free(n), n, o) = {}
<1>1. Free(n) \in [0..(n - 1) -> Slot]
  BY Marks DEF Free
<1>2. \A k \in 0..(n - 1) : Free(n)[k] = Null
  BY DEF Free
<1> QED  BY <1>1, <1>2, Marks DEF Tidy, Used, Taken, Dead

\* Startup_Interning establishes the invariant.
LEMMA InitIInv ==
    ASSUME Init
    PROVE  IInv
<1>1. PICK n \in Nat \ {0} : n = StartSlots /\ n \in Sizes
  BY SymbolTableAssumption DEF Sizes
<1>2. Types
  BY <1>1, FS_EmptySet, SymbolTableAssumption DEF Init, Types, OneCopy
<1>3. Owned
  <2>1. Linked({}, [x \in Strings |-> x], {}, [x \in Strings |-> x])
    BY DEF Linked, RingOf
  <2> QED  BY <2>1 DEF Init, Owned
<1>4. Canonical(live, canons)
  BY DEF Init, Canonical
<1>5. Tidy(slots, numSlots, canons)
  BY <1>1, FreeTidy DEF Init
<1>6. Counted
  BY <1>1, FreeTidy, FS_EmptySet DEF Init, Counted
<1>7. Growing
  BY DEF Init, Growing
<1>8. Room
  BY <1>1 DEF Init, Room
<1> QED  BY <1>2, <1>3, <1>4, <1>5, <1>6, <1>7, <1>8 DEF IInv

\* A search begins with a slot to spare.
LEMMA InternStep ==
    ASSUME IInv, NEW s \in Spellings, Intern_UTF8_Managed(s)
    PROVE  IInv'
<1>1. /\ UNCHANGED <<slots, numSlots, inUse, deleteds>>
      /\ UNCHANGED <<live, synonym, canons, doomed>>
      /\ wanted' = s /\ phase = "idle" /\ doomed = {} /\ oldSlot = 0
  BY DEF Intern_UTF8_Managed, table, rings, IInv, Growing
<1>2. PICK n \in Nat \ {0} : n = numSlots
  BY TableIs
<1>3. PICK u \in Nat : u = inUse /\ u <= n
  BY <1>2, CountersAre
<1>4. phase' \in {"rehash", "search"} /\ oldSlot' = 0
  BY <1>1 DEF Intern_UTF8_Managed, Expand_Word_Table, growth
<1>5. Types'
  BY <1>1, <1>4 DEF IInv, Types, OneCopy
<1>6. Owned' /\ Canonical(live, canons)'
  BY <1>1 DEF IInv, Owned, Canonical
<1>7. Tidy(slots, numSlots, canons)'
  BY <1>1 DEF IInv, Tidy, OnPath
<1>8. Counted'
  BY <1>1, <1>4 DEF IInv, Counted, Taken, Dead
<1>9. CASE Crowded
  <2>1. /\ Larger # {} /\ phase' = "rehash" /\ grownSize' = Least(Larger)
        /\ grown' = Free(grownSize')
    BY <1>9 DEF Intern_UTF8_Managed, Expand_Word_Table
  <2>2. Larger \subseteq Nat
    BY SymbolTableAssumption DEF Larger
  <2>3. grownSize' \in Larger
    BY <2>1, <2>2, LeastIs
  <2>4. PICK g \in Nat : /\ g = grownSize' /\ g \in PrimeSizes /\ g >= n + 1
                         /\ g >= 7
    BY <1>2, <2>3, SymbolTableAssumption DEF Larger
  <2>5. n + 2 <= g
    <3>1. n = 1 \/ n \in PrimeSizes
      BY <1>2 DEF IInv, Types, Sizes
    <3> QED  BY <2>4, <3>1, SymbolTableAssumption
  <2>6. Moved(slots', 0) = {}
    BY DEF Moved
  <2>7. Growing'
    <3>1. Tidy(grown', g, {slots'[k] : k \in Moved(slots', 0)})
      <4>1. {slots'[k] : k \in Moved(slots', 0)} = {}
        BY <2>6
      <4> QED  BY <2>1, <2>4, <4>1, FreeTidy
    <3>2. \A k \in 0..(g - 1) : grown'[k] # Deleted
      BY <2>1, <2>4, FreeTidy, Marks
    <3>3. Used(grown', g) = {}
      BY <2>1, <2>4, FreeTidy
    <3>4. 0 \in 0..numSlots'
      BY <1>1, <1>2
    <3>5. numSlots' + 2 <= g
      BY <1>1, <1>2, <2>5
    <3> QED
      BY <1>4, <2>1, <2>4, <2>6, <3>1, <3>2, <3>3, <3>4, <3>5 DEF Growing
  <2>8. Room'
    BY <1>1, <2>1 DEF Room
  <2> QED  BY <1>5, <1>6, <1>7, <1>8, <2>7, <2>8 DEF IInv
<1>10. CASE ~Crowded
  <2>1. phase' = "search" /\ UNCHANGED <<grown, grownSize, oldSlot>>
    BY <1>10 DEF Intern_UTF8_Managed, growth
  <2>2. Growing'
    BY <1>1, <2>1 DEF IInv, Growing, Free
  <2>3. ~(u > n \div 2)
    BY <1>2, <1>3, <1>10 DEF Crowded
  <2>4. n = 1 \/ n >= 7
    BY <1>2, SymbolTableAssumption DEF IInv, Types, Sizes
  <2>5. CASE n >= 7
    <3>1. u + 1 < n
      BY <2>3, <2>5
    <3> QED  BY <1>1, <1>2, <1>3, <1>5, <1>6, <1>7, <1>8, <2>1, <2>2, <3>1
             DEF IInv, Room
  <2>6. CASE n = 1
    <3>1. u = 0
      BY <2>3, <2>6
    <3>2. Taken(slots, numSlots, 0) = {}
      <4>1. Taken(slots, numSlots, 0) \subseteq 0..(n - 1)
        BY <1>2 DEF Taken
      <4>2. IsFiniteSet(Taken(slots, numSlots, 0))
        BY <4>1, SlotsFinite
      <4>3. Cardinality(Taken(slots, numSlots, 0)) = 0
        BY <1>1, <1>3, <3>1 DEF IInv, Counted
      <4> QED  BY <4>2, <4>3, FS_EmptySet
    <3>3. canons = {}
      <4> SUFFICES ASSUME NEW x \in canons  PROVE FALSE
        OBVIOUS
      <4>1. PICK k \in 0..(n - 1) : slots[k] = x
        BY <1>2 DEF IInv, Tidy
      <4>2. x \in Strings
        BY TableIs
      <4> QED  BY <1>2, <3>2, <4>1, <4>2 DEF Taken
    <3>4. live = {}
      BY <3>3 DEF IInv, Canonical
    <3> QED  BY <1>1, <1>2, <1>3, <1>5, <1>6, <1>7, <1>8, <2>1, <2>2, <2>6,
                <3>1, <3>4
             DEF IInv, Room
  <2> QED  BY <2>4, <2>5, <2>6
<1> QED  BY <1>9, <1>10

\* A slot is taken over.
LEMMA RehashSlotStep ==
    ASSUME IInv, Rehash_Slot
    PROVE  IInv'
<1> DEFINE x == slots[oldSlot]
           H == {slots[k] : k \in Moved(slots, oldSlot)}
<1>1. /\ UNCHANGED <<phase, wanted, slots, numSlots, grownSize, doomed>>
      /\ UNCHANGED <<live, synonym, canons>>
      /\ phase = "rehash" /\ oldSlot < numSlots /\ oldSlot' = oldSlot + 1
  BY DEF Rehash_Slot, rings
<1>2. PICK n \in Nat \ {0} : n = numSlots /\ slots \in [0..(n - 1) -> Slot]
  BY TableIs
<1>3. PICK o \in 0..(n - 1) : o = oldSlot
  BY <1>1, <1>2 DEF IInv, Growing
<1>4. PICK g \in Nat \ {0} :
         /\ g = grownSize /\ g \in PrimeSizes /\ n + 2 <= g
         /\ Tidy(grown, g, H)
         /\ \A k \in 0..(g - 1) : grown[k] # Deleted
         /\ Cardinality(Used(grown, g)) = Cardinality(Moved(slots, o))
  <2>1. /\ grownSize \in PrimeSizes /\ numSlots + 2 <= grownSize
        /\ Tidy(grown, grownSize, H)
        /\ \A k \in 0..(grownSize - 1) : grown[k] # Deleted
        /\ Cardinality(Used(grown, grownSize))
             = Cardinality(Moved(slots, oldSlot))
    BY <1>1 DEF IInv, Growing
  <2>2. grownSize \in Nat /\ grownSize >= 7
    BY <2>1, SymbolTableAssumption
  <2>3. grownSize \in Nat \ {0}
    BY <2>2
  <2> HIDE DEF H
  <2> QED  BY <1>2, <1>3, <2>1, <2>3
<1>5. Types' /\ Owned' /\ Canonical(live, canons)'
  BY <1>1 DEF IInv, Types, OneCopy, Owned, Canonical
<1>6. Tidy(slots, numSlots, canons)' /\ Room'
  BY <1>1 DEF IInv, Tidy, OnPath, Room
<1>7. x \in Slot /\ (x \in Strings \/ x = Null \/ x = Deleted)
  BY <1>2, <1>3, Marks
<1>8. SUFFICES Counted' /\ Growing'
  BY <1>5, <1>6 DEF IInv
<1>9. /\ inUse = Cardinality(Taken(slots, n, o))
      /\ deleteds = Cardinality(Dead(slots, n, o))
  BY <1>2, <1>3 DEF IInv, Counted
<1>10. Growing' = ( /\ Tidy(grown', g, {slots[k] : k \in Moved(slots, o + 1)})
                    /\ \A k \in 0..(g - 1) : grown'[k] # Deleted
                    /\ Cardinality(Used(grown', g))
                         = Cardinality(Moved(slots, o + 1)) )
  <2>1. /\ g \in PrimeSizes /\ n + 2 <= g /\ phase' = "rehash"
        /\ grownSize' = g /\ numSlots' = n /\ oldSlot' = o + 1
        /\ slots' = slots /\ o + 1 \in 0..n
    BY <1>1, <1>2, <1>3, <1>4
  <2> QED  BY <2>1 DEF Growing
<1>11. CASE x \in Strings
  <2>1. PICK i \in 0..(g - 1) :
           /\ grown[Probe(Spell(x), g, i)] = Null
           /\ \A j \in 0..(i - 1) : grown[Probe(Spell(x), g, j)] # Null
           /\ grown' = [grown EXCEPT ![Probe(Spell(x), g, i)] = x]
    BY <1>4, <1>11 DEF Rehash_Slot
  <2>2. H \subseteq Strings /\ x \notin H
    <3>1. ASSUME NEW k \in Moved(slots, o)
          PROVE  slots[k] \in Strings /\ slots[k] # x
      <4>1. k \in 0..(n - 1) /\ k # o /\ slots[k] \in Strings
        BY <1>2, <1>3 DEF Moved
      <4> QED  BY <1>2, <1>3, <4>1 DEF IInv, Tidy
    <3> QED  BY <1>3, <3>1
  <2>3. /\ Moved(slots, o + 1) = Moved(slots, o) \union {o}
        /\ o \notin Moved(slots, o)
    BY <1>2, <1>3, <1>11 DEF Moved
  <2>4. {slots[k] : k \in Moved(slots, o + 1)} = H \union {x}
    BY <1>3, <2>3
  <2> DEFINE m == Probe(Spell(x), g, i)
  <2>5. m \in 0..(g - 1) /\ grown \in [0..(g - 1) -> Slot]
    <3>1. grown \in [0..(g - 1) -> Slot]
      BY <1>4 DEF Tidy
    <3>2. Spell(x) \in Spellings
      BY <1>11, ClassIs
    <3> HIDE DEF x
    <3> QED  BY <3>1, <3>2, ProbeIs
  <2> HIDE DEF H, x
  <2>6. Tidy(grown', g, {slots[k] : k \in Moved(slots, o + 1)})
    <3>1. x \in Strings \ H
      BY <1>11, <2>2
    <3>2. grown[Probe(Spell(x), g, i)] \notin Strings
      BY <2>1, Marks
    <3>3. Tidy([grown EXCEPT ![Probe(Spell(x), g, i)] = x], g, H \union {x})
      BY <1>4, <2>1, <2>2, <3>1, <3>2, PutTidy
    <3> QED  BY <2>1, <2>4, <3>3
  <2>7. /\ grown'[m] = x
        /\ \A k \in 0..(g - 1) : k # m => grown'[k] = grown[k]
    BY <2>1, <2>5
  <2>8. grown[m] = Null
    BY <2>1
  <2> HIDE DEF m
  <2>9. \A k \in 0..(g - 1) : grown'[k] # Deleted
    BY <1>4, <1>11, <2>7, Marks
  <2>10. Used(grown', g) = Used(grown, g) \union {m} /\ m \notin Used(grown, g)
    BY <1>11, <2>5, <2>7, <2>8, Marks DEF Used
  <2>11. Cardinality(Used(grown', g)) = Cardinality(Used(grown, g)) + 1
    <3>1. Used(grown, g) \subseteq 0..(g - 1)
      BY DEF Used
    <3> QED  BY <2>10, <3>1, SlotsFinite, FS_AddElement
  <2>12. Cardinality(Moved(slots, o + 1)) = Cardinality(Moved(slots, o)) + 1
    <3>1. Moved(slots, o) \subseteq 0..(o - 1)
      BY DEF Moved
    <3> QED  BY <2>3, <3>1, SlotsFinite, FS_AddElement
  <2>13. Growing'
    BY <1>4, <1>10, <2>6, <2>9, <2>11, <2>12
  <2>14. /\ Taken(slots, n, o + 1) = Taken(slots, n, o)
         /\ Dead(slots, n, o + 1) = Dead(slots, n, o)
    BY <1>2, <1>3, <1>11, Marks DEF Taken, Dead, x
  <2>15. Counted'
    <3>1. UNCHANGED <<inUse, deleteds>>
      BY <1>11, Marks DEF Rehash_Slot, x
    <3> QED  BY <1>1, <1>2, <1>3, <1>9, <2>14, <3>1 DEF Counted
  <2> QED  BY <2>13, <2>15
<1>12. CASE x \notin Strings
  <2>1. Moved(slots, o + 1) = Moved(slots, o) /\ grown' = grown
    BY <1>2, <1>3, <1>12 DEF Moved, Rehash_Slot
  <2>2. Growing'
    BY <1>3, <1>4, <1>10, <2>1
  <2>3. CASE x = Null
    <3>1. /\ Taken(slots, n, o + 1) = Taken(slots, n, o)
          /\ Dead(slots, n, o + 1) = Dead(slots, n, o)
      BY <1>2, <1>3, <2>3, Marks DEF Taken, Dead
    <3>2. UNCHANGED <<inUse, deleteds>>
      BY <2>3, Marks DEF Rehash_Slot
    <3> QED  BY <1>1, <1>2, <1>3, <1>9, <2>2, <3>1, <3>2 DEF Counted
  <2>4. CASE x = Deleted
    <3>1. /\ Taken(slots, n, o + 1) = Taken(slots, n, o) \ {o}
          /\ Dead(slots, n, o + 1) = Dead(slots, n, o) \ {o}
          /\ o \in Taken(slots, n, o) /\ o \in Dead(slots, n, o)
          /\ Taken(slots, n, o) \subseteq 0..(n - 1)
          /\ Dead(slots, n, o) \subseteq 0..(n - 1)
      BY <1>2, <1>3, <2>4, Marks DEF Taken, Dead
    <3>2. inUse' = inUse - 1 /\ deleteds' = deleteds - 1
      BY <2>4 DEF Rehash_Slot
    <3>3. /\ Cardinality(Taken(slots, n, o + 1))
               = Cardinality(Taken(slots, n, o)) - 1
          /\ Cardinality(Dead(slots, n, o + 1))
               = Cardinality(Dead(slots, n, o)) - 1
      BY <3>1, SlotsFinite, FS_RemoveElement
    <3> QED  BY <1>1, <1>2, <1>3, <1>9, <2>2, <3>2, <3>3 DEF Counted
  <2> QED  BY <1>7, <1>12, <2>3, <2>4
<1> QED  BY <1>11, <1>12

\* The larger table holds the same canons.
LEMMA RehashDoneStep ==
    ASSUME IInv, Rehash_Done
    PROVE  IInv'
<1>1. /\ UNCHANGED <<wanted, inUse, deleteds, doomed>>
      /\ UNCHANGED <<live, synonym, canons>>
      /\ phase = "rehash" /\ oldSlot = numSlots
      /\ phase' = "search" /\ slots' = grown /\ numSlots' = grownSize
      /\ grown' = Free(1) /\ grownSize' = 1 /\ oldSlot' = 0
  BY DEF Rehash_Done, rings
<1>2. PICK n \in Nat \ {0} : n = numSlots /\ slots \in [0..(n - 1) -> Slot]
  BY TableIs
<1>3. PICK g \in Nat \ {0} :
         /\ g = grownSize /\ g \in PrimeSizes /\ n + 2 <= g
         /\ Tidy(grown, g, {slots[k] : k \in Moved(slots, n)})
         /\ \A k \in 0..(g - 1) : grown[k] # Deleted
         /\ Cardinality(Used(grown, g)) = Cardinality(Moved(slots, n))
  <2>1. /\ grownSize \in PrimeSizes /\ numSlots + 2 <= grownSize
        /\ Tidy(grown, grownSize, {slots[k] : k \in Moved(slots, numSlots)})
        /\ \A k \in 0..(grownSize - 1) : grown[k] # Deleted
        /\ Cardinality(Used(grown, grownSize))
             = Cardinality(Moved(slots, numSlots))
    BY <1>1 DEF IInv, Growing
  <2>2. grownSize \in Nat /\ grownSize >= 7
    BY <2>1, SymbolTableAssumption
  <2>3. grownSize \in Nat \ {0}
    BY <2>2
  <2> QED  BY <1>2, <2>1, <2>3
<1>4. {slots[k] : k \in Moved(slots, n)} = canons
  <2>1. ASSUME NEW k \in Moved(slots, n)  PROVE slots[k] \in canons
    BY <1>2 DEF Moved, IInv, Tidy
  <2>2. ASSUME NEW x \in canons
        PROVE  \E k \in Moved(slots, n) : x = slots[k]
    <3>1. PICK k \in 0..(n - 1) : slots[k] = x
      BY <1>2 DEF IInv, Tidy
    <3>2. x \in Strings
      BY TableIs
    <3> QED  BY <3>1, <3>2 DEF Moved
  <2> QED  BY <2>1, <2>2
<1>5. Tidy(slots, numSlots, canons)'
  BY <1>1, <1>3, <1>4
<1>6. Types' /\ Owned' /\ Canonical(live, canons)'
  BY <1>1, <1>3 DEF IInv, Types, Sizes, OneCopy, Owned, Canonical
<1>7. Growing'
  BY <1>1 DEF Growing
<1>8. /\ inUse = Cardinality(Moved(slots, n)) /\ deleteds = 0
  <2>1. Taken(slots, n, n) = Moved(slots, n) /\ Dead(slots, n, n) = {}
    BY <1>2 DEF Taken, Dead, Moved
  <2> QED  BY <1>1, <1>2, <2>1, FS_EmptySet DEF IInv, Counted
<1>9. Counted'
  <2>1. grown \in [0..(g - 1) -> Slot]
    BY <1>3 DEF Tidy
  <2>2. Taken(grown, g, 0) = Used(grown, g) /\ Dead(grown, g, 0) = {}
    BY <1>3, <2>1, AllTaken DEF Dead
  <2> QED  BY <1>1, <1>3, <1>8, <2>2, FS_EmptySet DEF Counted
<1>10. Room'
  <2>1. PICK u \in Nat : u = inUse /\ u <= n
    BY <1>2, CountersAre
  <2>2. doomed = {}
    BY <1>1 DEF IInv, Room
  <2>3. u + 1 < g
    BY <1>3, <2>1
  <2> QED  BY <1>1, <1>3, <2>1, <2>2, <2>3 DEF Room
<1> QED  BY <1>5, <1>6, <1>7, <1>9, <1>10 DEF IInv

\* A search takes place in a table that is not growing.
LEMMA SearchIs ==
    ASSUME IInv, Searched
    PROVE  /\ phase = "search" /\ phase' = "idle"
           /\ wanted \in Spellings /\ wanted' = NoSpelling
           /\ NoSpelling \notin Spellings
           /\ UNCHANGED <<grown, grownSize, oldSlot, doomed>>
           /\ doomed = {} /\ oldSlot = 0 /\ Stops(wanted) # {}
           /\ \/ inUse + 1 < numSlots
              \/ numSlots = 1 /\ inUse = 0 /\ live = {}
           /\ Growing'
<1>1. phase = "search" /\ phase' = "idle" /\ wanted' = NoSpelling
  BY DEF Searched
<1>2. UNCHANGED <<grown, grownSize, oldSlot, doomed>>
  BY DEF Searched, growth
<1>3. Growing'
  BY <1>1, <1>2 DEF IInv, Growing, Free
<1> QED  BY <1>1, <1>2, <1>3, SymbolTableAssumption
         DEF Searched, IInv, Types, Growing, Room

\* A search that finds its word changes nothing else.
LEMMA ExistingStep ==
    ASSUME IInv, Intern_Existing
    PROVE  IInv'
<1>1. UNCHANGED <<slots, numSlots, inUse, deleteds, live, synonym, canons>>
  BY DEF Intern_Existing, table, rings
<1>2. Searched
  BY DEF Intern_Existing
<1>3. Types' /\ Owned' /\ Canonical(live, canons)'
  BY <1>1, <1>2, SearchIs
  DEF IInv, Types, OneCopy, Owned, Canonical
<1>4. Tidy(slots, numSlots, canons)'
  BY <1>1 DEF IInv, Tidy, OnPath
<1>5. Counted'
  BY <1>1, <1>2, SearchIs DEF IInv, Counted, Taken, Dead
<1>6. Room'
  BY <1>1, <1>2, SearchIs, CountersAre, TableIs DEF Room
<1> QED  BY <1>2, <1>3, <1>4, <1>5, <1>6, SearchIs DEF IInv

\* What is made has the wanted spelling.  If the class hashes alike the ring
\* in which it was not found is the whole class, so there was no copy of it.
LEMMA SynonymMade ==
    ASSUME IInv, Intern_Synonym
    PROVE  /\ Found \in canons /\ Class(Found) = Fold[wanted]
           /\ Found \in live
           /\ Fold[wanted] \in AlikeClasses =>
                 \A y \in live : Spell(y) # wanted
           /\ \E s \in Strings \ live :
                 /\ Spell(s) = wanted /\ Class(s) = Fold[wanted]
                 /\ live' = live \union {s}
                 /\ synonym' = [synonym EXCEPT ![s] = synonym[Found],
                                               ![Found] = s]
<1>1. Searched
  BY DEF Intern_Synonym
<1>2. PICK s \in Fresh :
         /\ live' = live \union {s}
         /\ synonym' = [synonym EXCEPT ![s] = synonym[Found], ![Found] = s]
  BY DEF Intern_Synonym
<1>3. /\ s \in Strings \ live /\ Spell(s) = wanted /\ Class(s) = Fold[wanted]
  BY DEF Fresh, Spell, Class
<1>4. Found \in canons /\ Class(Found) = Fold[wanted] /\ Found \in live
  BY <1>1, SearchIs, FoundIs, TableIs DEF Intern_Synonym
<1>5. ASSUME Fold[wanted] \in AlikeClasses,
             NEW y \in live, Spell(y) = wanted
      PROVE  FALSE
  <2>1. Class(y) = Class(Found) /\ Good(y)
    BY <1>4, <1>5 DEF Class, Spell, Good
  <2>2. PICK O : Linked(live, synonym, canons, O)
    BY DEF IInv, Owned
  <2>3. /\ O[y] \in canons /\ Class(O[y]) = Class(y)
        /\ O[Found] = Found
    BY <1>4, <2>2 DEF Linked
  <2>4. O[y] = Found
    BY <1>4, <2>1, <2>3 DEF IInv, Canonical, Good
  <2>5. y \in RingOf(live, O, O[Found])
    BY <2>3, <2>4 DEF RingOf
  <2>6. y \in Ring(Found)
    BY <1>4, <2>2, <2>5, RingMembers DEF IInv, Types
  <2> QED  BY <1>5, <2>6 DEF Intern_Synonym
<1> QED  BY <1>2, <1>3, <1>4, <1>5

\* The new casing joins the ring of the canon found and takes no slot.
LEMMA SynonymStep ==
    ASSUME IInv, Intern_Synonym
    PROVE  IInv'
<1>1. UNCHANGED <<slots, numSlots, inUse, deleteds, canons>> /\ Searched
  BY DEF Intern_Synonym, table
<1>2. PICK s \in Strings \ live :
         /\ Spell(s) = wanted /\ Class(s) = Fold[wanted]
         /\ live' = live \union {s}
         /\ synonym' = [synonym EXCEPT ![s] = synonym[Found], ![Found] = s]
  BY SynonymMade
<1>3. Spell(s) = wanted /\ Class(s) = Fold[wanted]
  BY <1>2
<1>4. Found \in canons /\ Class(Found) = Fold[wanted] /\ Found \in live
  BY SynonymMade
<1>5. Fold[wanted] \in AlikeClasses => \A y \in live : Spell(y) # wanted
  BY SynonymMade
<1>6. Owned'
  <2>1. PICK O : Linked(live, synonym, canons, O)
    BY DEF IInv, Owned
  <2>2. Linked(live \union {s},
               [synonym EXCEPT ![s] = synonym[Found], ![Found] = s],
               canons, [O EXCEPT ![s] = Found])
    BY <1>3, <1>4, <2>1, LinkAfter
  <2> QED  BY <1>1, <1>2, <2>2 DEF Owned
<1>7. Types'
  <2>1. OneCopy(live \union {s})
    BY <1>3, <1>5 DEF IInv, Types, OneCopy, Good, Class, Spell
  <2>2. IsFiniteSet(live \union {s})
    BY FS_AddElement DEF IInv, Types
  <2> QED  BY <1>1, <1>2, <2>1, <2>2, SearchIs DEF IInv, Types
<1>8. Canonical(live, canons)'
  <2>1. Canonical(live \union {s}, canons)
    BY <1>3, <1>4 DEF IInv, Canonical
  <2> QED  BY <1>1, <1>2, <2>1
<1>9. Tidy(slots, numSlots, canons)'
  BY <1>1 DEF IInv, Tidy, OnPath
<1>10. Counted'
  BY <1>1, SearchIs DEF IInv, Counted, Taken, Dead
<1>11. Room'
  BY <1>1, <1>4, SearchIs, CountersAre, TableIs DEF Room
<1> QED  BY <1>1, <1>6, <1>7, <1>8, <1>9, <1>10, <1>11, SearchIs DEF IInv

\* The slot that a new canon takes is vacant or was deleted, and no slot
\* before it in the probe is vacant.
LEMMA CanonStep ==
    ASSUME IInv, Intern_Canon
    PROVE  IInv'
<1> DEFINE c == wanted
<1>1. numSlots' = numSlots /\ Searched /\ Found = Null
  BY DEF Intern_Canon
<1>2. PICK s \in Fresh :
         /\ live' = live \union {s}
         /\ canons' = canons \union {s}
         /\ synonym' = [synonym EXCEPT ![s] = s]
         /\ IF DeletedBefore(c) # {}
               THEN /\ slots' = [slots EXCEPT
                          ![Probe(c, numSlots,
                                  Greatest(DeletedBefore(c)))] = s]
                    /\ deleteds' = deleteds - 1
                    /\ inUse' = inUse
               ELSE /\ slots' = [slots EXCEPT ![Candidate(c)] = s]
                    /\ inUse' = inUse + 1
                    /\ deleteds' = deleteds
  BY DEF Intern_Canon
<1>3. /\ s \in Strings \ live /\ Spell(s) = wanted /\ Class(s) = Fold[c]
  BY DEF Fresh, Spell, Class
<1>4. /\ c \in Spellings
      /\ Fold[c] \in AlikeClasses => \A x \in live : Class(x) # Fold[c]
  BY <1>1, SearchIs, FoundIs
<1>5. PICK n \in Nat \ {0} : n = numSlots /\ slots \in [0..(n - 1) -> Slot]
  BY TableIs
<1>6. PICK l \in 0..(n - 1) :
         /\ l = Least(Stops(c))
         /\ slots[Probe(c, n, l)] = Null
         /\ \A j \in 0..(l - 1) : slots[Probe(c, n, j)] # Null
         /\ Candidate(c) = Probe(c, n, l)
  BY <1>1, <1>4, <1>5, SearchIs, FoundAny DEF Candidate, Found
<1> HIDE DEF c
<1>7. Owned'
  <2>1. PICK O : Linked(live, synonym, canons, O)
    BY DEF IInv, Owned
  <2>2. Linked(live \union {s}, [synonym EXCEPT ![s] = s],
               canons \union {s}, [O EXCEPT ![s] = s])
    BY <1>3, <2>1, LinkFirst
  <2> QED  BY <1>2, <2>2 DEF Owned
<1>8. Types'
  <2>1. OneCopy(live \union {s})
    BY <1>3, <1>4 DEF IInv, Types, OneCopy, Good, Class, Spell, c
  <2>2. IsFiniteSet(live \union {s})
    BY FS_AddElement DEF IInv, Types
  <2> QED  BY <1>1, <1>2, <2>1, <2>2, SearchIs DEF IInv, Types
<1>9. Canonical(live, canons)'
  <2>1. Canonical(live \union {s}, canons \union {s})
    BY <1>3, <1>4 DEF IInv, Canonical, Good
  <2> QED  BY <1>2, <2>1
<1>10. PICK i \in 0..(n - 1) :
          /\ slots' = [slots EXCEPT ![Probe(c, n, i)] = s]
          /\ \A j \in 0..(i - 1) : slots[Probe(c, n, j)] # Null
          /\ \/ /\ slots[Probe(c, n, i)] = Null
                /\ inUse' = inUse + 1 /\ deleteds' = deleteds
             \/ /\ slots[Probe(c, n, i)] = Deleted
                /\ inUse' = inUse /\ deleteds' = deleteds - 1
  <2>1. CASE DeletedBefore(c) = {}
    BY <1>2, <1>5, <1>6, <2>1
  <2>2. CASE DeletedBefore(c) # {}
    <3>1. DeletedBefore(c) \subseteq 0..(l - 1)
      BY <1>6 DEF DeletedBefore
    <3>2. l \in Nat /\ DeletedBefore(c) \subseteq 0..l
      BY <3>1
    <3>3. Greatest(DeletedBefore(c)) \in DeletedBefore(c)
      BY <2>2, <3>2, GreatestIs
    <3>4. PICK i \in 0..(l - 1) : i = Greatest(DeletedBefore(c))
      BY <3>1, <3>3
    <3>5. slots[Probe(c, n, i)] = Deleted
      BY <1>5, <3>3, <3>4 DEF DeletedBefore
    <3>6. i \in 0..(n - 1) /\ \A j \in 0..(i - 1) : j \in 0..(l - 1)
      OBVIOUS
    <3>7. slots' = [slots EXCEPT ![Probe(c, n, i)] = s]
      BY <1>2, <1>5, <2>2, <3>4
    <3> QED  BY <1>2, <1>6, <2>2, <3>5, <3>6, <3>7
  <2> QED  BY <2>1, <2>2
<1> DEFINE k == Probe(c, n, i)
<1>11. k \in 0..(n - 1)
  BY <1>4, ProbeIs
<1>12. Tidy(slots, numSlots, canons)'
  <2>1. Spell(s) = c /\ slots[Probe(Spell(s), n, i)] \notin Strings
    BY <1>3, <1>10, Marks DEF c
  <2>2. s \in Strings \ canons /\ canons \subseteq Strings
    BY <1>3, TableIs
  <2>3. \A j \in 0..(i - 1) : slots[Probe(Spell(s), n, j)] # Null
    BY <1>10, <2>1
  <2>4. Tidy(slots, n, canons)
    BY <1>5 DEF IInv
  <2>5. Tidy([slots EXCEPT ![Probe(Spell(s), n, i)] = s], n,
             canons \union {s})
    BY <2>1, <2>2, <2>3, <2>4, PutTidy
  <2> QED  BY <1>1, <1>2, <1>5, <1>10, <2>1, <2>5
<1>13. /\ slots'[k] = s /\ s \in Strings
       /\ \A m \in 0..(n - 1) : m # k => slots'[m] = slots[m]
  BY <1>3, <1>5, <1>10, <1>11
<1>14. oldSlot = 0 /\ oldSlot' = 0
  BY <1>1, SearchIs
<1>15. /\ inUse = Cardinality(Taken(slots, n, 0))
       /\ deleteds = Cardinality(Dead(slots, n, 0))
       /\ Taken(slots, n, 0) \subseteq 0..(n - 1)
       /\ Dead(slots, n, 0) \subseteq 0..(n - 1)
  BY <1>5, <1>14 DEF IInv, Counted, Taken, Dead
<1>16. /\ inUse' = Cardinality(Taken(slots', n, 0))
       /\ deleteds' = Cardinality(Dead(slots', n, 0))
  <2>1. CASE slots[k] = Null
    <3>1. inUse' = inUse + 1 /\ deleteds' = deleteds
      BY <1>10, <2>1, Marks
    <3> HIDE DEF k
    <3>2. /\ Taken(slots', n, 0) = Taken(slots, n, 0) \union {k}
          /\ k \notin Taken(slots, n, 0)
          /\ Dead(slots', n, 0) = Dead(slots, n, 0)
      BY <1>11, <1>13, <2>1, Marks DEF Taken, Dead
    <3> QED  BY <1>15, <3>1, <3>2, SlotsFinite, FS_AddElement
  <2>2. CASE slots[k] = Deleted
    <3>1. inUse' = inUse /\ deleteds' = deleteds - 1
      BY <1>10, <2>2, Marks
    <3> HIDE DEF k
    <3>2. /\ Taken(slots', n, 0) = Taken(slots, n, 0)
          /\ k \in Dead(slots, n, 0)
          /\ Dead(slots', n, 0) = Dead(slots, n, 0) \ {k}
      BY <1>11, <1>13, <2>2, Marks DEF Taken, Dead
    <3> QED  BY <1>15, <3>1, <3>2, SlotsFinite, FS_RemoveElement
  <2> QED  BY <1>10, <2>1, <2>2
<1>17. Counted'
  BY <1>1, <1>5, <1>14, <1>16 DEF Counted
<1>18. Room'
  <2>1. PICK u \in Nat : u = inUse /\ (inUse' = u \/ inUse' = u + 1)
    BY <1>10, CountersAre
  <2>2. phase' = "idle" /\ doomed' = {}
    BY <1>1, SearchIs
  <2>3. CASE u + 1 < n
    BY <1>1, <1>5, <2>1, <2>2, <2>3 DEF Room
  <2>4. CASE n = 1 /\ live = {}
    BY <1>1, <1>2, <1>5, <2>2, <2>4 DEF Room
  <2> QED  BY <1>1, <1>5, <2>1, <2>3, <2>4, SearchIs
<1> QED  BY <1>1, <1>7, <1>8, <1>9, <1>12, <1>17, <1>18, SearchIs DEF IInv

\* A collection or the shutdown begins: two words are in the table, so that
\* it is not the table of one slot.
LEMMA CollectStep ==
    ASSUME IInv, NEW dead \in SUBSET live, Recycle(dead) \/ Shutdown
    PROVE  IInv'
<1>1. /\ phase = "idle" /\ phase' \in {"idle", "down"} /\ Booted
      /\ UNCHANGED <<wanted, slots, numSlots, inUse, deleteds>>
      /\ UNCHANGED <<grown, grownSize, oldSlot, live, synonym, canons>>
      /\ doomed' \subseteq live
  BY DEF Recycle, Shutdown, table, growth, rings
<1>2. \E x, y \in live : Spell(x) # Spell(y)
  <2>1. PICK v, w \in Words : v # w
    BY SymbolTableAssumption
  <2> QED  BY <1>1, <2>1 DEF Booted, Spelled
<1>3. inUse < numSlots
  BY <1>1, <1>2 DEF IInv, Room
<1>4. Types' /\ Owned' /\ Canonical(live, canons)'
  BY <1>1 DEF IInv, Types, OneCopy, Owned, Canonical
<1>5. Tidy(slots, numSlots, canons)'
  BY <1>1 DEF IInv, Tidy, OnPath
<1>6. Counted' /\ Growing'
  BY <1>1 DEF IInv, Counted, Taken, Dead, Growing, Free
<1>7. Room'
  BY <1>1, <1>3 DEF Room
<1> QED  BY <1>4, <1>5, <1>6, <1>7 DEF IInv

\* The owner of a string and of what it links to.
LEMMA OwnerIs ==
    ASSUME NEW L, NEW S, NEW C, NEW O, Linked(L, S, C, O), NEW x \in L
    PROVE  /\ S[x] \in L /\ O[S[x]] = O[x]
           /\ Class(S[x]) = Class(x)
<1>1. S[x] \in L /\ O[S[x]] = O[x]
  BY DEF Linked
<1>2. Class(O[x]) = Class(x) /\ Class(O[S[x]]) = Class(S[x])
  BY <1>1 DEF Linked
<1> QED  BY <1>1, <1>2

\* GC_Kill_Interning cuts a string out of its ring; D are the canons then.
LEMMA CutLinked ==
    ASSUME NEW O, Linked(live, synonym, canons, O), NEW x \in live,
           NEW D, NEW P, Divided(live, O, x, D, P)
    PROVE  Linked(live \ {x}, CutOut(x), D, P)
<1> DEFINE b == CHOOSE t \in live : synonym[t] = x
<1>1. b \in live /\ synonym[b] = x
  BY LinkBefore
<1>2. CutOut(x) = [synonym EXCEPT ![b] = synonym[x], ![x] = x]
  BY DEF CutOut
<1> HIDE DEF b
<1>3. Linked(live \ {x}, [synonym EXCEPT ![b] = synonym[x], ![x] = x], D, P)
  BY <1>1, LinkCut
<1> QED  BY <1>2, <1>3

\* A canon is found where it is, and the rest of its ring finds the next.
LEMMA KillStep ==
    ASSUME IInv, NEW x \in doomed, GC_Kill_Interning(x)
    PROVE  IInv'
<1>1. /\ doomed' = doomed \ {x} /\ live' = live \ {x}
      /\ synonym' = CutOut(x)
      /\ UNCHANGED <<phase, wanted, numSlots, inUse>>
      /\ UNCHANGED <<grown, grownSize, oldSlot>>
  BY DEF GC_Kill_Interning, growth
<1>2. /\ x \in live /\ x \in Strings /\ phase \in {"idle", "down"}
      /\ oldSlot = 0 /\ inUse < numSlots
  BY TableIs DEF IInv, Types, Room, Growing
<1>3. PICK n \in Nat \ {0} : n = numSlots /\ slots \in [0..(n - 1) -> Slot]
  BY TableIs
<1>4. PICK O : Linked(live, synonym, canons, O)
  BY DEF IInv, Owned
<1>5. Types'
  <2>1. IsFiniteSet(live \ {x})
    BY FS_RemoveElement DEF IInv, Types
  <2>2. OneCopy(live \ {x}) /\ doomed \ {x} \subseteq live \ {x}
    BY DEF IInv, Types, OneCopy
  <2> QED  BY <1>1, <2>1, <2>2 DEF IInv, Types
<1>6. Growing' /\ Room'
  <2>1. Growing'
    BY <1>1, <1>2 DEF IInv, Growing, Free
  <2>2. Room'
    BY <1>1, <1>2 DEF Room
  <2> QED  BY <2>1, <2>2
<1>7. SUFFICES /\ Owned'
               /\ Canonical(live \ {x}, canons')
               /\ Tidy(slots', n, canons')
               /\ inUse = Cardinality(Taken(slots', n, 0))
               /\ deleteds' = Cardinality(Dead(slots', n, 0))
  BY <1>1, <1>2, <1>3, <1>5, <1>6 DEF IInv, Counted
<1>8. /\ inUse = Cardinality(Taken(slots, n, 0))
      /\ deleteds = Cardinality(Dead(slots, n, 0))
      /\ Dead(slots, n, 0) \subseteq 0..(n - 1)
      /\ Tidy(slots, n, canons) /\ canons \subseteq Strings
  BY <1>2, <1>3, TableIs DEF IInv, Counted, Dead
<1>9. CASE x \notin canons
  <2>1. UNCHANGED <<slots, canons, deleteds>>
    BY <1>9 DEF GC_Kill_Interning
  <2>2. Canonical(live \ {x}, canons)
    BY <1>9 DEF IInv, Canonical
  <2>3. Divided(live, O, x, canons, O)
    BY <1>2, <1>4, <1>9 DEF Linked, Divided
  <2>4. Linked(live \ {x}, CutOut(x), canons, O)
    BY <1>2, <1>4, <2>3, CutLinked
  <2> QED  BY <1>1, <1>8, <2>1, <2>2, <2>4 DEF Owned
<1>10. CASE x \in canons
  <2>1. PICK k \in 0..(n - 1) :
           /\ slots[k] = x
           /\ IF synonym[x] # x THEN Promote(x, k) ELSE Vacate(x, k)
    <3>1. KillStops(x) # {} /\ KillStops(x) \subseteq Nat
      BY <1>3, <1>10 DEF GC_Kill_Interning, KillStops
    <3>2. Least(KillStops(x)) \in KillStops(x)
      BY <3>1, LeastIs
    <3>3. PICK i \in 0..(n - 1) :
             i = Least(KillStops(x)) /\ slots[Probe(Spell(x), n, i)] = x
      BY <1>3, <3>2 DEF KillStops
    <3>4. Probe(Spell(x), n, i) \in 0..(n - 1)
      BY <1>2, ClassIs, ProbeIs
    <3>5. IF synonym[x] # x THEN Promote(x, Probe(Spell(x), n, i))
                            ELSE Vacate(x, Probe(Spell(x), n, i))
      BY <1>3, <1>10, <3>3 DEF GC_Kill_Interning
    <3> QED  BY <3>3, <3>4, <3>5
  <2>2. CASE synonym[x] # x
    <3> DEFINE y == synonym[x]
    <3>1. /\ slots' = [slots EXCEPT ![k] = y]
          /\ canons' = (canons \ {x}) \union {y}
          /\ deleteds' = deleteds
      BY <2>1, <2>2 DEF Promote
    <3>2. /\ y \in live /\ y # x /\ Class(y) = Class(x)
          /\ O[x] = x /\ O[y] = x
      BY <1>2, <1>4, <1>10, <2>2, OwnerIs DEF Linked
    <3>3. y \in Strings \ canons
      BY <1>4, <3>2, TableIs DEF Linked
    <3> HIDE DEF y
    <3>4. Canonical(live \ {x}, canons')
      BY <1>10, <3>1, <3>2 DEF IInv, Canonical, Good
    <3>5. Tidy(slots', n, canons')
      BY <1>8, <1>10, <2>1, <3>1, <3>2, <3>3, HandOverTidy
    <3>6. /\ slots'[k] = y /\ y \in Strings
          /\ \A m \in 0..(n - 1) : m # k => slots'[m] = slots[m]
      BY <1>3, <3>1, <3>3
    <3>7. /\ Taken(slots', n, 0) = Taken(slots, n, 0)
          /\ Dead(slots', n, 0) = Dead(slots, n, 0)
      BY <1>2, <2>1, <3>6, Marks DEF Taken, Dead
    <3>8. Owned'
      <4> DEFINE P == [z \in Strings |-> IF O[z] = x THEN y ELSE O[z]]
                 D == (canons \ {x}) \union {y}
      <4>1. P \in [Strings -> Strings] /\ D \subseteq live \ {x}
        BY <1>4, <3>2, <3>3, TableIs DEF Linked
      <4>2. ASSUME NEW z \in live \ {x}
            PROVE  /\ P[z] = IF O[z] = x THEN y ELSE O[z]
                   /\ P[z] \in D /\ Class(P[z]) = Class(z)
        BY <1>4, <3>2, <3>3 DEF Linked
      <4>3. \A z \in D : P[z] = z
        BY <1>4, <3>2, <3>3 DEF Linked
      <4>4. \A z \in live : O[z] # y
        BY <1>4, <3>3 DEF Linked
      <4> HIDE DEF P, D
      <4>5. \A w, z \in live \ {x} : P[w] = P[z] <=> O[w] = O[z]
        BY <4>2, <4>4
      <4>6. Linked(live \ {x}, CutOut(x), D, P)
        <5>1. Divided(live, O, x, D, P)
          BY <4>1, <4>2, <4>3, <4>5 DEF Divided
        <5> QED  BY <1>2, <1>4, <5>1, CutLinked
      <4> QED  BY <1>1, <3>1, <4>6 DEF Owned, D
    <3> QED  BY <1>8, <3>1, <3>4, <3>5, <3>7, <3>8
  <2>3. CASE synonym[x] = x
    <3>1. /\ slots' = [slots EXCEPT ![k] = Deleted]
          /\ canons' = canons \ {x}
          /\ deleteds' = deleteds + 1
      BY <2>1, <2>3 DEF Vacate
    <3>2. \A y \in live \ {x} :
             O[y] # x /\ O[y] \in canons \ {x} /\ Class(O[y]) = Class(y)
      <4>1. \A y \in live : O[y] = x => y = x
        BY <1>2, <1>4, <2>3, AloneInRing
      <4> QED  BY <1>4, <4>1 DEF Linked
    <3>3. Canonical(live \ {x}, canons')
      BY <3>1, <3>2 DEF IInv, Canonical
    <3>4. Tidy(slots', n, canons')
      BY <1>8, <1>10, <2>1, <3>1, DeleteTidy
    <3>5. /\ slots'[k] = Deleted
          /\ \A m \in 0..(n - 1) : m # k => slots'[m] = slots[m]
      BY <1>3, <3>1
    <3>6. /\ Taken(slots', n, 0) = Taken(slots, n, 0)
          /\ Dead(slots', n, 0) = Dead(slots, n, 0) \union {k}
          /\ k \notin Dead(slots, n, 0)
      BY <1>2, <2>1, <3>5, Marks DEF Taken, Dead
    <3>7. Cardinality(Dead(slots', n, 0)) = Cardinality(Dead(slots, n, 0)) + 1
      BY <1>8, <3>6, SlotsFinite, FS_AddElement
    <3>8. Linked(live \ {x}, CutOut(x), canons \ {x}, O)
      <4>1. Divided(live, O, x, canons \ {x}, O)
        BY <1>4, <3>2 DEF Linked, Divided
      <4> QED  BY <1>2, <1>4, <4>1, CutLinked
    <3> QED  BY <1>1, <1>8, <3>1, <3>3, <3>4, <3>6, <3>7, <3>8 DEF Owned
  <2> QED  BY <2>2, <2>3
<1> QED  BY <1>9, <1>10

\* A step that changes nothing keeps the invariant.
LEMMA StutterStep ==
    ASSUME IInv, UNCHANGED vars
    PROVE  IInv'
<1>1. Types' /\ Owned' /\ Canonical(live, canons)'
  BY DEF IInv, vars, Types, OneCopy, Owned, Canonical
<1>2. Tidy(slots, numSlots, canons)'
  BY DEF IInv, vars, Tidy, OnPath
<1>3. Counted'
  BY DEF IInv, vars, Counted, Taken, Dead
<1>4. Growing'
  BY DEF IInv, vars, Growing
<1>5. Room'
  BY DEF IInv, vars, Room
<1> QED  BY <1>1, <1>2, <1>3, <1>4, <1>5 DEF IInv

----------------------------------------------------------------------------
(* The theorems.                                                           *)

\* Interning, rehashing and collection keep the table, the rings, the canons
\* and the counters in agreement.
THEOREM Invariance == Spec => []IInv
<1>1. Init => IInv
  BY InitIInv
<1>2. IInv /\ [Next]_vars => IInv'
  <2> SUFFICES ASSUME IInv, [Next]_vars  PROVE IInv'
    OBVIOUS
  <2>1. ASSUME NEW s \in Spellings, Intern_UTF8_Managed(s)  PROVE IInv'
    BY <2>1, InternStep
  <2>2. CASE Rehash_Slot
    BY <2>2, RehashSlotStep
  <2>3. CASE Rehash_Done
    BY <2>3, RehashDoneStep
  <2>4. CASE Intern_Existing
    BY <2>4, ExistingStep
  <2>5. CASE Intern_Synonym
    BY <2>5, SynonymStep
  <2>6. CASE Intern_Canon
    BY <2>6, CanonStep
  <2>7. ASSUME NEW dead \in SUBSET {x \in live : Spell(x) \notin Words},
               Recycle(dead)
        PROVE  IInv'
    <3>1. dead \in SUBSET live
      OBVIOUS
    <3> QED  BY <2>7, <3>1, CollectStep
  <2>8. CASE Shutdown
    <3>1. {} \in SUBSET live
      OBVIOUS
    <3> QED  BY <2>8, <3>1, CollectStep
  <2>9. ASSUME NEW x \in doomed, GC_Kill_Interning(x)  PROVE IInv'
    BY <2>9, KillStep
  <2>10. CASE UNCHANGED vars
    BY <2>10, StutterStep
  <2> QED
    BY <2>1, <2>2, <2>3, <2>4, <2>5, <2>6, <2>7, <2>8, <2>9, <2>10 DEF Next
<1> QED  BY <1>1, <1>2, PTL DEF Spec

\* What a search for a word that hashes alike finds is determined by the
\* canons.
LEMMA LookupIs ==
    ASSUME IInv, NEW s \in Spellings, Fold[s] \in AlikeClasses
    PROVE  /\ \A x \in canons : Class(x) = Fold[s] => Lookup(s) = x
           /\ (\A x \in canons : Class(x) # Fold[s]) => Lookup(s) = Null
<1>1. ASSUME NEW x \in canons, Class(x) = Fold[s]  PROVE Lookup(s) = x
  BY <1>1, FoundCanon DEF Lookup, Good
<1>2. ASSUME \A x \in canons : Class(x) # Fold[s]  PROVE Lookup(s) = Null
  BY <1>2, FoundAny DEF Lookup
<1> QED  BY <1>1, <1>2

\* The invariant implies each of the properties that the runs check.
LEMMA Consequences ==
    IInv => CanonFound /\ RingIsClass /\ SlotsCounted /\ VacancyLeft
<1> SUFFICES ASSUME IInv
             PROVE  CanonFound /\ RingIsClass /\ SlotsCounted /\ VacancyLeft
  OBVIOUS
<1>1. PICK n \in Nat \ {0} :
         n = numSlots /\ slots \in [0..(n - 1) -> Slot]
  BY TableIs
<1>2. DOMAIN slots = 0..(n - 1)
  BY <1>1
<1>3. CanonFound
  <2>1. /\ \A x \in canons : \E i \in DOMAIN slots : slots[i] = x
        /\ \A i \in DOMAIN slots : slots[i] \in Strings =>
              /\ slots[i] \in canons
              /\ \A j \in DOMAIN slots : slots[j] = slots[i] => j = i
    BY <1>1, <1>2 DEF IInv, Tidy
  <2>2. ASSUME NEW s \in AlikeSpellings
        PROVE  /\ s \in Spellings /\ Fold[s] \in Classes
               /\ Fold[s] \in AlikeClasses
    BY SymbolTableAssumption DEF AlikeSpellings, AlikeClasses
  <2>3. ASSUME NEW s \in AlikeSpellings, Members(Fold[s]) = {}
        PROVE  Lookup(s) = Null
    <3>1. \A x \in canons : Class(x) # Fold[s]
      BY <2>3, TableIs DEF Members
    <3> QED  BY <2>2, <3>1, LookupIs
  <2>4. ASSUME NEW s \in AlikeSpellings, Members(Fold[s]) # {}
        PROVE  Members(Fold[s]) \intersect canons = {Lookup(s)}
    <3>1. PICK y \in canons : Class(y) = Fold[s]
      BY <2>4 DEF Members, IInv, Canonical
    <3>2. Lookup(s) = y
      BY <2>2, <3>1, LookupIs
    <3>3. Members(Fold[s]) \intersect canons = {y}
      BY <2>2, <3>1 DEF Members, IInv, Canonical, Good
    <3> QED  BY <3>2, <3>3
  <2> QED  BY <2>1, <2>3, <2>4 DEF CanonFound
<1>4. RingIsClass
  <2> SUFFICES ASSUME NEW x \in live
               PROVE  /\ \E y \in canons : Ring(x) \intersect canons = {y}
                      /\ Ring(x) \subseteq Members(Class(x))
                      /\ Class(x) \in AlikeClasses =>
                            Ring(x) = Members(Class(x))
    BY DEF RingIsClass
  <2>1. PICK O : Linked(live, synonym, canons, O)
    BY DEF IInv, Owned
  <2>2. Ring(x) = RingOf(live, O, O[x])
    BY <2>1, RingMembers DEF IInv, Types
  <2>3. /\ O[x] \in canons /\ Class(O[x]) = Class(x)
        /\ O[x] \in live /\ O[O[x]] = O[x]
    BY <2>1 DEF Linked
  <2>4. RingOf(live, O, O[x]) \intersect canons = {O[x]}
    BY <2>1, <2>3 DEF RingOf, Linked
  <2>5. RingOf(live, O, O[x]) \subseteq Members(Class(x))
    <3> SUFFICES ASSUME NEW z \in live, O[z] = O[x]
                 PROVE  Class(z) = Class(x)
      BY DEF RingOf, Members
    <3>1. Class(O[z]) = Class(z)
      BY <2>1 DEF Linked
    <3> QED  BY <2>3, <3>1
  <2>6. ASSUME Class(x) \in AlikeClasses,
               NEW z \in live, Class(z) = Class(x)
        PROVE  O[z] = O[x]
    <3>1. O[z] \in canons /\ Class(O[z]) = Class(z)
      BY <2>1 DEF Linked
    <3> QED  BY <2>3, <2>6, <3>1 DEF IInv, Canonical, Good
  <2> QED  BY <2>2, <2>3, <2>4, <2>5, <2>6 DEF RingOf, Members
<1>5. SlotsCounted
  <2>1. /\ grownSize \in PrimeSizes \union {1}
        /\ grown \in [0..(grownSize - 1) -> Slot]
        /\ oldSlot \in 0..numSlots
    <3>1. CASE phase = "rehash"
      BY <3>1 DEF IInv, Growing, Tidy
    <3>2. CASE phase # "rehash"
      <4>1. grown = Free(1) /\ grownSize = 1 /\ oldSlot = 0
        BY <3>2 DEF IInv, Growing
      <4>2. Free(1) \in [0..(1 - 1) -> Slot]
        BY Marks DEF Free
      <4> QED  BY <1>1, <4>1, <4>2
    <3> QED  BY <3>1, <3>2
  <2>2. TypeOK
    BY <1>1, <2>1, TableIs, CountersAre
    DEF TypeOK, IInv, Types, Sizes, Canonical
  <2>3. ASSUME phase # "rehash"
        PROVE  /\ inUse = Cardinality({i \in DOMAIN slots : slots[i] # Null})
               /\ deleteds =
                    Cardinality({i \in DOMAIN slots : slots[i] = Deleted})
    <3>1. oldSlot = 0
      BY <2>3 DEF IInv, Growing
    <3>2. Taken(slots, n, 0) = {i \in DOMAIN slots : slots[i] # Null}
      BY <1>1, <1>2, AllTaken DEF Used
    <3>3. Dead(slots, n, 0) = {i \in DOMAIN slots : slots[i] = Deleted}
      BY <1>2 DEF Dead
    <3> QED  BY <1>1, <3>1, <3>2, <3>3 DEF IInv, Counted
  <2> QED  BY <2>2, <2>3 DEF SlotsCounted
<1>6. VacancyLeft
  <2> SUFFICES ASSUME phase = "search" \/ doomed # {}
               PROVE  \E i \in DOMAIN slots : slots[i] = Null
    BY DEF VacancyLeft
  <2>1. inUse < numSlots /\ oldSlot = 0
    BY <1>1, CountersAre DEF IInv, Room, Growing
  <2>2. SUFFICES ASSUME \A i \in 0..(n - 1) : slots[i] # Null  PROVE FALSE
    BY <1>2
  <2>3. Taken(slots, n, 0) = 0..(n - 1)
    BY <1>1, <2>2, AllTaken DEF Used
  <2>4. Cardinality(0..(n - 1)) = n
    <3>1. 0 \in Int /\ n - 1 \in Int
      OBVIOUS
    <3>2. Cardinality(0..(n - 1)) = IF 0 > n - 1 THEN 0 ELSE (n - 1) - 0 + 1
      BY <3>1, FS_Interval
    <3> QED  BY <3>2
  <2> QED  BY <1>1, <2>1, <2>3, <2>4 DEF IInv, Counted
<1> QED  BY <1>3, <1>4, <1>5, <1>6

\* However words are collected and the table rehashed, every canon has one
\* slot, and a word whose casings hash alike is found at its one canon, in a
\* table that it shares with words whose casings do not.
THEOREM CanonAlwaysFound == Spec => []CanonFound
BY Invariance, Consequences, PTL

\* A walk round the synonyms of a word meets one canon and no other word;
\* it meets all the casings of the word, if they hash alike.
THEOREM RingAlwaysClass == Spec => []RingIsClass
BY Invariance, Consequences, PTL

\* PG_Num_Canon_Slots_In_Use and PG_Num_Canon_Deleteds are what is in the
\* table, whenever it is not being rehashed.
THEOREM SlotsAlwaysCounted == Spec => []SlotsCounted
BY Invariance, Consequences, PTL

\* No probing loop can go round for ever: there is a vacant slot.
THEOREM VacancyAlwaysLeft == Spec => []VacancyLeft
BY Invariance, Consequences, PTL

----------------------------------------------------------------------------
(* The refinement.                                                         *)

\* The spellings of the strings L, and the canons C by class.
Copies(L) ==
    [s \in AlikeSpellings |-> IF \E x \in L : Spell(x) = s THEN 1 ELSE 0]
CanonOf(C) ==
    [c \in AlikeClasses |-> IF \E x \in C : Class(x) = c
                               THEN Spell(CHOOSE x \in C : Class(x) = c)
                               ELSE NoSpelling]

\* What SymbolTable puts for the variables of Interning.
CopiesBar ==
    [s \in AlikeSpellings |-> Cardinality({x \in live : Spell(x) = s})]
CanonBar ==
    [c \in AlikeClasses |->
        IF \E x \in canons : Class(x) = c
           THEN Spell(CHOOSE x \in canons : Class(x) = c)
           ELSE NoSpelling]

\* A string that is seen has a spelling that is, and conversely.
LEMMA SeenIs ==
    ASSUME NEW x \in Strings
    PROVE  /\ Good(x) <=> Spell(x) \in AlikeSpellings
           /\ Fold[Spell(x)] = Class(x)
<1>1. Fold[Spell(x)] = Class(x)
  BY DEF Class, Spell
<1> QED  BY <1>1, ClassIs DEF Good, AlikeSpellings, AlikeClasses

\* CanonOf gives the spelling of the one canon of a class.
LEMMA CanonOfIs ==
    ASSUME NEW L, NEW C, C \subseteq Strings, Canonical(L, C),
           NEW c \in AlikeClasses
    PROVE  /\ \A x \in C : Class(x) = c => CanonOf(C)[c] = Spell(x)
           /\ (\A x \in C : Class(x) # c) => CanonOf(C)[c] = NoSpelling
<1>1. ASSUME NEW x \in C, Class(x) = c  PROVE CanonOf(C)[c] = Spell(x)
  <2> DEFINE y == CHOOSE y \in C : Class(y) = c
  <2>1. y \in C /\ Class(y) = c
    BY <1>1
  <2>2. y = x
    BY <1>1, <2>1 DEF Canonical, Good
  <2> QED  BY <1>1, <2>2 DEF CanonOf
<1>2. ASSUME \A x \in C : Class(x) # c  PROVE CanonOf(C)[c] = NoSpelling
  BY <1>2 DEF CanonOf
<1> QED  BY <1>1, <1>2

\* The canon of a class depends on the canons of that class only.
LEMMA CanonOfSame ==
    ASSUME NEW L, NEW C, C \subseteq Strings, Canonical(L, C),
           NEW K, NEW D, D \subseteq Strings, Canonical(K, D),
           NEW d \in AlikeClasses,
           \A x \in Strings : Class(x) = d => (x \in C <=> x \in D)
    PROVE  CanonOf(C)[d] = CanonOf(D)[d]
<1>1. CASE \A x \in C : Class(x) # d
  <2>1. \A x \in D : Class(x) # d
    BY <1>1
  <2>2. CanonOf(C)[d] = NoSpelling
    BY <1>1, CanonOfIs
  <2>3. CanonOf(D)[d] = NoSpelling
    BY <2>1, CanonOfIs
  <2> QED  BY <2>2, <2>3
<1>2. ASSUME NEW x \in C, Class(x) = d
      PROVE  CanonOf(C)[d] = CanonOf(D)[d]
  <2>1. x \in D
    BY <1>2
  <2>2. CanonOf(C)[d] = Spell(x)
    BY <1>2, CanonOfIs
  <2>3. CanonOf(D)[d] = Spell(x)
    BY <1>2, <2>1, CanonOfIs
  <2> QED  BY <2>2, <2>3
<1> QED  BY <1>1, <1>2

\* A class gets another canon, or loses it.
LEMMA CanonOfExcept ==
    ASSUME NEW L, NEW C, C \subseteq Strings, Canonical(L, C),
           NEW K, NEW D, D \subseteq Strings, Canonical(K, D),
           NEW c \in AlikeClasses,
           \A x \in Strings : Class(x) # c => (x \in C <=> x \in D)
    PROVE  CanonOf(D) = [CanonOf(C) EXCEPT ![c] = CanonOf(D)[c]]
<1> DEFINE E == [CanonOf(C) EXCEPT ![c] = CanonOf(D)[c]]
<1>1. /\ E = [d \in AlikeClasses |-> E[d]]
      /\ CanonOf(D) = [d \in AlikeClasses |-> CanonOf(D)[d]]
      /\ E[c] = CanonOf(D)[c]
      /\ \A d \in AlikeClasses : d # c => E[d] = CanonOf(C)[d]
  BY DEF CanonOf
<1> HIDE DEF E
<1>2. ASSUME NEW d \in AlikeClasses  PROVE E[d] = CanonOf(D)[d]
  <2>1. CASE d = c
    BY <1>1, <2>1
  <2>2. CASE d # c
    <3>1. CanonOf(C)[d] = CanonOf(D)[d]
      BY <2>2, CanonOfSame
    <3> QED  BY <1>1, <2>2, <3>1
  <2> QED  BY <2>1, <2>2
<1>3. E = CanonOf(D)
  BY <1>1, <1>2
<1> QED  BY <1>3 DEF E

\* In a state of the invariant the mapping is a matter of which strings are
\* live and which are canons.
LEMMA Mapped ==
    IInv => CopiesBar = Copies(live) /\ CanonBar = CanonOf(canons)
<1> SUFFICES ASSUME IInv
             PROVE  CopiesBar = Copies(live) /\ CanonBar = CanonOf(canons)
  OBVIOUS
<1>1. ASSUME NEW s \in AlikeSpellings
      PROVE  Cardinality({x \in live : Spell(x) = s})
               = IF \E x \in live : Spell(x) = s THEN 1 ELSE 0
  <2>1. ASSUME NEW x \in live, Spell(x) = s
        PROVE  Cardinality({y \in live : Spell(y) = s}) = 1
    <3>1. Good(x)
      BY <2>1, TableIs, SeenIs
    <3>2. {y \in live : Spell(y) = s} = {x}
      BY <2>1, <3>1 DEF IInv, Types, OneCopy
    <3> QED  BY <3>2, FS_Singleton
  <2>2. ASSUME \A x \in live : Spell(x) # s
        PROVE  Cardinality({y \in live : Spell(y) = s}) = 0
    <3>1. {y \in live : Spell(y) = s} = {}
      BY <2>2
    <3> QED  BY <3>1, FS_EmptySet
  <2> QED  BY <2>1, <2>2
<1>2. CopiesBar = Copies(live)
  BY <1>1 DEF CopiesBar, Copies
<1>3. CanonBar = CanonOf(canons)
  BY DEF CanonBar, CanonOf
<1> QED  BY <1>2, <1>3

\* A string that does not hash alike can come and go without being seen.
LEMMA Unseen ==
    ASSUME IInv, IInv',
           \A x \in Strings : Good(x) => /\ x \in live <=> x \in live'
                                         /\ x \in canons <=> x \in canons'
    PROVE  /\ Copies(live') = Copies(live)
           /\ CanonOf(canons') = CanonOf(canons)
<1>1. /\ live \subseteq Strings /\ live' \subseteq Strings
      /\ canons \subseteq Strings /\ canons' \subseteq Strings
      /\ Canonical(live, canons) /\ Canonical(live', canons')
  BY DEF IInv, Owned, Linked, Canonical
<1>2. ASSUME NEW s \in AlikeSpellings
      PROVE  (\E x \in live' : Spell(x) = s) <=> (\E x \in live : Spell(x) = s)
  BY <1>1, SeenIs
<1>3. Copies(live') = Copies(live)
  BY <1>2 DEF Copies
<1>4. ASSUME NEW c \in AlikeClasses
      PROVE  CanonOf(canons')[c] = CanonOf(canons)[c]
  <2>1. \A x \in Strings : Class(x) = c => (x \in canons' <=> x \in canons)
    BY DEF Good
  <2> QED  BY <1>1, <2>1, CanonOfSame
<1>5. /\ CanonOf(canons) = [c \in AlikeClasses |-> CanonOf(canons)[c]]
      /\ CanonOf(canons') = [c \in AlikeClasses |-> CanonOf(canons')[c]]
  BY DEF CanonOf
<1>6. CanonOf(canons') = CanonOf(canons)
  BY <1>4, <1>5
<1> QED  BY <1>3, <1>6

\* A new string of a class that has a canon.
LEMMA SynonymImplements ==
    ASSUME IInv, Intern_Synonym, Fold[wanted] \in AlikeClasses
    PROVE  \E s \in AlikeSpellings :
              /\ Copies(live)[s] = 0
              /\ Copies(live') = [Copies(live) EXCEPT ![s] = 1]
              /\ CanonOf(canons)[Fold[s]] # NoSpelling
              /\ CanonOf(canons') = CanonOf(canons)
<1>1. /\ wanted \in AlikeSpellings /\ wanted \in Spellings
      /\ canons' = canons
  BY SearchIs DEF Intern_Synonym, AlikeSpellings, AlikeClasses
<1>2. PICK s \in Strings \ live :
         Spell(s) = wanted /\ live' = live \union {s}
  BY SynonymMade
<1>3. Copies(live)[wanted] = 0
  BY <1>1, SynonymMade DEF Copies
<1>4. Copies(live \union {s}) = [Copies(live) EXCEPT ![wanted] = 1]
  BY <1>1, <1>2 DEF Copies
<1>5. CanonOf(canons)[Fold[wanted]] # NoSpelling
  <2>1. Found \in canons /\ Class(Found) = Fold[wanted]
    BY SynonymMade
  <2>2. canons \subseteq Strings /\ Canonical(live, canons)
    BY TableIs DEF IInv
  <2>3. CanonOf(canons)[Fold[wanted]] = Spell(Found)
    BY <1>1, <2>1, <2>2, CanonOfIs
  <2>4. Spell(Found) \in Spellings
    BY <2>1, <2>2, ClassIs
  <2> QED  BY <2>3, <2>4, SymbolTableAssumption
<1> QED  BY <1>1, <1>2, <1>3, <1>4, <1>5

\* The first string of a class.
LEMMA CanonImplements ==
    ASSUME IInv, IInv', Intern_Canon, Fold[wanted] \in AlikeClasses
    PROVE  \E s \in AlikeSpellings :
              /\ Copies(live)[s] = 0
              /\ Copies(live') = [Copies(live) EXCEPT ![s] = 1]
              /\ CanonOf(canons)[Fold[s]] = NoSpelling
              /\ CanonOf(canons') = [CanonOf(canons) EXCEPT ![Fold[s]] = s]
<1> DEFINE c == Fold[wanted]
<1>1. /\ wanted \in AlikeSpellings /\ wanted \in Spellings
      /\ c \in AlikeClasses
  BY SearchIs DEF Intern_Canon, AlikeSpellings, AlikeClasses
<1>2. PICK s \in Fresh : live' = live \union {s} /\ canons' = canons \union {s}
  BY DEF Intern_Canon
<1>3. s \in Strings /\ Spell(s) = wanted /\ Class(s) = c
  BY DEF Fresh, Spell, Class
<1>4. \A x \in live : Class(x) # c
  BY <1>1, SearchIs, FoundIs DEF Intern_Canon
<1>5. \A x \in live : Spell(x) # wanted
  BY <1>4 DEF Class, Spell
<1>6. Copies(live)[wanted] = 0
  BY <1>1, <1>5 DEF Copies
<1>7. Copies(live \union {s}) = [Copies(live) EXCEPT ![wanted] = 1]
  BY <1>1, <1>3 DEF Copies
<1>8. /\ canons \subseteq Strings /\ Canonical(live, canons)
      /\ \A x \in canons : Class(x) # c
  BY <1>4, TableIs DEF IInv
<1>9. CanonOf(canons)[c] = NoSpelling
  BY <1>1, <1>8, CanonOfIs
<1>10. canons \union {s} \subseteq Strings
       /\ Canonical(live', canons \union {s})
  BY <1>2, <1>3, <1>8 DEF IInv
<1> HIDE DEF c
<1>11. CanonOf(canons \union {s})[c] = wanted
  BY <1>1, <1>3, <1>10, CanonOfIs
<1>12. CanonOf(canons \union {s}) = [CanonOf(canons) EXCEPT ![c] = wanted]
  <2>1. \A x \in Strings :
           Class(x) # c => (x \in canons <=> x \in canons \union {s})
    BY <1>3
  <2>2. CanonOf(canons \union {s})
          = [CanonOf(canons) EXCEPT ![c] = CanonOf(canons \union {s})[c]]
    BY <1>1, <1>8, <1>10, <2>1, CanonOfExcept
  <2> QED  BY <1>11, <2>2
<1> QED  BY <1>1, <1>2, <1>6, <1>7, <1>9, <1>12 DEF c

\* What the sweep does to the canons.
LEMMA KillIs ==
    ASSUME IInv, NEW x \in doomed, GC_Kill_Interning(x)
    PROVE  /\ x \in live /\ x \in Strings /\ live' = live \ {x}
           /\ \/ x \notin canons /\ canons' = canons
              \/ /\ x \in canons /\ synonym[x] \in live
                 /\ synonym[x] # x /\ Class(synonym[x]) = Class(x)
                 /\ canons' = (canons \ {x}) \union {synonym[x]}
              \/ /\ x \in canons /\ canons' = canons \ {x}
                 /\ Good(x) => \A y \in live : Class(y) = Class(x) => y = x
<1>1. x \in live /\ x \in Strings /\ live' = live \ {x}
  BY TableIs DEF IInv, Types, GC_Kill_Interning
<1> PICK O : Linked(live, synonym, canons, O)
  BY DEF IInv, Owned
<1>2. synonym[x] \in live /\ Class(synonym[x]) = Class(x)
  BY <1>1, OwnerIs
<1>3. ASSUME synonym[x] = x, Good(x), NEW y \in live, Class(y) = Class(x)
      PROVE  y = x
  <2>1. x \in canons /\ (O[y] = x => y = x)
    BY <1>1, <1>3, AloneInRing
  <2>2. O[y] \in canons /\ Class(O[y]) = Class(y)
    BY DEF Linked
  <2> QED  BY <1>3, <2>1, <2>2 DEF IInv, Canonical
<1> QED  BY <1>1, <1>2, <1>3 DEF GC_Kill_Interning, Promote, Vacate

\* A spelling is forgotten, and another of its class becomes the canon if it
\* was the canon and there is another.
LEMMA KillImplements ==
    ASSUME IInv, IInv', NEW x \in doomed, GC_Kill_Interning(x), Good(x)
    PROVE  \E s \in AlikeSpellings :
              /\ Copies(live)[s] = 1
              /\ Copies(live') = [Copies(live) EXCEPT ![s] = 0]
              /\ LET c == Fold[s]
                     rest == {t \in AlikeSpellings \ {s} :
                                 Fold[t] = c /\ Copies(live)[t] = 1}
                 IN  \/ /\ CanonOf(canons)[c] # s
                        /\ CanonOf(canons') = CanonOf(canons)
                     \/ /\ CanonOf(canons)[c] = s
                        /\ \E t \in rest \union {NoSpelling} :
                              /\ t = NoSpelling <=> rest = {}
                              /\ CanonOf(canons')
                                   = [CanonOf(canons) EXCEPT ![c] = t]
<1> DEFINE s == Spell(x)
           c == Class(x)
           rest == {t \in AlikeSpellings \ {s} :
                       Fold[t] = c /\ Copies(live)[t] = 1}
<1>1. x \in live /\ x \in Strings /\ live' = live \ {x}
  BY KillIs
<1>2. s \in AlikeSpellings /\ c \in AlikeClasses /\ Fold[s] = c
  BY <1>1, SeenIs DEF Good
<1>3. \A y \in live : Spell(y) = s => y = x
  BY <1>1, <1>2 DEF IInv, Types, OneCopy
<1>4. Copies(live)[s] = 1
  BY <1>1, <1>2 DEF Copies
<1>5. Copies(live \ {x}) = [Copies(live) EXCEPT ![s] = 0]
  BY <1>1, <1>2, <1>3 DEF Copies
<1>6. /\ canons \subseteq Strings /\ Canonical(live, canons)
      /\ canons' \subseteq Strings /\ Canonical(live', canons')
  <2>1. canons \subseteq Strings /\ Canonical(live, canons)
    BY TableIs DEF IInv
  <2>2. live' \subseteq Strings /\ Canonical(live', canons')
    BY DEF IInv, Owned, Linked
  <2> QED  BY <2>1, <2>2 DEF Canonical
<1>7. rest = {Spell(y) : y \in {z \in live : Class(z) = c /\ z # x}}
  <2>1. ASSUME NEW t \in rest
        PROVE  \E y \in live : Class(y) = c /\ y # x /\ t = Spell(y)
    <3>1. t \in AlikeSpellings /\ t # s /\ Fold[t] = c /\ Copies(live)[t] = 1
      OBVIOUS
    <3>2. PICK y \in live : Spell(y) = t
      BY <3>1 DEF Copies
    <3> QED  BY <3>1, <3>2 DEF Class, Spell
  <2>2. ASSUME NEW y \in live, Class(y) = c, y # x
        PROVE  Spell(y) \in rest
    <3>1. Spell(y) \in AlikeSpellings /\ Spell(y) # s
      BY <1>2, <1>3, <2>2, TableIs, SeenIs DEF Good
    <3>2. Copies(live)[Spell(y)] = 1
      BY <3>1 DEF Copies
    <3>3. Fold[Spell(y)] = c
      BY <2>2 DEF Class, Spell
    <3> QED  BY <3>1, <3>2, <3>3
  <2> HIDE DEF rest
  <2> QED  BY <2>1, <2>2
<1>8. rest \subseteq Spellings /\ NoSpelling \notin rest
  BY SymbolTableAssumption DEF AlikeSpellings
<1> HIDE DEF s, c, rest
<1>9. CASE x \notin canons /\ canons' = canons
  <2>1. PICK y \in canons : Class(y) = c
    BY <1>1, <1>6 DEF Canonical, c
  <2>2. CanonOf(canons)[c] = Spell(y)
    BY <1>2, <1>6, <2>1, CanonOfIs
  <2>3. Spell(y) # s
    BY <1>3, <1>9, TableIs
  <2> QED  BY <1>1, <1>2, <1>4, <1>5, <1>9, <2>2, <2>3
<1>10. ASSUME x \in canons,
              NEW t \in rest \union {NoSpelling},
              t = NoSpelling <=> rest = {},
              CanonOf(canons')[c] = t,
              \A z \in Strings :
                 Class(z) # c => (z \in canons <=> z \in canons')
       PROVE  \E r \in AlikeSpellings :
                 /\ Copies(live)[r] = 1
                 /\ Copies(live') = [Copies(live) EXCEPT ![r] = 0]
                 /\ CanonOf(canons)[Fold[r]] = r
                 /\ \E q \in {p \in AlikeSpellings \ {r} :
                                 /\ Fold[p] = Fold[r]
                                 /\ Copies(live)[p] = 1} \union {NoSpelling} :
                       /\ q = NoSpelling <=>
                             {p \in AlikeSpellings \ {r} :
                                /\ Fold[p] = Fold[r]
                                /\ Copies(live)[p] = 1} = {}
                       /\ CanonOf(canons')
                            = [CanonOf(canons) EXCEPT ![Fold[r]] = q]
  <2>1. CanonOf(canons)[c] = s
    BY <1>2, <1>6, <1>10, CanonOfIs DEF s, c
  <2>2. CanonOf(canons')
          = [CanonOf(canons) EXCEPT ![c] = CanonOf(canons')[c]]
    BY <1>2, <1>6, <1>10, CanonOfExcept
  <2>3. {p \in AlikeSpellings \ {s} : Fold[p] = Fold[s] /\ Copies(live)[p] = 1}
          = rest
    BY <1>2 DEF rest
  <2> QED  BY <1>1, <1>2, <1>4, <1>5, <1>10, <2>1, <2>2, <2>3
<1>11. CASE /\ x \in canons /\ synonym[x] \in live
            /\ synonym[x] # x /\ Class(synonym[x]) = Class(x)
            /\ canons' = (canons \ {x}) \union {synonym[x]}
  <2> DEFINE y == synonym[x]
  <2>1. Spell(y) \in rest
    BY <1>7, <1>11 DEF c
  <2>2. CanonOf(canons')[c] = Spell(y)
    BY <1>2, <1>6, <1>11, CanonOfIs DEF c
  <2>3. \A z \in Strings : Class(z) # c => (z \in canons <=> z \in canons')
    BY <1>11 DEF c
  <2> QED  BY <1>8, <1>10, <1>11, <2>1, <2>2, <2>3
<1>12. CASE /\ x \in canons /\ canons' = canons \ {x}
            /\ \A y \in live : Class(y) = Class(x) => y = x
  <2>1. rest = {}
    BY <1>7, <1>12 DEF c
  <2>2. \A z \in canons' : Class(z) # c
    BY <1>6, <1>12 DEF c, Canonical
  <2>3. CanonOf(canons')[c] = NoSpelling
    BY <1>2, <1>6, <2>2, CanonOfIs
  <2>4. \A z \in Strings : Class(z) # c => (z \in canons <=> z \in canons')
    BY <1>12 DEF c
  <2> QED  BY <1>10, <1>12, <2>1, <2>3, <2>4
<1> QED  BY <1>9, <1>11, <1>12, KillIs

\* A step of the table is a step of Interning or leaves what Interning sees
\* as it is.
LEMMA StepImplements ==
    ASSUME IInv, IInv', [Next]_vars,
           CopiesBar = Copies(live), CanonBar = CanonOf(canons),
           CopiesBar' = Copies(live'), CanonBar' = CanonOf(canons')
    PROVE  [Implemented!Next]_(Implemented!vars)
<1>1. SUFFICES \/ \E s \in AlikeSpellings : Implemented!Intern(s)
               \/ \E s \in AlikeSpellings : Implemented!Forget(s)
               \/ CopiesBar' = CopiesBar /\ CanonBar' = CanonBar
  BY DEF Implemented!Next, Implemented!vars, CopiesBar, CanonBar
<1>2. ASSUME UNCHANGED <<live, canons>>
      PROVE  CopiesBar' = CopiesBar /\ CanonBar' = CanonBar
  BY <1>2
<1>0. ASSUME \A x \in Strings : Good(x) =>
                /\ x \in live <=> x \in live'
                /\ x \in canons <=> x \in canons'
      PROVE  CopiesBar' = CopiesBar /\ CanonBar' = CanonBar
  BY <1>0, Unseen
<1>3. CASE Intern_Synonym /\ Fold[wanted] \in AlikeClasses
  <2>1. PICK s \in AlikeSpellings :
           /\ CopiesBar[s] = 0
           /\ CopiesBar' = [CopiesBar EXCEPT ![s] = 1]
           /\ CanonBar[Fold[s]] # NoSpelling
           /\ CanonBar' = CanonBar
    BY <1>3, SynonymImplements
  <2>2. Implemented!Intern(s)
    BY <2>1 DEF Implemented!Intern, CopiesBar, CanonBar
  <2> QED  BY <2>2
<1>4. CASE Intern_Canon /\ Fold[wanted] \in AlikeClasses
  <2>1. PICK s \in AlikeSpellings :
           /\ CopiesBar[s] = 0
           /\ CopiesBar' = [CopiesBar EXCEPT ![s] = 1]
           /\ CanonBar[Fold[s]] = NoSpelling
           /\ CanonBar' = [CanonBar EXCEPT ![Fold[s]] = s]
    BY <1>4, CanonImplements
  <2>2. Implemented!Intern(s)
    BY <2>1 DEF Implemented!Intern, CopiesBar, CanonBar
  <2> QED  BY <2>2
<1>5. ASSUME NEW x \in doomed, GC_Kill_Interning(x), Good(x)
      PROVE  \E s \in AlikeSpellings : Implemented!Forget(s)
  <2>1. PICK s \in AlikeSpellings :
           /\ CopiesBar[s] = 1
           /\ CopiesBar' = [CopiesBar EXCEPT ![s] = 0]
           /\ LET c == Fold[s]
                  rest == {t \in AlikeSpellings \ {s} :
                              Fold[t] = c /\ CopiesBar[t] = 1}
              IN  \/ CanonBar[c] # s /\ CanonBar' = CanonBar
                  \/ /\ CanonBar[c] = s
                     /\ \E t \in rest \union {NoSpelling} :
                           /\ t = NoSpelling <=> rest = {}
                           /\ CanonBar' = [CanonBar EXCEPT ![c] = t]
    BY <1>5, KillImplements
  <2>2. Implemented!Forget(s)
    BY <2>1 DEF Implemented!Forget, CopiesBar, CanonBar
  <2> QED  BY <2>2
<1>6. ASSUME NEW s \in Spellings, Intern_UTF8_Managed(s)
      PROVE  UNCHANGED <<live, canons>>
  BY <1>6 DEF Intern_UTF8_Managed, rings
<1>7. CASE Rehash_Slot \/ Rehash_Done \/ Intern_Existing \/ Shutdown
  BY <1>2, <1>7
  DEF Rehash_Slot, Rehash_Done, Intern_Existing, Shutdown, rings
<1>8. ASSUME NEW dead, Recycle(dead)  PROVE UNCHANGED <<live, canons>>
  BY <1>8 DEF Recycle, rings
<1>9. CASE UNCHANGED vars
  BY <1>2, <1>9 DEF vars
<1>10. CASE Intern_Synonym /\ Fold[wanted] \notin AlikeClasses
  <2>1. PICK s \in Strings \ live :
           Class(s) = Fold[wanted] /\ live' = live \union {s}
    BY <1>10, SynonymMade
  <2> QED  BY <1>0, <1>10, <2>1 DEF Intern_Synonym, Good
<1>11. CASE Intern_Canon /\ Fold[wanted] \notin AlikeClasses
  <2>1. PICK s \in Fresh :
           live' = live \union {s} /\ canons' = canons \union {s}
    BY <1>11 DEF Intern_Canon
  <2>2. ~Good(s)
    BY <1>11 DEF Fresh, Good, Class, Spell
  <2> QED  BY <1>0, <2>1, <2>2
<1>12. ASSUME NEW x \in doomed, GC_Kill_Interning(x), ~Good(x)
       PROVE  CopiesBar' = CopiesBar /\ CanonBar' = CanonBar
  <2>1. /\ live' = live \ {x}
        /\ \A y \in Strings : Good(y) => (y \in canons <=> y \in canons')
    BY <1>12, KillIs DEF Good
  <2> QED  BY <1>0, <1>12, <2>1
<1> QED  BY <1>2, <1>3, <1>4, <1>5, <1>6, <1>7, <1>8, <1>9, <1>10, <1>11,
            <1>12
         DEF Next

\* The initial table has no string.
LEMMA InitImplements ==
    ASSUME Init, IInv, CopiesBar = Copies(live), CanonBar = CanonOf(canons)
    PROVE  Implemented!Init
<1>1. CopiesBar = [s \in AlikeSpellings |-> 0]
  BY DEF Init, Copies
<1>2. CanonBar = [c \in AlikeClasses |-> NoSpelling]
  BY DEF Init, CanonOf
<1> QED  BY <1>1, <1>2 DEF Implemented!Init, CopiesBar, CanonBar

\* Interning keeps its promise to the words whose casings hash alike, for any
\* hashes and table sizes and whatever other words are in the table: one
\* copy of a spelling at most, and a canon that stays while it lives.
THEOREM InterningImplemented == Spec => ImplementsInterning
<1> DEFINE Agrees ==
             CopiesBar = Copies(live) /\ CanonBar = CanonOf(canons)
<1>1. IInv => Agrees
  BY Mapped
<1>2. Init /\ IInv /\ Agrees => Implemented!Init
  BY InitImplements
<1>3. IInv /\ Agrees /\ IInv' /\ Agrees' /\ [Next]_vars
         => [Implemented!Next]_(Implemented!vars)
  BY StepImplements
<1> HIDE DEF Agrees
<1> QED  BY <1>1, <1>2, <1>3, Invariance, PTL
         DEF Spec, ImplementsInterning, Implemented!Spec
============================================================================
