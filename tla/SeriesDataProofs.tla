-------------------------- MODULE SeriesDataProofs --------------------------
(***************************************************************************)
(* Proofs about SeriesData: the capacity, the terminator and the bias, for *)
(* all widths, limits and allocation sizes, and that the series behaves as *)
(* the sequence of SeriesValue.                                            *)
(***************************************************************************)
EXTENDS SeriesData, TLAPS

Cell == Units \union {End, Junk}

\* The fields of s have their types and add up.
Shape(s) ==
    /\ s.size \in Nat \ {0}
    /\ s \in Series(s.size)
    /\ s.bias + s.rest = s.size
    /\ s.used < s.rest
    /\ ~s.dynamic => s.bias = 0 /\ s.size = NodeRest

\* The k-th unit of s, numbered from 0.
At(s, k) == s.mem[s.bias + k]

Ended(s) == At(s, s.used) = End

Bounded(s) == s.bias < MaxSeriesBias /\ s.bias <= s.rest

\* What every operation but Extend_Series leaves behind.
Good(s) == Shape(s) /\ Ended(s) /\ Bounded(s)

\* t holds what s holds.
Same(t, s) ==
    /\ t.used = s.used
    /\ \A k \in 0..(s.used - 1) : At(t, k) = At(s, k)

\* t holds what s holds, with d units of anything in it from index i on.
Opened(t, s, i, d) ==
    /\ t.used = s.used + d
    /\ \A k \in 0..(i - 1) : At(t, k) = At(s, k)
    /\ \A k \in i..(s.used - 1) : At(t, k + d) = At(s, k)

\* t holds what s holds, with the items inserted at index i.
Inserted(t, s, i, items) ==
    /\ t.used = s.used + Len(items)
    /\ \A k \in 0..(i - 1) : At(t, k) = At(s, k)
    /\ \A k \in i..(i + Len(items) - 1) : At(t, k) = items[k - i + 1]
    /\ \A k \in i..(s.used - 1) : At(t, k + Len(items)) = At(s, k)

\* t is s with the items written over what is at index i.
Overlay(t, s, i, items) ==
    /\ t.bias = s.bias /\ t.rest = s.rest /\ t.used = s.used
    /\ \A k \in 0..(s.rest - 1) :
          At(t, k) = IF k \in i..(i + Len(items) - 1)
                        THEN items[k - i + 1] ELSE At(s, k)

\* t holds what s holds without q units from index i on.
Closed(t, s, i, q) ==
    /\ t.used = s.used - q
    /\ \A k \in 0..(i - 1) : At(t, k) = At(s, k)
    /\ \A k \in i..(t.used - 1) : At(t, k) = At(s, k + q)

----------------------------------------------------------------------------
(* The building blocks.                                                    *)

\* A series from its fields.
Rec(dynamic, fixed, size, bias, rest, used, mem) ==
    [dynamic |-> dynamic, fixed |-> fixed, size |-> size, bias |-> bias,
     rest |-> rest, used |-> used, mem |-> mem]

\* s has these fields.
Has(s, dynamic, fixed, size, bias, rest, used, mem) ==
    /\ s = Rec(dynamic, fixed, size, bias, rest, used, mem)
    /\ bias + rest = size
    /\ used < rest
    /\ ~dynamic => bias = 0 /\ size = NodeRest

\* A series built from fields that fit together is well formed.
LEMMA ShapeOf ==
    ASSUME NEW dynamic \in BOOLEAN, NEW fixed \in BOOLEAN,
           NEW size \in Nat,
           NEW bias \in Nat, NEW rest \in Nat, NEW used \in Nat,
           NEW mem \in [0..(size - 1) -> Cell],
           bias + rest = size,
           used < rest,
           ~dynamic => bias = 0 /\ size = NodeRest
    PROVE  Shape(Rec(dynamic, fixed, size, bias, rest, used, mem))
BY DEF Shape, Series, Cell, Rec

\* Updates of one field or of several at once.
SetU(s, v) == [s EXCEPT !.used = v]
SetUM(s, v, g) ==
    [s EXCEPT !.used = v, !.mem = g]
SetBR(s, c, q) ==
    [s EXCEPT !.bias = c, !.rest = q]
SetBRM(s, c, q, g) ==
    [s EXCEPT !.bias = c, !.rest = q, !.mem = g]
SetURB(s, v, q, c) ==
    [s EXCEPT !.used = v, !.rest = q, !.bias = c]
SetUBR(s, v, c, q) ==
    [s EXCEPT !.used = v, !.bias = c, !.rest = q]
SetUBRM(s, v, c, q, g) ==
    [s EXCEPT !.used = v, !.bias = c, !.rest = q, !.mem = g]

\* What the updates make of a series built from its fields.
LEMMA SetUOf ==
    ASSUME NEW dynamic, NEW fixed, NEW n, NEW b, NEW r, NEW u, NEW m, NEW v
    PROVE  SetU(Rec(dynamic, fixed, n, b, r, u, m), v)
              = Rec(dynamic, fixed, n, b, r, v, m)
BY DEF Rec, SetU

\* The length and the memory.
LEMMA SetUMOf ==
    ASSUME NEW dynamic, NEW fixed, NEW n, NEW b, NEW r, NEW u, NEW m,
           NEW v, NEW g
    PROVE  SetUM(Rec(dynamic, fixed, n, b, r, u, m), v, g)
              = Rec(dynamic, fixed, n, b, r, v, g)
<1> DEFINE s == Rec(dynamic, fixed, n, b, r, u, m)
<1>1. [Rec(dynamic, fixed, n, b, r, u, m) EXCEPT !.used = v]
         = Rec(dynamic, fixed, n, b, r, v, m)
  BY DEF Rec
<1>2. [Rec(dynamic, fixed, n, b, r, v, m) EXCEPT !.mem = g]
         = Rec(dynamic, fixed, n, b, r, v, g)
  BY DEF Rec
<1> HIDE DEF s
<1>3. SetUM(s, v, g)
         = [[s EXCEPT !.used = v] EXCEPT !.mem = g]
  BY DEF SetUM
<1> QED  BY <1>1, <1>2, <1>3, Zenon DEF s

\* The bias and the capacity.
LEMMA SetBROf ==
    ASSUME NEW dynamic, NEW fixed, NEW n, NEW b, NEW r, NEW u, NEW m,
           NEW c, NEW q
    PROVE  SetBR(Rec(dynamic, fixed, n, b, r, u, m), c, q)
              = Rec(dynamic, fixed, n, c, q, u, m)
<1> DEFINE s == Rec(dynamic, fixed, n, b, r, u, m)
<1>1. [Rec(dynamic, fixed, n, b, r, u, m) EXCEPT !.bias = c]
         = Rec(dynamic, fixed, n, c, r, u, m)
  BY DEF Rec
<1>2. [Rec(dynamic, fixed, n, c, r, u, m) EXCEPT !.rest = q]
         = Rec(dynamic, fixed, n, c, q, u, m)
  BY DEF Rec
<1> HIDE DEF s
<1>3. SetBR(s, c, q)
         = [[s EXCEPT !.bias = c] EXCEPT !.rest = q]
  BY DEF SetBR
<1> QED  BY <1>1, <1>2, <1>3, Zenon DEF s

\* The bias, the capacity and the memory.
LEMMA SetBRMOf ==
    ASSUME NEW dynamic, NEW fixed, NEW n, NEW b, NEW r, NEW u, NEW m,
           NEW c, NEW q, NEW g
    PROVE  SetBRM(Rec(dynamic, fixed, n, b, r, u, m), c, q, g)
              = Rec(dynamic, fixed, n, c, q, u, g)
<1> DEFINE s == Rec(dynamic, fixed, n, b, r, u, m)
<1>1. [Rec(dynamic, fixed, n, b, r, u, m) EXCEPT !.bias = c]
         = Rec(dynamic, fixed, n, c, r, u, m)
  BY DEF Rec
<1>2. [Rec(dynamic, fixed, n, c, r, u, m) EXCEPT !.rest = q]
         = Rec(dynamic, fixed, n, c, q, u, m)
  BY DEF Rec
<1>3. [Rec(dynamic, fixed, n, c, q, u, m) EXCEPT !.mem = g]
         = Rec(dynamic, fixed, n, c, q, u, g)
  BY DEF Rec
<1> HIDE DEF s
<1>4. SetBRM(s, c, q, g)
         = [[[s EXCEPT !.bias = c] EXCEPT !.rest = q] EXCEPT !.mem = g]
  BY DEF SetBRM
<1> QED  BY <1>1, <1>2, <1>3, <1>4, Zenon DEF s

\* The length, the capacity and the bias, as TakeBias sets them.
LEMMA SetURBOf ==
    ASSUME NEW dynamic, NEW fixed, NEW n, NEW b, NEW r, NEW u, NEW m,
           NEW v, NEW q, NEW c
    PROVE  SetURB(Rec(dynamic, fixed, n, b, r, u, m), v, q, c)
              = Rec(dynamic, fixed, n, c, q, v, m)
<1> DEFINE s == Rec(dynamic, fixed, n, b, r, u, m)
<1>1. [Rec(dynamic, fixed, n, b, r, u, m) EXCEPT !.used = v]
         = Rec(dynamic, fixed, n, b, r, v, m)
  BY DEF Rec
<1>2. [Rec(dynamic, fixed, n, b, r, v, m) EXCEPT !.rest = q]
         = Rec(dynamic, fixed, n, b, q, v, m)
  BY DEF Rec
<1>3. [Rec(dynamic, fixed, n, b, q, v, m) EXCEPT !.bias = c]
         = Rec(dynamic, fixed, n, c, q, v, m)
  BY DEF Rec
<1> HIDE DEF s
<1>4. SetURB(s, v, q, c)
         = [[[s EXCEPT !.used = v] EXCEPT !.rest = q] EXCEPT !.bias = c]
  BY DEF SetURB
<1> QED  BY <1>1, <1>2, <1>3, <1>4, Zenon DEF s

\* The length, the bias and the capacity, as AddBias sets them.
LEMMA SetUBROf ==
    ASSUME NEW dynamic, NEW fixed, NEW n, NEW b, NEW r, NEW u, NEW m,
           NEW v, NEW c, NEW q
    PROVE  SetUBR(Rec(dynamic, fixed, n, b, r, u, m), v, c, q)
              = Rec(dynamic, fixed, n, c, q, v, m)
<1> DEFINE s == Rec(dynamic, fixed, n, b, r, u, m)
<1>1. [Rec(dynamic, fixed, n, b, r, u, m) EXCEPT !.used = v]
         = Rec(dynamic, fixed, n, b, r, v, m)
  BY DEF Rec
<1>2. [Rec(dynamic, fixed, n, b, r, v, m) EXCEPT !.bias = c]
         = Rec(dynamic, fixed, n, c, r, v, m)
  BY DEF Rec
<1>3. [Rec(dynamic, fixed, n, c, r, v, m) EXCEPT !.rest = q]
         = Rec(dynamic, fixed, n, c, q, v, m)
  BY DEF Rec
<1> HIDE DEF s
<1>4. SetUBR(s, v, c, q)
         = [[[s EXCEPT !.used = v] EXCEPT !.bias = c] EXCEPT !.rest = q]
  BY DEF SetUBR
<1> QED  BY <1>1, <1>2, <1>3, <1>4, Zenon DEF s

\* All four, as RemoveHead sets them.
LEMMA SetUBRMOf ==
    ASSUME NEW dynamic, NEW fixed, NEW n, NEW b, NEW r, NEW u, NEW m,
           NEW v, NEW c, NEW q, NEW g
    PROVE  SetUBRM(Rec(dynamic, fixed, n, b, r, u, m), v, c, q, g)
              = Rec(dynamic, fixed, n, c, q, v, g)
<1> DEFINE s == Rec(dynamic, fixed, n, b, r, u, m)
<1>1. [Rec(dynamic, fixed, n, b, r, u, m) EXCEPT !.used = v]
         = Rec(dynamic, fixed, n, b, r, v, m)
  BY DEF Rec
<1>2. [Rec(dynamic, fixed, n, b, r, v, m) EXCEPT !.bias = c]
         = Rec(dynamic, fixed, n, c, r, v, m)
  BY DEF Rec
<1>3. [Rec(dynamic, fixed, n, c, r, v, m) EXCEPT !.rest = q]
         = Rec(dynamic, fixed, n, c, q, v, m)
  BY DEF Rec
<1>4. [Rec(dynamic, fixed, n, c, q, v, m) EXCEPT !.mem = g]
         = Rec(dynamic, fixed, n, c, q, v, g)
  BY DEF Rec
<1> HIDE DEF s
<1>5. SetUBRM(s, v, c, q, g)
         = [[[[s EXCEPT !.used = v] EXCEPT !.bias = c]
                 EXCEPT !.rest = q] EXCEPT !.mem = g]
  BY DEF SetUBRM
<1> QED  BY <1>1, <1>2, <1>3, <1>4, <1>5, Zenon DEF s

\* Every series has such fields: from here on the proofs are about them.
LEMMA Parts ==
    ASSUME NEW s, Shape(s)
    PROVE  \E dynamic \in BOOLEAN, fixed \in BOOLEAN, size \in Nat,
              bias \in Nat, rest \in Nat, used \in Nat :
              \E mem \in [0..(size - 1) -> Cell] :
                 Has(s, dynamic, fixed, size, bias, rest, used, mem)
<1>1. /\ s = Rec(s.dynamic, s.fixed, s.size, s.bias, s.rest, s.used, s.mem)
      /\ s.dynamic \in BOOLEAN /\ s.fixed \in BOOLEAN
      /\ s.size \in Nat /\ s.bias \in Nat /\ s.rest \in Nat /\ s.used \in Nat
      /\ s.mem \in [0..(s.size - 1) -> Cell]
      /\ s.bias + s.rest = s.size
      /\ s.used < s.rest
      /\ ~s.dynamic => s.bias = 0 /\ s.size = NodeRest
  BY DEF Shape, Series, Cell, Rec
<1> QED  BY <1>1 DEF Has

\* TERM_SERIES keeps the fields and the data and writes a terminator at the
\* tail.
LEMMA TermShape ==
    ASSUME NEW s, Shape(s)
    PROVE  /\ Shape(Term(s)) /\ Ended(Term(s)) /\ Same(Term(s), s)
           /\ Term(s).bias = s.bias
           /\ Term(s).rest = s.rest
           /\ Term(s).used = s.used
<1>1. PICK dynamic \in BOOLEAN, fixed \in BOOLEAN, n \in Nat, b \in Nat,
           r \in Nat, u \in Nat :
           \E mem \in [0..(n - 1) -> Cell] :
              Has(s, dynamic, fixed, n, b, r, u, mem)
  BY Parts
<1>2. PICK m \in [0..(n - 1) -> Cell] : Has(s, dynamic, fixed, n, b, r, u, m)
  BY <1>1
<1>3. /\ s = Rec(dynamic, fixed, n, b, r, u, m)
      /\ s.dynamic = dynamic /\ s.fixed = fixed /\ s.size = n
      /\ s.bias = b /\ s.rest = r /\ s.used = u /\ s.mem = m
      /\ b + r = n /\ u < r /\ (~dynamic => b = 0 /\ n = NodeRest)
  BY <1>2 DEF Has, Rec
<1> DEFINE f == [k \in 0..(n - 1) |->
                    IF k = b + u THEN End
                    ELSE IF k \in b..(b + u - 1) THEN m[k]
                    ELSE Junk]
           t == Rec(dynamic, fixed, n, b, r, u, f)
<1>4. Term(s) = t
  <2>1. Term(s) = [s EXCEPT !.mem = f]
    BY <1>3 DEF Term
  <2> HIDE DEF f
  <2>2. [Rec(dynamic, fixed, n, b, r, u, m) EXCEPT !.mem = f] = t
    BY DEF Rec
  <2> QED  BY <1>3, <2>1, <2>2, Zenon
<1>5. f \in [0..(n - 1) -> Cell]
  <2>1. ASSUME NEW k \in 0..(n - 1)
        PROVE  (IF k = b + u THEN End
                ELSE IF k \in b..(b + u - 1) THEN m[k] ELSE Junk) \in Cell
    BY DEF Cell
  <2> QED  BY <2>1
<1>6. f[b + u] = End /\ \A k \in 0..(u - 1) : f[b + k] = m[b + k]
  BY <1>3
<1> HIDE DEF f
<1>7. Shape(t)
  BY <1>3, <1>5, ShapeOf
<1>8. t.bias = b /\ t.rest = r /\ t.used = u /\ t.mem = f
  BY DEF Rec
<1> HIDE DEF t
<1>9. Ended(t) /\ Same(t, s)
  BY <1>3, <1>6, <1>8 DEF Ended, Same, At
<1> QED  BY <1>3, <1>4, <1>7, <1>8, <1>9

----------------------------------------------------------------------------
(* Expanding.                                                              *)

\* Taking units back from the bias: the tail is where it was.
LEMMA TakeBiasOpens ==
    ASSUME NEW s, Good(s), NEW d \in Nat, s.bias >= d, s.dynamic
    PROVE  Good(TakeBias(s, d)) /\ Opened(TakeBias(s, d), s, 0, d)
<1>1. PICK dynamic \in BOOLEAN, fixed \in BOOLEAN, n \in Nat, b \in Nat,
           r \in Nat, u \in Nat :
           \E mem \in [0..(n - 1) -> Cell] :
              Has(s, dynamic, fixed, n, b, r, u, mem)
  BY Parts DEF Good
<1>2. PICK m \in [0..(n - 1) -> Cell] : Has(s, dynamic, fixed, n, b, r, u, m)
  BY <1>1
<1>3. /\ s = Rec(dynamic, fixed, n, b, r, u, m)
      /\ s.dynamic = dynamic /\ s.fixed = fixed /\ s.size = n
      /\ s.bias = b /\ s.rest = r /\ s.used = u /\ s.mem = m
      /\ b + r = n /\ u < r /\ (~dynamic => b = 0 /\ n = NodeRest)
  BY <1>2 DEF Has, Rec
<1> DEFINE t == Rec(dynamic, fixed, n, b - d, r + d, u + d, m)
<1>4. /\ b - d \in Nat /\ r + d \in Nat /\ u + d \in Nat
      /\ (b - d) + (r + d) = n /\ u + d < r + d /\ dynamic
  BY <1>3
<1>5. TakeBias(s, d) = t
  <2>1. SetURB(Rec(dynamic, fixed, n, b, r, u, m), u + d, r + d, b - d) = t
    BY SetURBOf
  <2>2. TakeBias(s, d) = SetURB(s, u + d, r + d, b - d)
    BY <1>3, Zenon DEF TakeBias, SetURB
  <2> QED  BY <1>3, <2>1, <2>2, Zenon
<1>6. Shape(t)
  BY <1>4, ShapeOf
<1>7. t.bias = b - d /\ t.rest = r + d /\ t.used = u + d /\ t.mem = m
  BY DEF Rec
<1> HIDE DEF t
<1>8. Ended(t) /\ Opened(t, s, 0, d)
  <2>1. \A k \in Nat : (b - d) + (k + d) = b + k
    OBVIOUS
  <2> QED  BY <1>3, <1>7, <2>1 DEF Ended, Opened, At, Good
<1>9. Bounded(t)
  BY <1>3, <1>4, <1>7, SeriesDataAssumption DEF Bounded, Good
<1> QED  BY <1>5, <1>6, <1>8, <1>9 DEF Good

\* Sliding the units from index i on towards the tail.
LEMMA SlideOpens ==
    ASSUME NEW s, Good(s), NEW i \in Nat, i <= s.used, NEW d \in Nat,
           Fits(s, d)
    PROVE  Good(Slide(s, i, d)) /\ Opened(Slide(s, i, d), s, i, d)
<1>1. PICK dynamic \in BOOLEAN, fixed \in BOOLEAN, n \in Nat, b \in Nat,
           r \in Nat, u \in Nat :
           \E mem \in [0..(n - 1) -> Cell] :
              Has(s, dynamic, fixed, n, b, r, u, mem)
  BY Parts DEF Good
<1>2. PICK m \in [0..(n - 1) -> Cell] : Has(s, dynamic, fixed, n, b, r, u, m)
  BY <1>1
<1>3. /\ s = Rec(dynamic, fixed, n, b, r, u, m)
      /\ s.dynamic = dynamic /\ s.fixed = fixed /\ s.size = n
      /\ s.bias = b /\ s.rest = r /\ s.used = u /\ s.mem = m
      /\ b + r = n /\ u < r /\ (~dynamic => b = 0 /\ n = NodeRest)
  BY <1>2 DEF Has, Rec
<1>4. /\ i <= u /\ u + d + 1 <= r
      /\ u + d \in Nat /\ u + d < r
  BY <1>3 DEF Fits
<1> DEFINE f == [k \in 0..(n - 1) |->
                    IF k \in (b + i + d)..(b + u + d - 1)
                       THEN m[k - d] ELSE m[k]]
           t == Rec(dynamic, fixed, n, b, r, u + d, f)
<1>5. f \in [0..(n - 1) -> Cell]
  <2>1. ASSUME NEW k \in 0..(n - 1)
        PROVE  (IF k \in (b + i + d)..(b + u + d - 1)
                   THEN m[k - d] ELSE m[k]) \in Cell
    BY <1>3, <1>4
  <2> QED  BY <2>1
<1>6. /\ \A k \in 0..(i - 1) : f[b + k] = m[b + k]
      /\ \A k \in i..(u - 1) : f[b + (k + d)] = m[b + k]
  <2>1. ASSUME NEW k \in 0..(i - 1)  PROVE f[b + k] = m[b + k]
    BY <1>3, <1>4
  <2>2. ASSUME NEW k \in i..(u - 1)  PROVE f[b + (k + d)] = m[b + k]
    <3>1. /\ b + (k + d) \in (b + i + d)..(b + u + d - 1)
          /\ b + (k + d) \in 0..(n - 1)
          /\ b + (k + d) - d = b + k
      BY <1>3, <1>4
    <3> QED  BY <3>1
  <2> QED  BY <2>1, <2>2
<1>7. Slide(s, i, d) = Term(SetUM(s, u + d, f))
  BY <1>3 DEF Slide, SetUM
<1> HIDE DEF f
<1>8. Slide(s, i, d) = Term(t)
  <2>1. SetUM(Rec(dynamic, fixed, n, b, r, u, m), u + d, f) = t
    BY SetUMOf
  <2> QED  BY <1>3, <1>7, <2>1, Zenon
<1>9. Shape(t)
  BY <1>3, <1>4, <1>5, ShapeOf
<1>10. t.bias = b /\ t.rest = r /\ t.used = u + d /\ t.mem = f
  BY DEF Rec
<1> HIDE DEF t
<1>11. Opened(t, s, i, d)
  BY <1>3, <1>6, <1>10 DEF Opened, At
<1>12. Opened(Term(t), s, i, d)
  <2>1. /\ Term(t).used = u + d
        /\ \A k \in 0..(u + d - 1) : At(Term(t), k) = At(t, k)
    BY <1>9, <1>10, TermShape DEF Same
  <2>2. \A k \in 0..(i - 1) : k \in 0..(u + d - 1)
    BY <1>4
  <2>3. \A k \in i..(u - 1) : k + d \in 0..(u + d - 1)
    BY <1>4
  <2>4. /\ \A k \in 0..(i - 1) : At(t, k) = At(s, k)
        /\ \A k \in i..(u - 1) : At(t, k + d) = At(s, k)
    BY <1>3, <1>11 DEF Opened
  <2>5. /\ \A k \in 0..(i - 1) : At(Term(t), k) = At(s, k)
        /\ \A k \in i..(u - 1) : At(Term(t), k + d) = At(s, k)
    BY <2>1, <2>2, <2>3, <2>4, Zenon
  <2> QED  BY <1>3, <2>1, <2>5, Zenon DEF Opened
<1>13. Good(Term(t))
  BY <1>3, <1>9, <1>10, TermShape DEF Good, Bounded
<1> QED  BY <1>8, <1>12, <1>13

\* Copying to a larger allocation.
LEMMA ReallocateOpens ==
    ASSUME NEW s, Good(s), NEW i \in Nat, i <= s.used, NEW d \in Nat,
           NEW a \in Allocations(s.used + d)
    PROVE  /\ Good(Reallocate(s, i, d, a))
           /\ Opened(Reallocate(s, i, d, a), s, i, d)
<1>1. PICK dynamic \in BOOLEAN, fixed \in BOOLEAN, n \in Nat, b \in Nat,
           r \in Nat, u \in Nat :
           \E mem \in [0..(n - 1) -> Cell] :
              Has(s, dynamic, fixed, n, b, r, u, mem)
  BY Parts DEF Good
<1>2. PICK m \in [0..(n - 1) -> Cell] : Has(s, dynamic, fixed, n, b, r, u, m)
  BY <1>1
<1>3. /\ s = Rec(dynamic, fixed, n, b, r, u, m)
      /\ s.dynamic = dynamic /\ s.fixed = fixed /\ s.size = n
      /\ s.bias = b /\ s.rest = r /\ s.used = u /\ s.mem = m
      /\ b + r = n /\ u < r /\ (~dynamic => b = 0 /\ n = NodeRest)
  BY <1>2 DEF Has, Rec
<1>4. /\ i <= u /\ a \in Nat /\ a >= u + d + 1
      /\ u + d \in Nat /\ u + d < a
  BY <1>3, SeriesDataAssumption DEF Allocations
<1> DEFINE f == [k \in 0..(a - 1) |->
                    IF k < i THEN m[b + k]
                    ELSE IF k \in (i + d)..(u + d - 1) THEN m[b + k - d]
                    ELSE Junk]
           t == Rec(TRUE, fixed, a, 0, a, u + d, f)
<1>5. Reallocate(s, i, d, a) = Term(t)
  BY <1>3 DEF Reallocate, Rec
<1>6. f \in [0..(a - 1) -> Cell]
  <2>1. ASSUME NEW k \in 0..(a - 1)
        PROVE  (IF k < i THEN m[b + k]
                ELSE IF k \in (i + d)..(u + d - 1) THEN m[b + k - d]
                ELSE Junk) \in Cell
    <3>1. CASE k < i
      <4>1. b + k \in 0..(n - 1)
        BY <1>3, <1>4, <3>1
      <4> QED  BY <3>1, <4>1
    <3>2. CASE ~(k < i) /\ k \in (i + d)..(u + d - 1)
      <4>1. b + k - d \in 0..(n - 1)
        BY <1>3, <1>4, <3>2
      <4> QED  BY <3>2, <4>1
    <3>3. CASE ~(k < i) /\ k \notin (i + d)..(u + d - 1)
      BY <3>3 DEF Cell
    <3> QED  BY <3>1, <3>2, <3>3
  <2> QED  BY <2>1
<1>7. /\ \A k \in 0..(i - 1) : f[0 + k] = m[b + k]
      /\ \A k \in i..(u - 1) : f[0 + (k + d)] = m[b + k]
  <2>1. ASSUME NEW k \in 0..(i - 1)  PROVE f[0 + k] = m[b + k]
    BY <1>3, <1>4
  <2>2. ASSUME NEW k \in i..(u - 1)  PROVE f[0 + (k + d)] = m[b + k]
    <3>1. /\ 0 + (k + d) \in (i + d)..(u + d - 1)
          /\ 0 + (k + d) \in 0..(a - 1)
          /\ ~(0 + (k + d) < i)
          /\ b + (0 + (k + d)) - d = b + k
      BY <1>3, <1>4
    <3> QED  BY <3>1
  <2> QED  BY <2>1, <2>2
<1> HIDE DEF f
<1>8. Shape(t)
  <2>1. 0 + a = a /\ 0 \in Nat /\ TRUE \in BOOLEAN
    BY <1>4
  <2> QED  BY <1>3, <1>4, <1>6, <2>1, ShapeOf
<1>9. t.bias = 0 /\ t.rest = a /\ t.used = u + d /\ t.mem = f
  BY DEF Rec
<1> HIDE DEF t
<1>10. Opened(t, s, i, d)
  BY <1>3, <1>7, <1>9 DEF Opened, At
<1>11. Opened(Term(t), s, i, d)
  <2>1. Same(Term(t), t)
    BY <1>8, TermShape
  <2>2. /\ \A k \in 0..(i - 1) : k \in 0..(t.used - 1)
        /\ \A k \in i..(u - 1) : k + d \in 0..(t.used - 1)
    BY <1>4, <1>9
  <2> QED  BY <1>3, <1>10, <2>1, <2>2 DEF Opened, Same
<1>12. Good(Term(t))
  BY <1>4, <1>8, <1>9, TermShape, SeriesDataAssumption DEF Good, Bounded
<1> QED  BY <1>5, <1>11, <1>12

\* Expand_Series, whichever way it goes.
LEMMA ExpandOpens ==
    ASSUME NEW s, Good(s), NEW i \in Nat, i <= s.used, NEW d \in Nat,
           NEW t \in Expand_Series(s, i, d)
    PROVE  Good(t) /\ Opened(t, s, i, d)
<1>1. CASE d = 0
  <2>1. t = s
    BY <1>1 DEF Expand_Series
  <2>2. s.used \in Nat
    BY DEF Good, Shape, Series
  <2>3. s.used + 0 = s.used /\ \A k \in i..(s.used - 1) : k + 0 = k
    BY <2>2
  <2> QED  BY <1>1, <2>1, <2>3 DEF Opened
<1>2. CASE d # 0 /\ s.dynamic /\ i = 0 /\ s.bias >= d
  <2>1. t = TakeBias(s, d)
    BY <1>2 DEF Expand_Series
  <2> QED  BY <1>2, <2>1, TakeBiasOpens
<1>3. CASE d # 0 /\ ~(s.dynamic /\ i = 0 /\ s.bias >= d) /\ Fits(s, d)
  <2>1. t = Slide(s, i, d)
    BY <1>3, Zenon DEF Expand_Series
  <2> QED  BY <1>3, <2>1, SlideOpens
<1>4. CASE d # 0 /\ ~(s.dynamic /\ i = 0 /\ s.bias >= d) /\ ~Fits(s, d)
  <2>1. \E a \in Allocations(s.used + d) : t = Reallocate(s, i, d, a)
    BY <1>4, Zenon DEF Expand_Series
  <2> QED  BY <2>1, ReallocateOpens
<1> QED  BY <1>1, <1>2, <1>3, <1>4

\* What is inserted.
LEMMA ItemsAre ==
    ASSUME NEW items \in Items
    PROVE  Len(items) \in Nat /\ items \in [1..Len(items) -> Units]
BY SeriesDataAssumption DEF Items

\* Writing items into the room of a series.
LEMMA WriteShape ==
    ASSUME NEW s, Shape(s), NEW i \in Nat, NEW items, Len(items) \in Nat,
           items \in [1..Len(items) -> Units]
    PROVE  /\ Shape(Write(s, i, items))
           /\ Overlay(Write(s, i, items), s, i, items)
<1>1. PICK dynamic \in BOOLEAN, fixed \in BOOLEAN, n \in Nat, b \in Nat,
           r \in Nat, u \in Nat :
           \E mem \in [0..(n - 1) -> Cell] :
              Has(s, dynamic, fixed, n, b, r, u, mem)
  BY Parts
<1>2. PICK m \in [0..(n - 1) -> Cell] : Has(s, dynamic, fixed, n, b, r, u, m)
  BY <1>1
<1>3. /\ s = Rec(dynamic, fixed, n, b, r, u, m)
      /\ s.dynamic = dynamic /\ s.fixed = fixed /\ s.size = n
      /\ s.bias = b /\ s.rest = r /\ s.used = u /\ s.mem = m
      /\ b + r = n /\ u < r /\ (~dynamic => b = 0 /\ n = NodeRest)
  BY <1>2 DEF Has, Rec
<1>4. PICK l \in Nat : l = Len(items)
  OBVIOUS
<1> DEFINE f == [k \in 0..(n - 1) |->
                    IF k \in (b + i)..(b + i + l - 1)
                       THEN items[k - b - i + 1] ELSE m[k]]
           t == Rec(dynamic, fixed, n, b, r, u, f)
<1>5. Write(s, i, items) = [s EXCEPT !.mem = f]
  BY <1>3, <1>4 DEF Write
<1>6. items \in [1..l -> Units]
  BY <1>4
<1>7. f \in [0..(n - 1) -> Cell]
  <2>1. ASSUME NEW k \in 0..(n - 1)
        PROVE  (IF k \in (b + i)..(b + i + l - 1)
                   THEN items[k - b - i + 1] ELSE m[k]) \in Cell
    <3>1. CASE k \in (b + i)..(b + i + l - 1)
      <4>1. k - b - i + 1 \in 1..l
        BY <3>1
      <4> QED  BY <1>6, <3>1, <4>1 DEF Cell
    <3> QED  BY <3>1 DEF Cell
  <2> QED  BY <2>1
<1>8. ASSUME NEW k \in 0..(r - 1)
      PROVE  f[b + k] = IF k \in i..(i + l - 1) THEN items[k - i + 1]
                                                ELSE m[b + k]
  <2>1. /\ b + k \in 0..(n - 1)
        /\ b + k \in (b + i)..(b + i + l - 1) <=> k \in i..(i + l - 1)
        /\ (b + k) - b - i + 1 = k - i + 1
    BY <1>3
  <2> QED  BY <2>1
<1> HIDE DEF f
<1>9. Write(s, i, items) = t
  <2>1. [Rec(dynamic, fixed, n, b, r, u, m) EXCEPT !.mem = f] = t
    BY DEF Rec
  <2> QED  BY <1>3, <1>5, <2>1, Zenon
<1>10. Shape(t)
  BY <1>3, <1>7, ShapeOf
<1>11. t.bias = b /\ t.rest = r /\ t.used = u /\ t.mem = f
  BY DEF Rec
<1> HIDE DEF t
<1> QED  BY <1>3, <1>4, <1>8, <1>9, <1>10, <1>11 DEF Overlay, At

\* Writing items where room for them was opened.
LEMMA WriteInserts ==
    ASSUME NEW s, s.used \in Nat, NEW t, Shape(t), NEW i \in Nat, i <= s.used,
           NEW items, Len(items) \in Nat, items \in [1..Len(items) -> Units],
           Opened(t, s, i, Len(items))
    PROVE  LET w == Write(t, i, items)
           IN  /\ Shape(w) /\ Inserted(w, s, i, items)
               /\ w.bias = t.bias /\ w.rest = t.rest /\ w.used = t.used
               /\ At(w, t.used) = At(t, t.used)
<1> DEFINE w == Write(t, i, items)
<1>1. PICK l \in Nat, u \in Nat, r \in Nat :
         l = Len(items) /\ u = s.used /\ r = t.rest /\ u + l < r
  BY DEF Shape, Series, Opened
<1>2. /\ Shape(w) /\ w.bias = t.bias /\ w.rest = t.rest /\ w.used = t.used
      /\ \A k \in 0..(r - 1) :
            At(w, k) = IF k \in i..(i + l - 1)
                          THEN items[k - i + 1] ELSE At(t, k)
  <2>1. Shape(w) /\ Overlay(w, t, i, items)
    BY WriteShape
  <2> HIDE DEF w
  <2> QED  BY <1>1, <2>1 DEF Overlay
<1> HIDE DEF w
<1>3. /\ t.used = u + l
      /\ \A k \in 0..(i - 1) : At(t, k) = At(s, k)
      /\ \A k \in i..(u - 1) : At(t, k + l) = At(s, k)
  BY <1>1 DEF Opened
<1>4. \A k \in 0..(i - 1) : At(w, k) = At(s, k)
  BY <1>1, <1>2, <1>3
<1>5. \A k \in i..(i + l - 1) : At(w, k) = items[k - i + 1]
  BY <1>1, <1>2
<1>6. ASSUME NEW k \in i..(u - 1)  PROVE At(w, k + l) = At(s, k)
  <2>1. k + l \in 0..(r - 1) /\ k + l \notin i..(i + l - 1)
    BY <1>1
  <2> QED  BY <1>2, <1>3, <2>1
<1>7. At(w, t.used) = At(t, t.used)
  <2>1. u + l \in 0..(r - 1) /\ u + l \notin i..(i + l - 1)
    BY <1>1
  <2> QED  BY <1>2, <1>3, <2>1
<1>8. Inserted(w, s, i, items)
  BY <1>1, <1>2, <1>3, <1>4, <1>5, <1>6 DEF Inserted
<1> QED  BY <1>2, <1>7, <1>8 DEF w

\* EXPAND_SERIES_TAIL may leave the terminator to its caller.
LEMMA ExpandTailOpens ==
    ASSUME NEW s, Good(s), NEW d \in Nat, NEW t \in Expand_Tail(s, d)
    PROVE  Shape(t) /\ Bounded(t) /\ Opened(t, s, s.used, d)
<1>1. CASE Fits(s, d)
  <2>1. PICK dynamic \in BOOLEAN, fixed \in BOOLEAN, n \in Nat, b \in Nat,
             r \in Nat, u \in Nat :
             \E mem \in [0..(n - 1) -> Cell] :
                Has(s, dynamic, fixed, n, b, r, u, mem)
    BY Parts DEF Good
  <2>2. PICK m \in [0..(n - 1) -> Cell] : Has(s, dynamic, fixed, n, b, r, u, m)
    BY <2>1
  <2>3. /\ s = Rec(dynamic, fixed, n, b, r, u, m)
        /\ s.dynamic = dynamic /\ s.fixed = fixed /\ s.size = n
        /\ s.bias = b /\ s.rest = r /\ s.used = u /\ s.mem = m
        /\ b + r = n /\ u < r /\ (~dynamic => b = 0 /\ n = NodeRest)
    BY <2>2 DEF Has, Rec
  <2>4. u + d \in Nat /\ u + d < r
    BY <1>1, <2>3 DEF Fits
  <2>5. t = [s EXCEPT !.used = u + d]
    BY <1>1, <2>3 DEF Expand_Tail
  <2>6. t = Rec(dynamic, fixed, n, b, r, u + d, m)
    <3>1. [Rec(dynamic, fixed, n, b, r, u, m) EXCEPT !.used = u + d]
            = Rec(dynamic, fixed, n, b, r, u + d, m)
      BY DEF Rec
    <3> QED  BY <2>3, <2>5, <3>1, Zenon
  <2>7. Shape(t)
    <3>1. Shape(Rec(dynamic, fixed, n, b, r, u + d, m))
      <4>1. PICK v \in Nat : v = u + d /\ v < r
        BY <2>4
      <4>2. Shape(Rec(dynamic, fixed, n, b, r, v, m))
        BY <2>3, <4>1, ShapeOf
      <4> QED  BY <4>1, <4>2, Zenon
    <3> QED  BY <2>6, <3>1, Zenon
  <2>8. t.bias = b /\ t.rest = r /\ t.used = u + d /\ t.mem = m
    BY <2>6 DEF Rec
  <2>9. Bounded(t)
    BY <2>3, <2>8 DEF Bounded, Good
  <2>10. Opened(t, s, u, d)
    BY <2>3, <2>8 DEF Opened, At
  <2> QED  BY <2>3, <2>7, <2>9, <2>10
<1>2. CASE ~Fits(s, d)
  <2>1. t \in Expand_Series(s, s.used, d)
    BY <1>2 DEF Expand_Tail
  <2>2. s.used \in Nat /\ s.used <= s.used
    BY DEF Good, Shape, Series
  <2> QED  BY <2>1, <2>2, ExpandOpens DEF Good
<1> QED  BY <1>1, <1>2

\* Taking the room back that EXPAND_SERIES_TAIL has made, as Extend_Series
\* does.
LEMMA ShrinkSame ==
    ASSUME NEW s, Shape(s), NEW d \in Nat, NEW t, Shape(t), Bounded(t),
           Opened(t, s, s.used, d)
    PROVE  LET w == [t EXCEPT !.used = s.used]
           IN  Shape(w) /\ Bounded(w) /\ Same(w, s)
<1>1. PICK dynamic \in BOOLEAN, fixed \in BOOLEAN, n \in Nat, b \in Nat,
           r \in Nat, v \in Nat :
           \E mem \in [0..(n - 1) -> Cell] :
              Has(t, dynamic, fixed, n, b, r, v, mem)
  BY Parts
<1>2. PICK m \in [0..(n - 1) -> Cell] : Has(t, dynamic, fixed, n, b, r, v, m)
  BY <1>1
<1>3. PICK u \in Nat : u = s.used
  BY DEF Shape, Series
<1>4. /\ t = Rec(dynamic, fixed, n, b, r, v, m)
      /\ t.bias = b /\ t.rest = r /\ t.used = v /\ t.mem = m
      /\ b + r = n /\ u < r /\ (~dynamic => b = 0 /\ n = NodeRest)
  <2>1. /\ t = Rec(dynamic, fixed, n, b, r, v, m)
        /\ t.bias = b /\ t.rest = r /\ t.used = v /\ t.mem = m
        /\ b + r = n /\ v < r /\ (~dynamic => b = 0 /\ n = NodeRest)
    BY <1>2 DEF Has, Rec
  <2>2. v = u + d
    BY <1>3, <2>1 DEF Opened
  <2> QED  BY <2>1, <2>2
<1> DEFINE w == Rec(dynamic, fixed, n, b, r, u, m)
<1>5. [t EXCEPT !.used = u] = w
  <2>1. [Rec(dynamic, fixed, n, b, r, v, m) EXCEPT !.used = u] = w
    BY DEF Rec
  <2> QED  BY <1>4, <2>1, Zenon
<1>6. Shape(w)
  BY <1>4, ShapeOf
<1>7. w.bias = b /\ w.rest = r /\ w.used = u /\ w.mem = m
  BY DEF Rec
<1> HIDE DEF w
<1>8. Bounded(w)
  BY <1>4, <1>7 DEF Bounded
<1>9. Same(w, s)
  BY <1>3, <1>4, <1>7 DEF Same, Opened, At
<1> QED  BY <1>3, <1>5, <1>6, <1>8, <1>9

\* Filling the room that Extend_Series has made.
LEMMA FillInserts ==
    ASSUME NEW s, Shape(s), Bounded(s), NEW items, Len(items) \in Nat,
           items \in [1..Len(items) -> Units], Fits(s, Len(items))
    PROVE  LET w == Term([Write(s, s.used, items) EXCEPT
                            !.used = @ + Len(items)])
           IN  Good(w) /\ Inserted(w, s, s.used, items)
<1> DEFINE t == Write(s, s.used, items)
           x == [t EXCEPT !.used = @ + Len(items)]
<1>1. PICK l \in Nat, u \in Nat, r \in Nat :
         l = Len(items) /\ u = s.used /\ r = s.rest /\ u + l + 1 <= r
  BY DEF Shape, Series, Fits
<1>2. /\ Shape(t) /\ t.bias = s.bias /\ t.rest = r /\ t.used = u
      /\ \A k \in 0..(r - 1) :
            At(t, k) = IF k \in u..(u + l - 1)
                          THEN items[k - u + 1] ELSE At(s, k)
  <2>1. Shape(t) /\ Overlay(t, s, s.used, items)
    BY <1>1, WriteShape
  <2> HIDE DEF t
  <2> QED  BY <1>1, <2>1 DEF Overlay
<1> HIDE DEF t
<1>3. PICK dynamic \in BOOLEAN, fixed \in BOOLEAN, n \in Nat, b \in Nat,
           p \in Nat, v \in Nat :
           \E mem \in [0..(n - 1) -> Cell] :
              Has(t, dynamic, fixed, n, b, p, v, mem)
  BY <1>2, Parts
<1>4. PICK m \in [0..(n - 1) -> Cell] : Has(t, dynamic, fixed, n, b, p, v, m)
  BY <1>3
<1>5. /\ t = Rec(dynamic, fixed, n, b, r, u, m)
      /\ t.bias = b /\ t.mem = m
      /\ b + r = n /\ u + l \in Nat /\ u + l < r
      /\ ~dynamic => b = 0 /\ n = NodeRest
  <2>1. /\ t = Rec(dynamic, fixed, n, b, p, v, m)
        /\ t.bias = b /\ t.rest = p /\ t.used = v /\ t.mem = m
        /\ b + p = n /\ (~dynamic => b = 0 /\ n = NodeRest)
    BY <1>4 DEF Has, Rec
  <2>2. p = r /\ v = u
    BY <1>2, <2>1, Zenon
  <2>3. u + l \in Nat /\ u + l < r
    BY <1>1
  <2> QED  BY <2>1, <2>2, <2>3, Zenon
<1>6. x = Rec(dynamic, fixed, n, b, r, u + l, m)
  <2>1. x = SetU(t, u + l)
    BY <1>1, <1>2, Zenon DEF SetU
  <2> HIDE DEF x
  <2>2. SetU(Rec(dynamic, fixed, n, b, r, u, m), u + l)
          = Rec(dynamic, fixed, n, b, r, u + l, m)
    BY SetUOf
  <2> QED  BY <1>5, <2>1, <2>2, Zenon
<1> HIDE DEF x
<1>7. Shape(x)
  BY <1>5, <1>6, ShapeOf
<1>8. x.bias = b /\ x.rest = r /\ x.used = u + l /\ x.mem = m
  BY <1>6 DEF Rec
<1>9. Good(Term(x))
  BY <1>1, <1>2, <1>5, <1>7, <1>8, TermShape DEF Good, Bounded
<1>10. /\ Term(x).used = u + l
       /\ \A k \in 0..(u + l - 1) : At(Term(x), k) = At(t, k)
  BY <1>5, <1>7, <1>8, TermShape DEF Same, At
<1>11. Inserted(Term(x), s, u, items)
  <2> DEFINE w == Term(x)
  <2> HIDE DEF w
  <2>1. w.used = u + l /\ \A k \in 0..(u + l - 1) : At(w, k) = At(t, k)
    BY <1>10 DEF w
  <2>2. ASSUME NEW k \in 0..(u - 1)  PROVE At(w, k) = At(s, k)
    <3>1. k \in 0..(r - 1) /\ k \in 0..(u + l - 1) /\ k \notin u..(u + l - 1)
      BY <1>1
    <3> QED  BY <1>2, <2>1, <3>1
  <2>3. ASSUME NEW k \in u..(u + l - 1)  PROVE At(w, k) = items[k - u + 1]
    <3>1. k \in 0..(r - 1) /\ k \in 0..(u + l - 1)
      BY <1>1
    <3> QED  BY <1>2, <2>1, <3>1
  <2>4. Inserted(w, s, u, items)
    BY <1>1, <2>1, <2>2, <2>3 DEF Inserted
  <2> QED  BY <2>4 DEF w
<1> QED  BY <1>1, <1>9, <1>11 DEF x, t

----------------------------------------------------------------------------
(* Removing.                                                               *)

\* f is the memory mem of n units with the l units at `from` moved to `to`.
Moved(f, mem, n, from, to, l) ==
    /\ f \in [0..(n - 1) -> Cell]
    /\ \A k \in 0..(l - 1) : f[to + k] = mem[from + k]
    /\ \A k \in 0..(to - 1) : f[k] = mem[k]

\* Moving units within the memory.
LEMMA MoveCells ==
    ASSUME NEW s, NEW n \in Nat, s.size = n, s.mem \in [0..(n - 1) -> Cell],
           NEW from \in Nat, NEW to \in Nat, NEW l \in Nat,
           from + l <= n, to + l <= n
    PROVE  Moved(Move(s, from, to, l), s.mem, n, from, to, l)
<1>1. PICK m \in [0..(n - 1) -> Cell] : m = s.mem
  OBVIOUS
<1> DEFINE f == [k \in 0..(n - 1) |->
                    IF k \in to..(to + l - 1) THEN m[k - to + from] ELSE m[k]]
<1>2. Move(s, from, to, l) = f
  BY <1>1 DEF Move
<1>3. f \in [0..(n - 1) -> Cell]
  <2>1. ASSUME NEW k \in 0..(n - 1)
        PROVE  (IF k \in to..(to + l - 1) THEN m[k - to + from] ELSE m[k])
                  \in Cell
    OBVIOUS
  <2> QED  BY <2>1
<1>4. ASSUME NEW k \in 0..(l - 1)  PROVE f[to + k] = m[from + k]
  <2>1. /\ to + k \in 0..(n - 1) /\ to + k \in to..(to + l - 1)
        /\ (to + k) - to + from = from + k
    OBVIOUS
  <2> QED  BY <2>1
<1>5. ASSUME NEW k \in 0..(to - 1)  PROVE f[k] = m[k]
  <2>1. k \in 0..(n - 1) /\ k \notin to..(to + l - 1)
    OBVIOUS
  <2> QED  BY <2>1
<1> HIDE DEF f
<1> QED  BY <1>1, <1>2, <1>3, <1>4, <1>5 DEF Moved

\* Unbias_Series with the keep option.
LEMMA UnbiasKeepSame ==
    ASSUME NEW s, Shape(s), Ended(s)
    PROVE  Good(Unbias_Keep(s)) /\ Same(Unbias_Keep(s), s)
<1>1. CASE s.bias = 0
  <2>1. Bounded(s)
    BY <1>1, SeriesDataAssumption DEF Bounded, Shape, Series
  <2> QED  BY <1>1, <2>1 DEF Unbias_Keep, Good, Same
<1>2. CASE s.bias # 0
  <2>1. PICK dynamic \in BOOLEAN, fixed \in BOOLEAN, n \in Nat, b \in Nat,
             r \in Nat, u \in Nat :
             \E mem \in [0..(n - 1) -> Cell] :
                Has(s, dynamic, fixed, n, b, r, u, mem)
    BY Parts
  <2>2. PICK m \in [0..(n - 1) -> Cell] : Has(s, dynamic, fixed, n, b, r, u, m)
    BY <2>1
  <2>3. /\ s = Rec(dynamic, fixed, n, b, r, u, m)
        /\ s.dynamic = dynamic /\ s.fixed = fixed /\ s.size = n
        /\ s.bias = b /\ s.rest = r /\ s.used = u /\ s.mem = m
        /\ b + r = n /\ u < r /\ (~dynamic => b = 0 /\ n = NodeRest)
    BY <2>2 DEF Has, Rec
  <2> DEFINE f == Move(s, b, 0, u)
             t == Rec(dynamic, fixed, n, 0, r + b, u, f)
  <2>4. /\ f \in [0..(n - 1) -> Cell]
        /\ \A k \in 0..(u - 1) : f[0 + k] = m[b + k]
    <3>1. b + u <= n /\ 0 + u <= n /\ 0 \in Nat
      BY <2>3
    <3>2. s.mem \in [0..(n - 1) -> Cell] /\ s.size = n
      BY <2>3
    <3>3. Moved(f, s.mem, n, b, 0, u)
      BY <3>1, <3>2, MoveCells
    <3> QED  BY <2>3, <3>3, Zenon DEF Moved
  <2>5. Unbias_Keep(s) = Term(SetBRM(s, 0, r + b, f))
    BY <1>2, <2>3 DEF Unbias_Keep, SetBRM
  <2> HIDE DEF f
  <2>6. Unbias_Keep(s) = Term(t)
    <3>1. SetBRM(Rec(dynamic, fixed, n, b, r, u, m), 0, r + b, f) = t
      BY SetBRMOf
    <3> QED  BY <2>3, <2>5, <3>1, Zenon
  <2>7. Shape(t)
    <3>1. /\ 0 \in Nat /\ r + b \in Nat /\ 0 + (r + b) = n /\ u < r + b
          /\ ~dynamic => 0 = 0 /\ n = NodeRest
      BY <2>3
    <3> QED  BY <2>3, <2>4, <3>1, ShapeOf
  <2>8. t.bias = 0 /\ t.rest = r + b /\ t.used = u /\ t.mem = f
    BY DEF Rec
  <2> HIDE DEF t
  <2>9. Same(t, s)
    BY <2>3, <2>4, <2>8 DEF Same, At
  <2>10. Good(Term(t))
    BY <2>7, <2>8, TermShape, SeriesDataAssumption DEF Good, Bounded
  <2>11. Same(Term(t), s)
    BY <2>7, <2>9, TermShape DEF Same
  <2> QED  BY <2>6, <2>10, <2>11
<1> QED  BY <1>1, <1>2

\* Unbias_Series without it.
LEMMA UnbiasDropShape ==
    ASSUME NEW s, Shape(s)
    PROVE  LET t == Unbias_Drop(s)
           IN  Shape(t) /\ Bounded(t) /\ t.used = s.used /\ t.size = s.size
<1>1. PICK dynamic \in BOOLEAN, fixed \in BOOLEAN, n \in Nat, b \in Nat,
           r \in Nat, u \in Nat :
           \E mem \in [0..(n - 1) -> Cell] :
              Has(s, dynamic, fixed, n, b, r, u, mem)
  BY Parts
<1>2. PICK m \in [0..(n - 1) -> Cell] : Has(s, dynamic, fixed, n, b, r, u, m)
  BY <1>1
<1>3. /\ s = Rec(dynamic, fixed, n, b, r, u, m)
      /\ s.dynamic = dynamic /\ s.fixed = fixed /\ s.size = n
      /\ s.bias = b /\ s.rest = r /\ s.used = u /\ s.mem = m
      /\ b + r = n /\ u < r /\ (~dynamic => b = 0 /\ n = NodeRest)
  BY <1>2 DEF Has, Rec
<1> DEFINE t == Rec(dynamic, fixed, n, 0, r + b, u, m)
<1>4. Unbias_Drop(s) = t
  <2>1. SetBR(Rec(dynamic, fixed, n, b, r, u, m), 0, r + b) = t
    BY SetBROf
  <2>2. Unbias_Drop(s) = SetBR(s, 0, r + b)
    BY <1>3, Zenon DEF Unbias_Drop, SetBR
  <2> QED  BY <1>3, <2>1, <2>2, Zenon
<1>5. Shape(t)
  <2>1. /\ 0 \in Nat /\ r + b \in Nat /\ 0 + (r + b) = n /\ u < r + b
        /\ ~dynamic => 0 = 0 /\ n = NodeRest
    BY <1>3
  <2> QED  BY <1>3, <2>1, ShapeOf
<1>6. t.bias = 0 /\ t.rest = r + b /\ t.used = u /\ t.size = n
  BY DEF Rec
<1> HIDE DEF t
<1>7. Bounded(t)
  BY <1>6, SeriesDataAssumption DEF Bounded
<1> QED  BY <1>3, <1>4, <1>5, <1>6, <1>7

\* Removing everything from index i on.
LEMMA TruncateCloses ==
    ASSUME NEW s, Shape(s), Bounded(s), NEW i \in Nat, i <= s.used
    PROVE  /\ Good(Truncate(s, i))
           /\ Closed(Truncate(s, i), s, i, s.used - i)
<1>1. PICK dynamic \in BOOLEAN, fixed \in BOOLEAN, n \in Nat, b \in Nat,
           r \in Nat, u \in Nat :
           \E mem \in [0..(n - 1) -> Cell] :
              Has(s, dynamic, fixed, n, b, r, u, mem)
  BY Parts
<1>2. PICK m \in [0..(n - 1) -> Cell] : Has(s, dynamic, fixed, n, b, r, u, m)
  BY <1>1
<1>3. /\ s = Rec(dynamic, fixed, n, b, r, u, m)
      /\ s.dynamic = dynamic /\ s.fixed = fixed /\ s.size = n
      /\ s.bias = b /\ s.rest = r /\ s.used = u /\ s.mem = m
      /\ b + r = n /\ u < r /\ (~dynamic => b = 0 /\ n = NodeRest)
  BY <1>2 DEF Has, Rec
<1> DEFINE t == Rec(dynamic, fixed, n, b, r, i, m)
<1>4. Truncate(s, i) = Term(t)
  <2>1. SetU(Rec(dynamic, fixed, n, b, r, u, m), i) = t
    BY SetUOf
  <2>2. Truncate(s, i) = Term(SetU(s, i))
    BY DEF Truncate, SetU
  <2> QED  BY <1>3, <2>1, <2>2, Zenon
<1>5. i <= u /\ i < r
  BY <1>3
<1>6. Shape(t)
  BY <1>3, <1>5, ShapeOf
<1>7. t.bias = b /\ t.rest = r /\ t.used = i /\ t.mem = m
  BY DEF Rec
<1> HIDE DEF t
<1>8. Good(Term(t))
  BY <1>3, <1>6, <1>7, TermShape DEF Good, Bounded
<1>9. Term(t).used = i /\ \A k \in 0..(i - 1) : At(Term(t), k) = At(s, k)
  BY <1>3, <1>6, <1>7, TermShape DEF Same, At
<1>10. Closed(Term(t), s, i, u - i)
  BY <1>3, <1>5, <1>9 DEF Closed
<1> QED  BY <1>3, <1>4, <1>8, <1>10

\* Removing units from the middle.
LEMMA CloseCloses ==
    ASSUME NEW s, Good(s), NEW i \in Nat, NEW q \in Nat, i + q < s.used
    PROVE  Good(Close(s, i, q)) /\ Closed(Close(s, i, q), s, i, q)
<1>1. PICK dynamic \in BOOLEAN, fixed \in BOOLEAN, n \in Nat, b \in Nat,
           r \in Nat, u \in Nat :
           \E mem \in [0..(n - 1) -> Cell] :
              Has(s, dynamic, fixed, n, b, r, u, mem)
  BY Parts DEF Good
<1>2. PICK m \in [0..(n - 1) -> Cell] : Has(s, dynamic, fixed, n, b, r, u, m)
  BY <1>1
<1>3. /\ s = Rec(dynamic, fixed, n, b, r, u, m)
      /\ s.dynamic = dynamic /\ s.fixed = fixed /\ s.size = n
      /\ s.bias = b /\ s.rest = r /\ s.used = u /\ s.mem = m
      /\ b + r = n /\ u < r /\ (~dynamic => b = 0 /\ n = NodeRest)
  BY <1>2 DEF Has, Rec
<1> DEFINE f == Move(s, b + i + q, b + i, u - (i + q))
           t == Rec(dynamic, fixed, n, b, r, u - q, f)
<1>4. i + q < u /\ u - q \in Nat /\ u - q < r /\ u - (i + q) \in Nat
  BY <1>3
<1>5. /\ f \in [0..(n - 1) -> Cell]
      /\ \A k \in 0..((u - (i + q)) - 1) :
            f[(b + i) + k] = m[(b + i + q) + k]
      /\ \A k \in 0..((b + i) - 1) : f[k] = m[k]
  <2>1. /\ b + i + q \in Nat /\ b + i \in Nat
        /\ b + i + q + (u - (i + q)) <= n
        /\ b + i + (u - (i + q)) <= n
    BY <1>3, <1>4
  <2>2. s.mem \in [0..(n - 1) -> Cell] /\ s.size = n
    BY <1>3
  <2>3. Moved(f, s.mem, n, b + i + q, b + i, u - (i + q))
    BY <1>4, <2>1, <2>2, MoveCells
  <2> QED  BY <1>3, <2>3, Zenon DEF Moved
<1>6. Close(s, i, q) = Term(SetUM(s, u - q, f))
  BY <1>3 DEF Close, SetUM
<1> HIDE DEF f
<1>7. Close(s, i, q) = Term(t)
  <2>1. SetUM(Rec(dynamic, fixed, n, b, r, u, m), u - q, f) = t
    BY SetUMOf
  <2> QED  BY <1>3, <1>6, <2>1, Zenon
<1>8. Shape(t)
  BY <1>3, <1>4, <1>5, ShapeOf
<1>9. t.bias = b /\ t.rest = r /\ t.used = u - q /\ t.mem = f
  BY DEF Rec
<1> HIDE DEF t
<1>10. Closed(t, s, i, q)
  <2>1. ASSUME NEW k \in 0..(i - 1)  PROVE f[b + k] = m[b + k]
    <3>1. b + k \in 0..((b + i) - 1)
      OBVIOUS
    <3> QED  BY <1>5, <3>1
  <2>2. ASSUME NEW k \in i..(u - q - 1)  PROVE f[b + k] = m[b + (k + q)]
    <3>1. PICK j \in 0..((u - (i + q)) - 1) : j = k - i
      BY <1>4
    <3>2. (b + i) + j = b + k /\ (b + i + q) + j = b + (k + q)
      BY <3>1
    <3> QED  BY <1>5, <3>2
  <2> QED  BY <1>3, <1>9, <2>1, <2>2 DEF Closed, At
<1>11. Good(Term(t))
  BY <1>3, <1>8, <1>9, TermShape DEF Good, Bounded
<1>12. Closed(Term(t), s, i, q)
  <2>1. Same(Term(t), t) /\ t.used = u - q
    BY <1>8, <1>9, TermShape
  <2>2. \A k \in 0..(i - 1) : k \in 0..(t.used - 1)
    BY <1>4, <1>9
  <2>3. \A k \in i..(t.used - 1) : k \in 0..(t.used - 1)
    BY <1>4, <1>9
  <2> QED  BY <1>3, <1>10, <2>1, <2>2, <2>3 DEF Closed, Same
<1> QED  BY <1>7, <1>11, <1>12

\* Moving the data pointer.
LEMMA AddBiasCloses ==
    ASSUME NEW s, Good(s), s.dynamic, NEW q \in Nat, q < s.used
    PROVE  Good(AddBias(s, q)) /\ Closed(AddBias(s, q), s, 0, q)
<1>1. PICK dynamic \in BOOLEAN, fixed \in BOOLEAN, n \in Nat, b \in Nat,
           r \in Nat, u \in Nat :
           \E mem \in [0..(n - 1) -> Cell] :
              Has(s, dynamic, fixed, n, b, r, u, mem)
  BY Parts DEF Good
<1>2. PICK m \in [0..(n - 1) -> Cell] : Has(s, dynamic, fixed, n, b, r, u, m)
  BY <1>1
<1>3. /\ s = Rec(dynamic, fixed, n, b, r, u, m)
      /\ s.dynamic = dynamic /\ s.fixed = fixed /\ s.size = n
      /\ s.bias = b /\ s.rest = r /\ s.used = u /\ s.mem = m
      /\ b + r = n /\ u < r /\ (~dynamic => b = 0 /\ n = NodeRest)
  BY <1>2 DEF Has, Rec
<1> DEFINE t == Rec(dynamic, fixed, n, b + q, r - q, u - q, m)
<1>4. /\ q < u /\ dynamic /\ b + q \in Nat /\ r - q \in Nat /\ u - q \in Nat
      /\ (b + q) + (r - q) = n /\ u - q < r - q
  BY <1>3
<1>5. AddBias(s, q) = IF Lopsided(t) THEN Unbias_Keep(t) ELSE t
  <2>1. SetUBR(Rec(dynamic, fixed, n, b, r, u, m), u - q, b + q, r - q) = t
    BY SetUBROf
  <2>2. SetUBR(s, u - q, b + q, r - q) = t
    BY <1>3, <2>1, Zenon
  <2>3. [s EXCEPT !.used = @ - q, !.bias = @ + q, !.rest = @ - q] = t
    BY <1>3, <2>2, Zenon DEF SetUBR
  <2> HIDE DEF t
  <2> QED  BY <2>3, Zenon DEF AddBias
<1>6. Shape(t)
  BY <1>4, ShapeOf
<1>7. t.bias = b + q /\ t.rest = r - q /\ t.used = u - q /\ t.mem = m
  BY DEF Rec
<1> HIDE DEF t
<1>8. Ended(t) /\ Closed(t, s, 0, q)
  <2>1. \A k \in Nat : (b + q) + k = b + (k + q)
    OBVIOUS
  <2>2. (b + q) + (u - q) = b + u
    OBVIOUS
  <2>3. Ended(t)
    BY <1>3, <1>7, <2>2 DEF Ended, At, Good
  <2>4. \A k \in 0..(u - q - 1) : At(t, k) = At(s, k + q)
    <3>1. \A k \in Nat : At(t, k) = m[(b + q) + k]
      BY <1>7 DEF At
    <3>2. \A k \in Nat : At(s, k + q) = m[b + (k + q)]
      BY <1>3 DEF At
    <3>3. 0..(u - q - 1) \subseteq Nat
      OBVIOUS
    <3> QED  BY <2>1, <3>1, <3>2, <3>3, Zenon
  <2>5. t.used = s.used - q /\ \A k \in 0..(0 - 1) : FALSE
    BY <1>3, <1>7
  <2> QED  BY <1>7, <2>3, <2>4, <2>5 DEF Closed
<1>9. CASE Lopsided(t)
  <2>1. Good(Unbias_Keep(t)) /\ Same(Unbias_Keep(t), t)
    BY <1>6, <1>8, UnbiasKeepSame
  <2>2. Closed(Unbias_Keep(t), s, 0, q)
    BY <1>8, <2>1 DEF Closed, Same
  <2> QED  BY <1>5, <1>9, <2>1, <2>2
<1>10. CASE ~Lopsided(t)
  <2>1. b + q < MaxSeriesBias /\ b + q <= r - q
    BY <1>4, <1>7, <1>10, SeriesDataAssumption DEF Lopsided
  <2>2. Good(t)
    BY <1>6, <1>7, <1>8, <2>1 DEF Good, Bounded
  <2> QED  BY <1>5, <1>8, <1>10, <2>2
<1> QED  BY <1>9, <1>10

\* Removing the first q units of a dynamic series.
LEMMA RemoveHeadCloses ==
    ASSUME NEW s, Good(s), s.dynamic, NEW q \in Nat, q <= s.used
    PROVE  Good(RemoveHead(s, q)) /\ Closed(RemoveHead(s, q), s, 0, q)
<1>1. PICK dynamic \in BOOLEAN, fixed \in BOOLEAN, n \in Nat, b \in Nat,
           r \in Nat, u \in Nat :
           \E mem \in [0..(n - 1) -> Cell] :
              Has(s, dynamic, fixed, n, b, r, u, mem)
  BY Parts DEF Good
<1>2. PICK m \in [0..(n - 1) -> Cell] : Has(s, dynamic, fixed, n, b, r, u, m)
  BY <1>1
<1>3. /\ s = Rec(dynamic, fixed, n, b, r, u, m)
      /\ s.dynamic = dynamic /\ s.fixed = fixed /\ s.size = n
      /\ s.bias = b /\ s.rest = r /\ s.used = u /\ s.mem = m
      /\ b + r = n /\ u < r /\ (~dynamic => b = 0 /\ n = NodeRest)
  BY <1>2 DEF Has, Rec
<1>4. CASE q = u
  <2> DEFINE t == Rec(dynamic, fixed, n, b, r, 0, m)
  <2>1. Shape(t) /\ t.used = 0
    <3>1. 0 \in Nat /\ 0 < r
      BY <1>3
    <3>2. Shape(t)
      BY <1>3, <3>1, ShapeOf
    <3> QED  BY <3>2 DEF Rec
  <2>2. [s EXCEPT !.used = 0] = t
    <3>1. SetU(Rec(dynamic, fixed, n, b, r, u, m), 0) = t
      BY SetUOf
    <3> QED  BY <1>3, <3>1, Zenon DEF SetU
  <2>3. RemoveHead(s, q) = Term(Unbias_Drop(t))
    BY <1>3, <1>4, <2>2 DEF RemoveHead
  <2> HIDE DEF t
  <2>4. /\ Shape(Unbias_Drop(t)) /\ Bounded(Unbias_Drop(t))
        /\ Unbias_Drop(t).used = 0
    BY <2>1, UnbiasDropShape
  <2>5. Good(Term(Unbias_Drop(t))) /\ Term(Unbias_Drop(t)).used = 0
    BY <2>4, TermShape DEF Good, Bounded
  <2>6. Closed(RemoveHead(s, q), s, 0, q)
    BY <1>3, <1>4, <2>3, <2>5 DEF Closed
  <2> QED  BY <2>3, <2>5, <2>6
<1>5. CASE q # u /\ b + q > BiasField
  <2> DEFINE f == Move(s, b + q, 0, u - q)
             t == Rec(dynamic, fixed, n, 0, r + b, u - q, f)
  <2>1. /\ q < u /\ u - q \in Nat /\ r + b \in Nat /\ 0 + (r + b) = n
        /\ u - q < r + b /\ 0 \in Nat /\ (~dynamic => 0 = 0 /\ n = NodeRest)
        /\ b + q \in Nat /\ b + q + (u - q) <= n /\ 0 + (u - q) <= n
    BY <1>3, <1>5
  <2>2. /\ f \in [0..(n - 1) -> Cell]
        /\ \A k \in 0..((u - q) - 1) : f[0 + k] = m[(b + q) + k]
    <3>1. s.mem \in [0..(n - 1) -> Cell] /\ s.size = n
      BY <1>3
    <3>2. Moved(f, s.mem, n, b + q, 0, u - q)
      BY <2>1, <3>1, MoveCells
    <3> HIDE DEF f
    <3> QED  BY <1>3, <3>2 DEF Moved
  <2>3. RemoveHead(s, q) = Term(SetUBRM(s, u - q, 0, r + b, f))
    BY <1>3, <1>5, Zenon DEF RemoveHead, SetUBRM
  <2> HIDE DEF f
  <2>4. RemoveHead(s, q) = Term(t)
    <3>1. SetUBRM(Rec(dynamic, fixed, n, b, r, u, m), u - q, 0, r + b, f) = t
      BY SetUBRMOf
    <3> QED  BY <1>3, <2>3, <3>1, Zenon
  <2>5. Shape(t)
    BY <1>3, <2>1, <2>2, ShapeOf
  <2>6. t.bias = 0 /\ t.rest = r + b /\ t.used = u - q /\ t.mem = f
    BY DEF Rec
  <2> HIDE DEF t
  <2>7. Closed(t, s, 0, q)
    <3>1. \A k \in 0..((u - q) - 1) : (b + q) + k = b + (k + q)
      OBVIOUS
    <3> QED  BY <1>3, <2>2, <2>6, <3>1 DEF Closed, At
  <2>8. Good(Term(t))
    BY <2>1, <2>5, <2>6, TermShape, SeriesDataAssumption DEF Good, Bounded
  <2>9. Closed(Term(t), s, 0, q)
    BY <2>5, <2>7, TermShape DEF Closed, Same
  <2> QED  BY <2>4, <2>8, <2>9
<1>6. CASE q # u /\ ~(b + q > BiasField)
  <2>1. RemoveHead(s, q) = AddBias(s, q)
    BY <1>3, <1>6, Zenon DEF RemoveHead
  <2>2. q < s.used
    BY <1>3, <1>6
  <2> QED  BY <2>1, <2>2, AddBiasCloses
<1> QED  BY <1>4, <1>5, <1>6

\* Remove_Series_Units, whichever way it goes.
LEMMA RemovalCloses ==
    ASSUME NEW s, Good(s), NEW i \in Nat, NEW q \in Nat
    PROVE  LET at == Least(i, s.used)
           IN  /\ at \in Nat /\ at <= s.used
               /\ Least(q, s.used - at) \in Nat
               /\ Least(q, s.used - at) <= s.used - at
               /\ Good(Removal(s, i, q))
               /\ Closed(Removal(s, i, q), s, at, Least(q, s.used - at))
<1>1. PICK u \in Nat : u = s.used
  BY DEF Good, Shape, Series
<1> DEFINE at == Least(i, u)
           all == Least(q, u - at)
<1>2. at \in Nat /\ at <= u /\ all \in Nat /\ all <= u - at
  BY DEF Least
<1>3. Closed(s, s, at, 0)
  BY <1>1, <1>2 DEF Closed
<1>4. Good(Removal(s, i, q)) /\ Closed(Removal(s, i, q), s, at, all)
  <2>1. CASE q = 0
    <3>1. all = 0
      BY <1>2, <2>1 DEF Least
    <3> QED  BY <1>3, <2>1, <3>1 DEF Removal
  <2>2. CASE q # 0 /\ s.dynamic /\ i = 0
    <3>1. at = 0 /\ all = Clip(s, q) /\ all <= u
      BY <1>1, <2>2 DEF Least, Clip
    <3>2. Removal(s, i, q) = RemoveHead(s, all)
      BY <2>2, <3>1, Zenon DEF Removal
    <3> HIDE DEF all, at
    <3>3. Good(RemoveHead(s, all)) /\ Closed(RemoveHead(s, all), s, 0, all)
      BY <1>1, <1>2, <2>2, <3>1, RemoveHeadCloses
    <3> QED  BY <3>1, <3>2, <3>3
  <2>3. CASE q # 0 /\ ~(s.dynamic /\ i = 0) /\ i >= u
    <3>1. all = 0
      BY <2>3 DEF Least
    <3>2. Removal(s, i, q) = s
      BY <1>1, <2>3, Zenon DEF Removal
    <3> QED  BY <1>3, <3>1, <3>2
  <2>4. CASE q # 0 /\ ~(s.dynamic /\ i = 0) /\ ~(i >= u) /\ q + i >= u
    <3>1. at = i /\ all = u - i /\ i <= u
      BY <2>4 DEF Least
    <3>2. Removal(s, i, q) = Truncate(s, i)
      BY <1>1, <2>4, Zenon DEF Removal
    <3> HIDE DEF all, at
    <3> QED  BY <1>1, <3>1, <3>2, TruncateCloses DEF Good
  <2>5. CASE q # 0 /\ ~(s.dynamic /\ i = 0) /\ ~(i >= u) /\ ~(q + i >= u)
    <3>1. at = i /\ all = q /\ i + q < u
      BY <2>5 DEF Least
    <3>2. Removal(s, i, q) = Close(s, i, q)
      BY <1>1, <2>5, Zenon DEF Removal
    <3> HIDE DEF all, at
    <3> QED  BY <1>1, <3>1, <3>2, CloseCloses
  <2> QED  BY <2>1, <2>2, <2>3, <2>4, <2>5
<1> HIDE DEF at, all
<1> QED  BY <1>1, <1>2, <1>4 DEF at, all

\* Clear_Series: a series of the same length with zeros in it.
LEMMA ClearZeroes ==
    ASSUME NEW s, Good(s)
    PROVE  LET w == Term([Unbias_Drop(s) EXCEPT
                            !.mem = [k \in 0..(s.size - 1) |-> Zero]])
           IN  /\ Good(w) /\ w.used = s.used
               /\ \A k \in 0..(s.used - 1) : At(w, k) = Zero
<1> DEFINE t == Unbias_Drop(s)
<1>1. Shape(t) /\ Bounded(t) /\ t.used = s.used /\ t.size = s.size
  BY UnbiasDropShape DEF Good
<1> HIDE DEF t
<1>2. PICK dynamic \in BOOLEAN, fixed \in BOOLEAN, n \in Nat, b \in Nat,
           r \in Nat, u \in Nat :
           \E mem \in [0..(n - 1) -> Cell] :
              Has(t, dynamic, fixed, n, b, r, u, mem)
  BY <1>1, Parts
<1>3. PICK m \in [0..(n - 1) -> Cell] : Has(t, dynamic, fixed, n, b, r, u, m)
  BY <1>2
<1>4. /\ t = Rec(dynamic, fixed, n, b, r, u, m)
      /\ t.size = n /\ t.bias = b /\ t.rest = r /\ t.used = u
      /\ b + r = n /\ u < r /\ (~dynamic => b = 0 /\ n = NodeRest)
  BY <1>3 DEF Has, Rec
<1> DEFINE f == [k \in 0..(n - 1) |-> Zero]
           x == Rec(dynamic, fixed, n, b, r, u, f)
<1>5. f \in [0..(n - 1) -> Cell] /\ \A k \in 0..(u - 1) : f[b + k] = Zero
  BY <1>4, SeriesDataAssumption DEF Cell
<1>6. [t EXCEPT !.mem = [k \in 0..(s.size - 1) |-> Zero]] = [t EXCEPT !.mem = f]
  BY <1>1, <1>4
<1> HIDE DEF f
<1>7. [t EXCEPT !.mem = f] = x
  <2>1. [Rec(dynamic, fixed, n, b, r, u, m) EXCEPT !.mem = f] = x
    BY DEF Rec
  <2> QED  BY <1>4, <2>1, Zenon
<1>8. Shape(x)
  BY <1>4, <1>5, ShapeOf
<1>9. x.bias = b /\ x.rest = r /\ x.used = u /\ x.mem = f
  BY DEF Rec
<1> HIDE DEF x
<1>10. Good(Term(x))
  BY <1>1, <1>4, <1>8, <1>9, TermShape DEF Good, Bounded
<1>11. Term(x).used = u /\ \A k \in 0..(u - 1) : At(Term(x), k) = Zero
  BY <1>5, <1>8, <1>9, TermShape DEF Same, At
<1> QED  BY <1>1, <1>4, <1>6, <1>7, <1>10, <1>11 DEF t

\* Remake_Series: a new allocation with the first units.
LEMMA RemakeCloses ==
    ASSUME NEW s, Good(s), NEW kept \in Nat, kept <= s.used,
           NEW a \in Nat, kept < a
    PROVE  LET w == Term([New(TRUE, FALSE, a) EXCEPT
                       !.used = kept,
                       !.mem = [k \in 0..(a - 1) |->
                          IF k < kept THEN s.mem[s.bias + k] ELSE Junk]])
           IN  Good(w) /\ Closed(w, s, kept, s.used - kept)
<1>1. PICK dynamic \in BOOLEAN, fixed \in BOOLEAN, n \in Nat, b \in Nat,
           r \in Nat, u \in Nat :
           \E mem \in [0..(n - 1) -> Cell] :
              Has(s, dynamic, fixed, n, b, r, u, mem)
  BY Parts DEF Good
<1>2. PICK m \in [0..(n - 1) -> Cell] : Has(s, dynamic, fixed, n, b, r, u, m)
  BY <1>1
<1>3. /\ s = Rec(dynamic, fixed, n, b, r, u, m)
      /\ s.dynamic = dynamic /\ s.fixed = fixed /\ s.size = n
      /\ s.bias = b /\ s.rest = r /\ s.used = u /\ s.mem = m
      /\ b + r = n /\ u < r /\ (~dynamic => b = 0 /\ n = NodeRest)
  BY <1>2 DEF Has, Rec
<1>0. PICK yes \in BOOLEAN, no \in BOOLEAN : yes = TRUE /\ no = FALSE
  OBVIOUS
<1> DEFINE f == [k \in 0..(a - 1) |->
                    IF k < kept THEN s.mem[s.bias + k] ELSE Junk]
           e == [k \in 0..(a - 1) |-> Junk]
           t == Rec(yes, no, a, 0, a, kept, f)
<1>4. f \in [0..(a - 1) -> Cell]
  <2>1. ASSUME NEW k \in 0..(a - 1)
        PROVE  (IF k < kept THEN s.mem[s.bias + k] ELSE Junk) \in Cell
    BY <1>3 DEF Cell
  <2> QED  BY <2>1
<1>5. \A k \in 0..(kept - 1) : f[0 + k] = s.mem[s.bias + k]
  OBVIOUS
<1> HIDE DEF f
<1>6. [New(TRUE, FALSE, a) EXCEPT !.used = kept, !.mem = f] = t
  <2>1. New(yes, no, a) = Rec(yes, no, a, 0, a, 0, e)
    BY DEF New, Rec
  <2> HIDE DEF e
  <2>2. SetUM(Rec(yes, no, a, 0, a, 0, e), kept, f) = t
    BY SetUMOf
  <2> QED  BY <1>0, <2>1, <2>2, Zenon DEF SetUM
<1>7. Shape(t)
  <2>1. 0 \in Nat /\ 0 + a = a
    OBVIOUS
  <2> QED  BY <1>0, <1>4, <2>1, ShapeOf
<1>8. t.bias = 0 /\ t.rest = a /\ t.used = kept /\ t.mem = f
  BY DEF Rec
<1> HIDE DEF t
<1>9. Good(Term(t))
  BY <1>7, <1>8, TermShape, SeriesDataAssumption DEF Good, Bounded
<1>10. Term(t).used = kept /\ \A k \in 0..(kept - 1) : At(Term(t), k) = At(s, k)
  BY <1>5, <1>7, <1>8, TermShape DEF Same, At
<1>11. Closed(Term(t), s, kept, u - kept)
  BY <1>3, <1>10 DEF Closed
<1> QED  BY <1>3, <1>6, <1>9, <1>11 DEF f

----------------------------------------------------------------------------
(* The invariant: a series is well formed and its bias is bounded at all   *)
(* times, and terminated unless Extend_Series has left that to its caller. *)

Ops == {"insert", "remove", "other"} \X Nat \X Nat

IInv ==
    /\ owed \in BOOLEAN
    /\ op \in Ops
    /\ Shape(ser)
    /\ Bounded(ser)
    /\ ~owed => Ended(ser)

\* What the actions that terminate the series have in common.
LEMMA GoodIInv ==
    ASSUME Good(ser'), op' \in Ops, owed' \in BOOLEAN
    PROVE  IInv'
BY DEF IInv, Good, Shape, Bounded, Ended, At, Ops, Series

\* A new series.
LEMMA NewGood ==
    ASSUME NEW dynamic \in BOOLEAN, NEW fixed \in BOOLEAN, NEW a \in Nat \ {0},
           ~dynamic => a = NodeRest
    PROVE  /\ Good(Term(New(dynamic, fixed, a)))
           /\ Term(New(dynamic, fixed, a)).used = 0
<1> DEFINE e == [k \in 0..(a - 1) |-> Junk]
           t == Rec(dynamic, fixed, a, 0, a, 0, e)
<1>1. New(dynamic, fixed, a) = t
  BY DEF New, Rec
<1>2. e \in [0..(a - 1) -> Cell] /\ 0 \in Nat /\ 0 + a = a /\ 0 < a
  BY DEF Cell
<1> HIDE DEF e
<1>3. Shape(t)
  BY <1>2, ShapeOf
<1>4. t.bias = 0 /\ t.rest = a /\ t.used = 0
  BY DEF Rec
<1> HIDE DEF t
<1> QED  BY <1>1, <1>3, <1>4, TermShape, SeriesDataAssumption DEF Good, Bounded

\* A new series, in the node or allocated, satisfies the invariant.
LEMMA InitIInv == Init => IInv
<1> SUFFICES ASSUME Init  PROVE IInv
  OBVIOUS
<1>1. PICK fixed \in BOOLEAN :
        \/ ser = Term(New(FALSE, fixed, NodeRest))
        \/ \E a \in (NodeRest + 1)..MaxSize : ser = Term(New(TRUE, fixed, a))
  BY DEF Init
<1>2. Good(ser)
  <2>1. CASE ser = Term(New(FALSE, fixed, NodeRest))
    BY <2>1, NewGood, SeriesDataAssumption
  <2>2. ASSUME NEW a \in (NodeRest + 1)..MaxSize,
               ser = Term(New(TRUE, fixed, a))
        PROVE  Good(ser)
    <3>1. a \in Nat \ {0} /\ TRUE \in BOOLEAN
      BY SeriesDataAssumption
    <3> QED  BY <2>2, <3>1, NewGood
  <2> QED  BY <1>1, <2>1, <2>2
<1> QED  BY <1>2 DEF Init, IInv, Ops, Good

\* What each action does to the series: the basis of the invariant and of the
\* refinement.
LEMMA InsertStep ==
    ASSUME IInv, NEW i \in Nat, NEW items \in Items, Insert_Series(i, items)
    PROVE  /\ Good(ser') /\ owed' = owed
           /\ op' = <<"insert", Least(i, ser.used), Len(items)>> /\ op' \in Ops
           /\ Least(i, ser.used) <= ser.used
           /\ Inserted(ser', ser, Least(i, ser.used), items)
<1>1. PICK u \in Nat : u = ser.used
  BY DEF IInv, Shape, Series
<1>2. PICK at \in Nat : at = Least(i, u) /\ at <= u
  BY DEF Least
<1>3. Len(items) \in Nat /\ items \in [1..Len(items) -> Units]
  BY ItemsAre
<1>4. PICK t \in Expand_Series(ser, at, Len(items)) : ser' = Write(t, at, items)
  BY <1>1, <1>2 DEF Insert_Series
<1>5. Good(ser)
  BY DEF IInv, Good, Insert_Series
<1>6. Good(t) /\ Opened(t, ser, at, Len(items))
  BY <1>1, <1>2, <1>3, <1>4, <1>5, ExpandOpens
<1>7. /\ Shape(ser') /\ Inserted(ser', ser, at, items)
      /\ ser'.bias = t.bias /\ ser'.rest = t.rest /\ ser'.used = t.used
      /\ At(ser', t.used) = At(t, t.used)
  BY <1>1, <1>2, <1>3, <1>4, <1>6, WriteInserts DEF Good
<1>8. Good(ser')
  BY <1>6, <1>7 DEF Good, Ended, Bounded
<1> QED  BY <1>1, <1>2, <1>3, <1>7, <1>8 DEF Insert_Series, Ops

\* Append_Series writes at the tail and terminates.
LEMMA AppendStep ==
    ASSUME IInv, NEW items \in Items, Append_Series(items)
    PROVE  /\ Good(ser') /\ owed' = owed
           /\ op' = <<"insert", ser.used, Len(items)>> /\ op' \in Ops
           /\ Inserted(ser', ser, ser.used, items)
<1>1. PICK u \in Nat : u = ser.used
  BY DEF IInv, Shape, Series
<1>2. Len(items) \in Nat /\ items \in [1..Len(items) -> Units]
  BY ItemsAre
<1>3. PICK t \in Expand_Tail(ser, Len(items)) : ser' = Term(Write(t, u, items))
  BY <1>1 DEF Append_Series
<1>4. Good(ser)
  BY DEF IInv, Good, Append_Series
<1>5. Shape(t) /\ Bounded(t) /\ Opened(t, ser, u, Len(items))
  BY <1>1, <1>2, <1>3, <1>4, ExpandTailOpens
<1> DEFINE w == Write(t, u, items)
<1>6. /\ Shape(w) /\ Inserted(w, ser, u, items)
      /\ w.bias = t.bias /\ w.rest = t.rest /\ w.used = t.used
  BY <1>1, <1>2, <1>5, WriteInserts
<1>7. ser' = Term(w)
  BY <1>3
<1> HIDE DEF w
<1>8. Good(ser')
  BY <1>5, <1>6, <1>7, TermShape DEF Good, Bounded
<1>9. Inserted(ser', ser, u, items)
  <2>1. PICK l \in Nat : l = Len(items)
    BY <1>2
  <2>2. ser'.used = u + l /\ \A k \in 0..(u + l - 1) : At(ser', k) = At(w, k)
    BY <1>1, <1>6, <1>7, <2>1, TermShape DEF Same, Inserted
  <2>3. /\ \A k \in 0..(u - 1) : At(w, k) = At(ser, k)
        /\ \A k \in u..(u + l - 1) : At(w, k) = items[k - u + 1]
    BY <2>1, <1>6 DEF Inserted
  <2>4. \A k \in 0..(u - 1) : At(ser', k) = At(ser, k)
    BY <2>2, <2>3
  <2>5. \A k \in u..(u + l - 1) : At(ser', k) = items[k - u + 1]
    BY <2>2, <2>3
  <2> QED  BY <1>1, <2>1, <2>2, <2>4, <2>5 DEF Inserted
<1> QED  BY <1>1, <1>2, <1>8, <1>9 DEF Append_Series, Ops

\* Extend_Series changes nothing of what the series holds.
LEMMA ExtendStep ==
    ASSUME IInv, NEW d \in Nat, Extend_Series(d)
    PROVE  /\ Shape(ser') /\ Bounded(ser') /\ owed' = TRUE
           /\ op' = <<"other", 0, 0>>
           /\ Same(ser', ser)
<1>1. PICK t \in Expand_Tail(ser, d) : ser' = [t EXCEPT !.used = ser.used]
  BY DEF Extend_Series
<1>2. Good(ser)
  BY DEF IInv, Good, Extend_Series
<1>3. Shape(t) /\ Bounded(t) /\ Opened(t, ser, ser.used, d)
  BY <1>1, <1>2, ExpandTailOpens
<1>4. Shape(ser') /\ Bounded(ser') /\ Same(ser', ser)
  BY <1>1, <1>2, <1>3, ShrinkSame DEF Good
<1> QED  BY <1>4 DEF Extend_Series

\* The caller of Extend_Series inserts at the tail and terminates.
LEMMA FillStep ==
    ASSUME IInv, NEW items \in Items, Fill_Extended(items)
    PROVE  /\ Good(ser') /\ owed' = FALSE
           /\ op' = <<"insert", ser.used, Len(items)>> /\ op' \in Ops
           /\ Inserted(ser', ser, ser.used, items)
<1>1. Len(items) \in Nat /\ items \in [1..Len(items) -> Units]
  BY ItemsAre
<1>2. Good(ser') /\ Inserted(ser', ser, ser.used, items)
  BY <1>1, FillInserts DEF Fill_Extended, IInv
<1>3. ser.used \in Nat
  BY DEF IInv, Shape, Series
<1> QED  BY <1>1, <1>2, <1>3 DEF Fill_Extended, Ops

\* Remove_Series_Units takes out what there is of the asked for units.
LEMMA RemoveStep ==
    ASSUME IInv, NEW i \in Nat, NEW q \in Nat, Remove_Series_Units(i, q)
    PROVE  LET at == Least(i, ser.used)
               all == Least(q, ser.used - at)
           IN  /\ Good(ser') /\ owed' = owed
               /\ op' = <<"remove", at, all>> /\ op' \in Ops
               /\ at \in Nat /\ all \in Nat /\ at + all <= ser.used
               /\ Closed(ser', ser, at, all)
<1> DEFINE at == Least(i, ser.used)
           all == Least(q, ser.used - at)
<1>1. Good(ser)
  BY DEF IInv, Good, Remove_Series_Units
<1>2. /\ at \in Nat /\ at <= ser.used /\ all \in Nat /\ all <= ser.used - at
      /\ Good(Removal(ser, i, q)) /\ Closed(Removal(ser, i, q), ser, at, all)
  BY <1>1, RemovalCloses
<1>3. op' = <<"remove", at, all>> /\ ser' = Removal(ser, i, q) /\ owed' = owed
  BY DEF Remove_Series_Units
<1> HIDE DEF at, all
<1>4. at + all <= ser.used
  <2>1. ser.used \in Nat
    BY DEF IInv, Shape, Series
  <2> QED  BY <1>2, <2>1
<1> QED  BY <1>2, <1>3, <1>4 DEF Ops, at, all

\* CLEAR takes out everything from an index on.
LEMMA ResetStep ==
    ASSUME IInv, NEW i \in Nat, Reset(i)
    PROVE  /\ Good(ser') /\ owed' = owed
           /\ op' = <<"remove", i, ser.used - i>> /\ op' \in Ops
           /\ i <= ser.used
           /\ Closed(ser', ser, i, ser.used - i)
<1>1. PICK u \in Nat : u = ser.used
  BY DEF IInv, Shape, Series
<1>2. i <= u
  BY <1>1 DEF Reset
<1>3. Good(ser') /\ Closed(ser', ser, i, u - i)
  <2>1. CASE i = 0
    <3> DEFINE t == Unbias_Drop(ser)
    <3>1. Shape(t) /\ Bounded(t) /\ t.used = u
      BY <1>1, UnbiasDropShape DEF IInv
    <3>2. ser' = Truncate(t, 0)
      BY <2>1 DEF Reset
    <3> HIDE DEF t
    <3>3. Good(ser') /\ Closed(ser', t, 0, u - 0)
      BY <1>1, <3>1, <3>2, TruncateCloses
    <3>4. ser'.used = 0
      BY <3>1, <3>3 DEF Closed
    <3> QED  BY <1>1, <2>1, <3>3, <3>4 DEF Closed
  <2>2. CASE i # 0
    <3>1. ser' = Truncate(ser, i)
      BY <2>2 DEF Reset
    <3> QED  BY <1>1, <1>2, <3>1, TruncateCloses DEF IInv
  <2> QED  BY <2>1, <2>2
<1>4. u - i \in Nat
  BY <1>2
<1> QED  BY <1>1, <1>2, <1>3, <1>4 DEF Reset, Ops

\* Clear_Series zeroes the units and keeps their number.
LEMMA ClearStep ==
    ASSUME IInv, Clear_Series
    PROVE  /\ Good(ser') /\ owed' = owed /\ op' = <<"other", 0, 0>>
           /\ ser'.used = ser.used
           /\ \A k \in 0..(ser.used - 1) : At(ser', k) = Zero
<1>1. Good(ser)
  BY DEF IInv, Good, Clear_Series
<1> QED  BY <1>1, ClearZeroes DEF Clear_Series

\* Remake_Series keeps a prefix.
LEMMA RemakeStep ==
    ASSUME IInv, NEW units \in Nat, NEW preserve \in BOOLEAN,
           Remake_Series(units, preserve)
    PROVE  \E kept \in Nat :
              /\ Good(ser') /\ owed' = owed
              /\ op' = <<"remove", kept, ser.used - kept>> /\ op' \in Ops
              /\ kept <= ser.used
              /\ Closed(ser', ser, kept, ser.used - kept)
<1>1. PICK u \in Nat : u = ser.used
  BY DEF IInv, Shape, Series
<1> DEFINE kept == IF preserve THEN Least(ser.used, units) ELSE 0
<1>2. kept \in Nat /\ kept <= u /\ kept <= units
  BY <1>1 DEF Least
<1>3. PICK a \in (units + 1)..MaxSize :
         /\ ser' = Term([New(TRUE, FALSE, a) EXCEPT
                       !.used = kept,
                       !.mem = [k \in 0..(a - 1) |->
                          IF k < kept THEN ser.mem[ser.bias + k] ELSE Junk]])
         /\ op' = <<"remove", kept, ser.used - kept>>
  BY DEF Remake_Series
<1>4. Good(ser)
  BY DEF IInv, Good, Remake_Series
<1> HIDE DEF kept
<1>5. a \in Nat /\ kept < a
  BY <1>2, <1>3, SeriesDataAssumption
<1>6. Good(ser') /\ Closed(ser', ser, kept, ser.used - kept)
  BY <1>1, <1>2, <1>3, <1>4, <1>5, RemakeCloses
<1>7. u - kept \in Nat
  BY <1>2
<1>8. op' \in Ops /\ owed' = owed
  BY <1>1, <1>2, <1>3, <1>7 DEF Ops, Remake_Series
<1> QED  BY <1>1, <1>2, <1>3, <1>6, <1>8

\* Every step keeps the invariant.
LEMMA NextIInv == IInv /\ [Next]_vars => IInv'
<1> SUFFICES ASSUME IInv, [Next]_vars  PROVE IInv'
  OBVIOUS
<1>0. MaxSize \in Nat /\ MaxItems \in Nat
  BY SeriesDataAssumption
<1>1. owed \in BOOLEAN
  BY DEF IInv
<1>2. ASSUME NEW i \in 0..MaxSize, NEW items \in Items, Insert_Series(i, items)
      PROVE  IInv'
  <2>1. i \in Nat
    BY <1>0
  <2> QED  BY <1>1, <1>2, <2>1, InsertStep, GoodIInv
<1>3. ASSUME NEW items \in Items, Append_Series(items)  PROVE IInv'
  BY <1>1, <1>3, AppendStep, GoodIInv
<1>4. ASSUME NEW d \in 1..MaxItems, Extend_Series(d)  PROVE IInv'
  <2>1. d \in Nat
    BY <1>0
  <2>2. /\ Shape(ser') /\ Bounded(ser') /\ owed' = TRUE
        /\ op' = <<"other", 0, 0>>
    BY <1>4, <2>1, ExtendStep
  <2> QED  BY <2>2 DEF IInv, Ops, Shape, Bounded, Series
<1>5. ASSUME NEW items \in Items, Fill_Extended(items)  PROVE IInv'
  BY <1>5, FillStep, GoodIInv
<1>6. ASSUME NEW i \in 0..MaxSize, NEW q \in 0..(MaxSize + 1),
             Remove_Series_Units(i, q)
      PROVE  IInv'
  <2>1. i \in Nat /\ q \in Nat
    BY <1>0
  <2> QED  BY <1>1, <1>6, <2>1, RemoveStep, GoodIInv
<1>7. ASSUME NEW i \in 0..MaxSize, Reset(i)  PROVE IInv'
  <2>1. i \in Nat
    BY <1>0
  <2> QED  BY <1>1, <1>7, <2>1, ResetStep, GoodIInv
<1>8. CASE Clear_Series
  <2>1. Good(ser') /\ owed' = owed /\ op' \in Ops
    BY <1>8, ClearStep DEF Ops
  <2> QED  BY <1>1, <2>1, GoodIInv
<1>9. ASSUME NEW units \in 0..MaxSize, NEW preserve \in BOOLEAN,
             Remake_Series(units, preserve)
      PROVE  IInv'
  <2>1. units \in Nat
    BY <1>0
  <2> QED  BY <1>1, <1>9, <2>1, RemakeStep, GoodIInv
<1>10. CASE UNCHANGED vars
  BY <1>10 DEF IInv, vars, Shape, Bounded, Ended, At, Series, Ops
<1> QED  BY <1>2, <1>3, <1>4, <1>5, <1>6, <1>7, <1>8, <1>9, <1>10 DEF Next

\* The invariant holds in every reachable state.
THEOREM Invariance == Spec => []IInv
BY InitIInv, NextIInv, PTL DEF Spec

\* However expansions, head removals and unbiasing follow on each other, the
\* bias and the capacity add up to the allocation and leave room for the
\* terminator, whatever the sizes and limits are.
THEOREM CapacityAlwaysKept == Spec => []CapacityKept
<1>1. IInv => CapacityKept
  BY DEF IInv, CapacityKept, TypeOK, Shape, Ops
<1> QED  BY <1>1, Invariance, PTL

\* A series is terminated whenever Extend_Series has not left that to its
\* caller.
THEOREM AlwaysTerminated == Spec => []Terminated
<1>1. IInv => Terminated
  BY DEF IInv, Terminated, Ended, At
<1> QED  BY <1>1, Invariance, PTL

\* The bias stays under MAX_SERIES_BIAS and under half of the allocation.
THEOREM BiasAlwaysBounded == Spec => []BiasBounded
<1>1. IInv => BiasBounded
  BY DEF IInv, BiasBounded, Bounded
<1> QED  BY <1>1, Invariance, PTL

----------------------------------------------------------------------------
(* The refinement: what the series holds changes as SeriesValue says.      *)

\* Value, of any series.
Content(s) == [k \in 1..s.used |-> s.mem[s.bias + k - 1]]

\* The content is a sequence of the units from the bias on.
LEMMA ContentIs ==
    ASSUME NEW s, Shape(s)
    PROVE  /\ s.used \in Nat
           /\ Content(s) \in Seq(Cell)
           /\ Len(Content(s)) = s.used
           /\ \A k \in 1..s.used : Content(s)[k] = At(s, k - 1)
<1>1. PICK dynamic \in BOOLEAN, fixed \in BOOLEAN, n \in Nat, b \in Nat,
           r \in Nat, u \in Nat :
           \E mem \in [0..(n - 1) -> Cell] :
              Has(s, dynamic, fixed, n, b, r, u, mem)
  BY Parts
<1>2. PICK m \in [0..(n - 1) -> Cell] : Has(s, dynamic, fixed, n, b, r, u, m)
  BY <1>1
<1>3. /\ s = Rec(dynamic, fixed, n, b, r, u, m)
      /\ s.dynamic = dynamic /\ s.fixed = fixed /\ s.size = n
      /\ s.bias = b /\ s.rest = r /\ s.used = u /\ s.mem = m
      /\ b + r = n /\ u < r /\ (~dynamic => b = 0 /\ n = NodeRest)
  BY <1>2 DEF Has, Rec
<1>4. Content(s) = [k \in 1..u |-> m[b + k - 1]]
  BY <1>3 DEF Content
<1>5. \A k \in 1..u : m[b + k - 1] \in Cell
  BY <1>3
<1>6. [k \in 1..u |-> m[b + k - 1]] \in Seq(Cell)
  BY <1>5
<1>7. Len([k \in 1..u |-> m[b + k - 1]]) = u
  OBVIOUS
<1>8. \A k \in 1..u : b + k - 1 = b + (k - 1)
  OBVIOUS
<1> QED  BY <1>3, <1>4, <1>6, <1>7, <1>8 DEF At

\* Two series that hold the same have the same content.
LEMMA SameValue ==
    ASSUME NEW s, NEW t, Shape(s), Shape(t), Same(t, s)
    PROVE  Content(t) = Content(s)
<1>1. PICK u \in Nat : u = s.used /\ u = t.used
  BY ContentIs DEF Same
<1>2. \A k \in 1..u : t.mem[t.bias + k - 1] = s.mem[s.bias + k - 1]
  <2>1. ASSUME NEW k \in 1..u  PROVE Content(t)[k] = Content(s)[k]
    <3>1. k - 1 \in 0..(u - 1)
      OBVIOUS
    <3> QED  BY <1>1, <3>1, ContentIs DEF Same
  <2> QED  BY <1>1, <2>1 DEF Content
<1> QED  BY <1>1, <1>2 DEF Content

\* An insertion into the data is an insertion into the value.
LEMMA InsertedValue ==
    ASSUME NEW s, NEW t, Shape(s), Shape(t), NEW i \in Nat, i <= s.used,
           NEW items, Len(items) \in Nat, Inserted(t, s, i, items)
    PROVE  Content(t) = Abstract!Inserted(Content(s), i, items)
<1>1. PICK u \in Nat, l \in Nat :
         u = s.used /\ l = Len(items) /\ t.used = u + l /\ i <= u
  BY ContentIs DEF Inserted
<1> DEFINE v == Content(s)
           w == Content(t)
           val(k) == IF k <= i THEN v[k]
                     ELSE IF k <= i + l THEN items[k - i]
                     ELSE v[k - l]
<1>2. Len(v) = u /\ \A k \in 1..u : v[k] = At(s, k - 1)
  BY <1>1, ContentIs
<1>3. w = [k \in 1..(u + l) |-> w[k]]
  BY <1>1 DEF Content
<1>4. \A k \in 1..(u + l) : w[k] = At(t, k - 1)
  <2>1. \A k \in 1..t.used : w[k] = At(t, k - 1)
    BY ContentIs
  <2> HIDE DEF w
  <2> QED  BY <1>1, <2>1
<1> HIDE DEF v, w
<1>5. ASSUME NEW k \in 1..(u + l)  PROVE w[k] = val(k)
  <2>1. CASE k <= i
    <3>1. k - 1 \in 0..(i - 1) /\ k \in 1..u
      BY <1>1, <2>1
    <3> QED  BY <1>2, <1>4, <2>1, <3>1 DEF Inserted
  <2>2. CASE ~(k <= i) /\ k <= i + l
    <3>1. k - 1 \in i..(i + l - 1) /\ (k - 1) - i + 1 = k - i
      BY <2>2
    <3>2. At(t, k - 1) = items[(k - 1) - i + 1]
      BY <1>1, <3>1 DEF Inserted
    <3> QED  BY <1>4, <2>2, <3>1, <3>2
  <2>3. CASE ~(k <= i) /\ ~(k <= i + l)
    <3>1. PICK j \in i..(u - 1) : j = (k - 1) - l
      BY <2>3
    <3>2. j + l = k - 1 /\ k - l \in 1..u /\ (k - l) - 1 = j
      BY <3>1
    <3>3. At(t, j + l) = At(s, j)
      BY <1>1 DEF Inserted
    <3> QED  BY <1>2, <1>4, <2>3, <3>2, <3>3
  <2> QED  BY <2>1, <2>2, <2>3
<1>6. w = [k \in 1..(u + l) |-> val(k)]
  BY <1>3, <1>5
<1>7. Abstract!Inserted(v, i, items) = [k \in 1..(u + l) |-> val(k)]
  BY <1>1, <1>2 DEF Abstract!Inserted
<1> QED  BY <1>6, <1>7 DEF v, w

\* A removal from the data is a removal from the value.
LEMMA ClosedValue ==
    ASSUME NEW s, NEW t, Shape(s), Shape(t), NEW i \in Nat, NEW q \in Nat,
           i + q <= s.used, Closed(t, s, i, q)
    PROVE  Content(t) = Abstract!Removed(Content(s), i, q)
<1>1. PICK u \in Nat : u = s.used /\ t.used = u - q /\ i + q <= u
  BY ContentIs DEF Closed
<1> DEFINE v == Content(s)
           w == Content(t)
           val(k) == IF k <= i THEN v[k] ELSE v[k + q]
<1>2. Len(v) = u /\ \A k \in 1..u : v[k] = At(s, k - 1)
  BY <1>1, ContentIs
<1>3. w = [k \in 1..(u - q) |-> w[k]]
  BY <1>1 DEF Content
<1>4. \A k \in 1..(u - q) : w[k] = At(t, k - 1)
  <2>1. \A k \in 1..t.used : w[k] = At(t, k - 1)
    BY ContentIs
  <2> HIDE DEF w
  <2> QED  BY <1>1, <2>1
<1> HIDE DEF v, w
<1>5. ASSUME NEW k \in 1..(u - q)  PROVE w[k] = val(k)
  <2>1. CASE k <= i
    <3>1. k - 1 \in 0..(i - 1) /\ k \in 1..u
      BY <1>1, <2>1
    <3> QED  BY <1>2, <1>4, <2>1, <3>1 DEF Closed
  <2>2. CASE ~(k <= i)
    <3>1. PICK j \in i..(u - q - 1) : j = k - 1
      BY <2>2
    <3>2. k + q \in 1..u /\ (k + q) - 1 = j + q
      BY <1>1, <3>1
    <3>3. At(t, j) = At(s, j + q)
      BY <1>1 DEF Closed
    <3> QED  BY <1>2, <1>4, <2>2, <3>1, <3>2, <3>3
  <2> QED  BY <2>1, <2>2
<1>6. w = [k \in 1..(u - q) |-> val(k)]
  BY <1>3, <1>5
<1>7. Abstract!Removed(v, i, q) = [k \in 1..(u - q) |-> val(k)]
  BY <1>1, <1>2 DEF Abstract!Removed
<1> QED  BY <1>6, <1>7 DEF v, w

\* The four kinds of steps of SeriesValue, from what is known of a step here.
LEMMA InsertRefines ==
    ASSUME Shape(ser), Shape(ser'), NEW i \in Nat, i <= ser.used,
           NEW items \in Items, op' = <<"insert", i, Len(items)>>,
           Inserted(ser', ser, i, items)
    PROVE  Abstract!Next
<1>1. Len(items) \in Nat /\ items \in [1..Len(items) -> Units]
  BY ItemsAre
<1>2. Content(ser') = Abstract!Inserted(Content(ser), i, items)
  BY <1>1, InsertedValue
<1>3. Value = Content(ser) /\ Value' = Content(ser')
  BY DEF Value, Content
<1>4. items \in Abstract!Items
  BY DEF Items, Abstract!Items
<1>5. op'[1] = "insert" /\ op'[2] = i /\ op'[3] = Len(items)
  OBVIOUS
<1>6. Value' = Abstract!Inserted(Value, op'[2], items)
  BY <1>2, <1>3, <1>5
<1>7. Abstract!Insert
  BY <1>4, <1>5, <1>6 DEF Abstract!Insert
<1> QED  BY <1>7 DEF Abstract!Next

\* A removal.
LEMMA RemoveRefines ==
    ASSUME Shape(ser), Shape(ser'), NEW i \in Nat, NEW q \in Nat,
           i + q <= ser.used, op' = <<"remove", i, q>>,
           Closed(ser', ser, i, q)
    PROVE  Abstract!Next
<1>1. Content(ser') = Abstract!Removed(Content(ser), i, q)
  BY ClosedValue
<1>2. Value = Content(ser) /\ Value' = Content(ser')
  BY DEF Value, Content
<1>3. op'[1] = "remove" /\ op'[2] = i /\ op'[3] = q
  OBVIOUS
<1>4. Value' = Abstract!Removed(Value, op'[2], op'[3])
  BY <1>1, <1>2, <1>3
<1>5. Abstract!Remove
  BY <1>3, <1>4 DEF Abstract!Remove
<1> QED  BY <1>5 DEF Abstract!Next

\* Clear_Series.
LEMMA ZeroRefines ==
    ASSUME Shape(ser), Shape(ser'), op' = <<"other", 0, 0>>,
           ser'.used = ser.used,
           \A k \in 0..(ser.used - 1) : At(ser', k) = Zero
    PROVE  Abstract!Next
<1>1. PICK u \in Nat : u = ser.used /\ Len(Content(ser)) = u
  BY ContentIs
<1>2. \A k \in 1..u : Content(ser')[k] = Zero
  <2>1. \A k \in 1..u : Content(ser')[k] = At(ser', k - 1)
    BY <1>1, ContentIs
  <2> QED  BY <1>1, <2>1
<1>3. Content(ser') = [k \in 1..u |-> Content(ser')[k]]
  BY <1>1 DEF Content
<1>4. Content(ser') = [k \in 1..u |-> Zero]
  BY <1>2, <1>3
<1>5. Value = Content(ser) /\ Value' = Content(ser')
  BY DEF Value, Content
<1>6. Value' = [k \in 1..Len(Value) |-> Zero]
  BY <1>1, <1>4, <1>5
<1>7. Abstract!ZeroAll
  BY <1>6 DEF Abstract!ZeroAll
<1> QED  BY <1>7 DEF Abstract!Next

\* Extend_Series.
LEMMA ReserveRefines ==
    ASSUME Shape(ser), Shape(ser'), op' = <<"other", 0, 0>>, Same(ser', ser)
    PROVE  Abstract!Next
<1>1. Content(ser') = Content(ser)
  BY SameValue
<1>2. Value' = Value
  BY <1>1 DEF Value, Content
<1>3. Abstract!Reserve
  BY <1>2 DEF Abstract!Reserve
<1> QED  BY <1>3 DEF Abstract!Next

\* Every step of the series data is a step of the sequence, or leaves the
\* sequence alone.
LEMMA StepRefines == IInv /\ [Next]_vars => [Abstract!Next]_(Abstract!vars)
<1> SUFFICES ASSUME IInv, [Next]_vars  PROVE [Abstract!Next]_(Abstract!vars)
  OBVIOUS
<1>0. MaxSize \in Nat /\ MaxItems \in Nat
  BY SeriesDataAssumption
<1>1. Shape(ser) /\ Shape(ser')
  <2>1. IInv'
    BY NextIInv
  <2>2. Shape(ser')
    BY <2>1 DEF IInv, Shape, Series
  <2> QED  BY <2>2 DEF IInv
<1>u. PICK u \in Nat : u = ser.used
  BY <1>1, ContentIs
<1>2. ASSUME NEW i \in 0..MaxSize, NEW items \in Items, Insert_Series(i, items)
      PROVE  Abstract!Next
  <2>1. i \in Nat
    BY <1>0
  <2>2. PICK at \in Nat : at = Least(i, u)
    BY <2>1 DEF Least
  <2>3. /\ op' = <<"insert", at, Len(items)>> /\ at <= u
        /\ Inserted(ser', ser, at, items)
    BY <1>2, <1>u, <2>1, <2>2, InsertStep
  <2> QED  BY <1>1, <1>u, <2>3, InsertRefines
<1>3. ASSUME NEW items \in Items, Append_Series(items)  PROVE Abstract!Next
  <2>1. /\ op' = <<"insert", u, Len(items)>> /\ Inserted(ser', ser, u, items)
    BY <1>3, <1>u, AppendStep
  <2> QED  BY <1>1, <1>u, <2>1, InsertRefines
<1>4. ASSUME NEW d \in 1..MaxItems, Extend_Series(d)  PROVE Abstract!Next
  <2>1. d \in Nat
    BY <1>0
  <2>2. op' = <<"other", 0, 0>> /\ Same(ser', ser)
    BY <1>4, <2>1, ExtendStep
  <2> QED  BY <1>1, <2>2, ReserveRefines
<1>5. ASSUME NEW items \in Items, Fill_Extended(items)  PROVE Abstract!Next
  <2>1. /\ op' = <<"insert", u, Len(items)>> /\ Inserted(ser', ser, u, items)
    BY <1>5, <1>u, FillStep
  <2> QED  BY <1>1, <1>u, <2>1, InsertRefines
<1>6. ASSUME NEW i \in 0..MaxSize, NEW q \in 0..(MaxSize + 1),
             Remove_Series_Units(i, q)
      PROVE  Abstract!Next
  <2>1. i \in Nat /\ q \in Nat
    BY <1>0
  <2>2. PICK at \in Nat, all \in Nat :
           /\ op' = <<"remove", at, all>> /\ at + all <= u
           /\ Closed(ser', ser, at, all)
    BY <1>6, <1>u, <2>1, RemoveStep
  <2> QED  BY <1>1, <1>u, <2>2, RemoveRefines
<1>7. ASSUME NEW i \in 0..MaxSize, Reset(i)  PROVE Abstract!Next
  <2>1. i \in Nat
    BY <1>0
  <2>2. /\ op' = <<"remove", i, u - i>> /\ i <= u
        /\ Closed(ser', ser, i, u - i)
    BY <1>7, <1>u, <2>1, ResetStep
  <2>3. u - i \in Nat /\ i + (u - i) <= u
    BY <2>1, <2>2
  <2> QED  BY <1>1, <1>u, <2>1, <2>2, <2>3, RemoveRefines
<1>8. CASE Clear_Series
  BY <1>1, <1>8, ClearStep, ZeroRefines
<1>9. ASSUME NEW units \in 0..MaxSize, NEW preserve \in BOOLEAN,
             Remake_Series(units, preserve)
      PROVE  Abstract!Next
  <2>1. units \in Nat
    BY <1>0
  <2>2. PICK kept \in Nat :
           /\ op' = <<"remove", kept, u - kept>> /\ kept <= u
           /\ Closed(ser', ser, kept, u - kept)
    BY <1>9, <1>u, <2>1, RemakeStep
  <2>3. u - kept \in Nat /\ kept + (u - kept) <= u
    BY <2>2
  <2> QED  BY <1>1, <1>u, <2>2, <2>3, RemoveRefines
<1>10. CASE UNCHANGED vars
  BY <1>10 DEF vars, Abstract!vars, Value
<1> QED  BY <1>2, <1>3, <1>4, <1>5, <1>6, <1>7, <1>8, <1>9, <1>10 DEF Next

\* A new series is the empty sequence.
LEMMA InitRefines == Init => Abstract!Init
<1> SUFFICES ASSUME Init  PROVE Abstract!Init
  OBVIOUS
<1>1. PICK fixed \in BOOLEAN :
        \/ ser = Term(New(FALSE, fixed, NodeRest))
        \/ \E a \in (NodeRest + 1)..MaxSize : ser = Term(New(TRUE, fixed, a))
  BY DEF Init
<1>2. ser.used = 0
  <2>1. CASE ser = Term(New(FALSE, fixed, NodeRest))
    BY <2>1, NewGood, SeriesDataAssumption
  <2>2. ASSUME NEW a \in (NodeRest + 1)..MaxSize,
               ser = Term(New(TRUE, fixed, a))
        PROVE  ser.used = 0
    <3>1. a \in Nat \ {0} /\ TRUE \in BOOLEAN
      BY SeriesDataAssumption
    <3> QED  BY <2>2, <3>1, NewGood
  <2> QED  BY <1>1, <2>1, <2>2
<1>3. Shape(ser)
  BY InitIInv DEF IInv
<1>4. Content(ser) \in Seq(Cell) /\ Len(Content(ser)) = 0
  BY <1>2, <1>3, ContentIs
<1>5. Value = << >>
  <2>1. Content(ser) = << >>
    BY <1>4
  <2> QED  BY <2>1 DEF Value, Content
<1> QED  BY <1>5 DEF Init, Abstract!Init

\* Whichever way the data is kept, slid, biased and reallocated, the series
\* behaves as a sequence, for all widths, limits and allocation sizes.
THEOREM ImplementsSeriesValue == Spec => ImplementsValue
<1>1. Spec => []IInv
  BY Invariance
<1> QED  BY <1>1, InitRefines, StepRefines, PTL
         DEF Spec, ImplementsValue, Abstract!Spec
=============================================================================
