---------------------------- MODULE SeriesData -----------------------------
(***************************************************************************)
(* The data of a series: an allocation of `size` units of which `bias` at  *)
(* the head are unused and `rest` belong to the series, `used` of them     *)
(* with a terminator after them.                                           *)
(*                                                                         *)
(*           |<------- rest ------->|                                      *)
(*    <-bias>|<-- used -->|T        |                                      *)
(*                                                                         *)
(* Removing at the head only moves the data pointer, which grows the bias; *)
(* inserting at the head takes it back.  Everything else slides the data   *)
(* or copies it to a new allocation.  A series that is small enough lives  *)
(* in its node and has no bias.                                            *)
(***************************************************************************)
EXTENDS Naturals, Sequences

CONSTANTS
    Units,      \* what a series holds: bytes, cells, pointers
    Zero,       \* the unit of all zero bits
    End,        \* the terminator
    Junk,       \* memory nobody has written
    NodeRest,   \* how many units fit in the node
    MaxSeriesBias, \* MAX_SERIES_BIAS, 0x1000
    BiasField,  \* the largest bias that can be stored, 0xffff
    MaxItems,   \* bound on what one operation inserts
    MaxSize,    \* bound on the size of an allocation
    Rounding    \* bound on what an allocation is rounded up by

ASSUME SeriesDataAssumption ==
    /\ Zero \in Units
    /\ NodeRest \in Nat \ {0}
    /\ MaxSeriesBias \in Nat \ {0}
    /\ BiasField \in Nat
    /\ MaxSeriesBias <= BiasField
    /\ MaxItems \in Nat
    /\ MaxSize \in Nat
    /\ Rounding \in Nat

VARIABLES
    ser,   \* the series
    owed,  \* has Extend_Series left the termination to its caller?
    op     \* the last operation: what it does, where, and to how many units

vars == <<ser, owed, op>>

\* The series over an allocation of n units.
Series(n) == [dynamic : BOOLEAN, fixed : BOOLEAN, size : {n}, bias : Nat,
              rest : Nat, used : Nat,
              mem : [0..(n - 1) -> Units \union {End, Junk}]]

Least(i, j) == IF i < j THEN i ELSE j

Items == UNION {[1..n -> Units] : n \in 0..MaxItems}

TypeOK ==
    /\ ser.size \in Nat \ {0}
    /\ ser \in Series(ser.size)
    /\ owed \in BOOLEAN
    /\ op \in {"insert", "remove", "other"} \X Nat \X Nat

\* TERM_SERIES.  What is left over outside of the data counts as unwritten.
Term(s) ==
    [s EXCEPT !.mem = [k \in 0..(s.size - 1) |->
        IF k = s.bias + s.used THEN End
        ELSE IF k \in s.bias..(s.bias + s.used - 1) THEN s.mem[k]
        ELSE Junk]]

New(dynamic, fixed, n) ==
    [dynamic |-> dynamic, fixed |-> fixed, size |-> n, bias |-> 0,
     rest |-> n, used |-> 0, mem |-> [k \in 0..(n - 1) |-> Junk]]

\* Make_Series_Core: in the node if the capacity is no more than fits there.
Init ==
    /\ \E fixed \in BOOLEAN :
          \/ ser = Term(New(FALSE, fixed, NodeRest))
          \/ \E n \in (NodeRest + 1)..MaxSize : ser = Term(New(TRUE, fixed, n))
    /\ owed = FALSE
    /\ op = <<"other", 0, 0>>

----------------------------------------------------------------------------
(* Expanding.                                                              *)

\* Insertion at the head takes units back from the bias.
TakeBias(s, d) ==
    [s EXCEPT !.used = @ + d, !.rest = @ + d, !.bias = @ - d]

\* The units from index i on move d units towards the tail (memmove).
Slide(s, i, d) ==
    LET at == s.bias + i
        tail == s.bias + s.used
    IN  Term([s EXCEPT
                !.used = @ + d,
                !.mem = [k \in 0..(s.size - 1) |->
                           IF k \in (at + d)..(tail + d - 1)
                              THEN s.mem[k - d] ELSE s.mem[k]]])

\* The data moves to a new allocation of n units, without bias.
Reallocate(s, i, d, n) ==
    Term([dynamic |-> TRUE, fixed |-> s.fixed, size |-> n, bias |-> 0,
          rest |-> n, used |-> s.used + d,
          mem |-> [k \in 0..(n - 1) |->
                     IF k < i THEN s.mem[s.bias + k]
                     ELSE IF k \in (i + d)..(s.used + d - 1)
                        THEN s.mem[s.bias + k - d]
                     ELSE Junk]])

\* What may be allocated: one unit more than is needed, or twice that for a
\* series that Prior_Expand remembers; pools and the system round it up.
Allocations(need) ==
    {n \in 0..MaxSize : \E x \in {1, need + 1} :
                           n \in (need + x)..(need + x + Rounding)}

\* Faulty: leaves no room for the terminator.
Fits_Exactly(s, d) == s.used + d <= s.rest

\* With the terminator.
Fits(s, d) == s.used + d + 1 <= s.rest

\* The outcomes of opening d units at index i; none is the error that the
\* series is locked (or that there is no memory, beyond MaxSize).
Expand_Series(s, i, d) ==
    IF d = 0 THEN {s}
    ELSE IF s.dynamic /\ i = 0 /\ s.bias >= d THEN {TakeBias(s, d)}
    ELSE IF Fits(s, d) THEN {Slide(s, i, d)}
    ELSE IF s.fixed THEN {}
    ELSE {Reallocate(s, i, d, n) : n \in Allocations(s.used + d)}

\* memcpy of the items to index i.
Write(s, i, items) ==
    [s EXCEPT !.mem = [k \in 0..(s.size - 1) |->
        IF k \in (s.bias + i)..(s.bias + i + Len(items) - 1)
           THEN items[k - s.bias - i + 1] ELSE s.mem[k]]]

\* An index past the tail means the tail.
Insert_Series(index, items) ==
    /\ ~owed
    /\ LET i == Least(index, ser.used)
       IN  \E s \in Expand_Series(ser, i, Len(items)) :
              ser' = Write(s, i, items)
    /\ op' = <<"insert", Least(index, ser.used), Len(items)>>
    /\ UNCHANGED owed

\* EXPAND_SERIES_TAIL does not slide anything when there is room.
Expand_Tail(s, d) ==
    IF Fits(s, d) THEN {[s EXCEPT !.used = @ + d]}
                  ELSE Expand_Series(s, s.used, d)

Append_Series(items) ==
    /\ ~owed
    /\ \E s \in Expand_Tail(ser, Len(items)) :
          ser' = Term(Write(s, ser.used, items))
    /\ op' = <<"insert", ser.used, Len(items)>>
    /\ UNCHANGED owed

\* Makes room at the tail.  The old tail is not terminated again after a
\* reallocation: that is left to the caller.
Extend_Series(d) ==
    /\ ~owed
    /\ \E s \in Expand_Tail(ser, d) : ser' = [s EXCEPT !.used = ser.used]
    /\ op' = <<"other", 0, 0>>
    /\ owed' = TRUE

\* What the callers do next (Append_Event, a network READ): they put items
\* into the room and terminate.
Fill_Extended(items) ==
    /\ owed
    /\ Fits(ser, Len(items))
    /\ ser' = Term([Write(ser, ser.used, items) EXCEPT
                      !.used = @ + Len(items)])
    /\ op' = <<"insert", ser.used, Len(items)>>
    /\ owed' = FALSE

----------------------------------------------------------------------------
(* Removing.                                                               *)

\* The n units from physical position `from` move to position `to`.
Move(s, from, to, n) ==
    [k \in 0..(s.size - 1) |->
        IF k \in to..(to + n - 1) THEN s.mem[k - to + from] ELSE s.mem[k]]

\* Faulty: forgets to move the data along with the data pointer.
Unbias_Keep_Unmoved(s) ==
    IF s.bias = 0 THEN s
    ELSE Term([s EXCEPT !.bias = 0, !.rest = @ + s.bias])

\* Unbias_Series with the keep option.
Unbias_Keep(s) ==
    IF s.bias = 0 THEN s
    ELSE Term([s EXCEPT !.bias = 0, !.rest = @ + s.bias,
                        !.mem = Move(s, s.bias, 0, s.used)])

\* Unbias_Series without it: the caller rewrites the series.
Unbias_Drop(s) == [s EXCEPT !.bias = 0, !.rest = @ + s.bias]

\* Faulty: lets the bias grow until nothing but the data is left.
Lopsided_Never(s) == s.bias > s.size

\* More than half of the allocation is bias, or the bias is too large.
Lopsided(s) == s.bias >= MaxSeriesBias \/ s.bias > s.rest

\* Only the data pointer moves, unless the bias gets out of hand.
AddBias(s, q) ==
    LET moved == [s EXCEPT !.used = @ - q, !.bias = @ + q, !.rest = @ - q]
    IN  IF Lopsided(moved) THEN Unbias_Keep(moved) ELSE moved

\* The first q units of a dynamic series go.
RemoveHead(s, q) ==
    IF q = s.used THEN Term(Unbias_Drop([s EXCEPT !.used = 0]))
    ELSE IF s.bias + q > BiasField
       THEN Term([s EXCEPT !.used = @ - q, !.bias = 0, !.rest = @ + s.bias,
                           !.mem = Move(s, s.bias + q, 0, s.used - q)])
    ELSE AddBias(s, q)

\* Faulty: leaves the terminator where the tail was.
Truncate_Unterminated(s, i) == [s EXCEPT !.used = i]

\* Everything from index i on goes.
Truncate(s, i) == Term([s EXCEPT !.used = i])

\* q units from index i on go, and the tail moves up.
Close(s, i, q) ==
    Term([s EXCEPT !.used = @ - q,
                   !.mem = Move(s, s.bias + i + q, s.bias + i,
                                s.used - (i + q))])

\* No more than there is.
Clip(s, q) == Least(q, s.used)

Removal(s, i, q) ==
    IF q = 0 THEN s
    ELSE IF s.dynamic /\ i = 0 THEN RemoveHead(s, Clip(s, q))
    ELSE IF i >= s.used THEN s
    ELSE IF q + i >= s.used THEN Truncate(s, i)
    ELSE Close(s, i, q)

Remove_Series_Units(i, q) ==
    /\ ~owed
    /\ ser' = Removal(ser, i, q)
    /\ op' = LET at == Least(i, ser.used)
             IN  <<"remove", at, Least(q, ser.used - at)>>
    /\ UNCHANGED owed

\* CLEAR of a string or binary from index i, and Reset_Array for i = 0: the
\* bias is given up only when the whole series is cleared.
Reset(i) ==
    /\ ~owed
    /\ i <= ser.used
    /\ ser' = Truncate(IF i = 0 THEN Unbias_Drop(ser) ELSE ser, i)
    /\ op' = <<"remove", i, ser.used - i>>
    /\ UNCHANGED owed

\* All the memory becomes zero.  The tail stays where it is.
Clear_Series ==
    /\ ~owed
    /\ ser' = Term([Unbias_Drop(ser) EXCEPT
                      !.mem = [k \in 0..(ser.size - 1) |-> Zero]])
    /\ op' = <<"other", 0, 0>>
    /\ UNCHANGED owed

\* A new allocation for a given number of units, whatever the old one was;
\* as much of the content as fits is preserved on request.
Remake_Series(units, preserve) ==
    /\ ~owed
    /\ ~ser.fixed
    /\ LET kept == IF preserve THEN Least(ser.used, units) ELSE 0
       IN  \E n \in (units + 1)..MaxSize :
              /\ n <= units + 1 + Rounding
              /\ ser' = Term([New(TRUE, FALSE, n) EXCEPT
                    !.used = kept,
                    !.mem = [k \in 0..(n - 1) |->
                        IF k < kept THEN ser.mem[ser.bias + k] ELSE Junk]])
              /\ op' = <<"remove", kept, ser.used - kept>>
    /\ UNCHANGED owed

----------------------------------------------------------------------------
Next ==
    \/ \E i \in 0..MaxSize, items \in Items : Insert_Series(i, items)
    \/ \E items \in Items : Append_Series(items)
    \/ \E d \in 1..MaxItems : Extend_Series(d)
    \/ \E items \in Items : Fill_Extended(items)
    \/ \E i \in 0..MaxSize, q \in 0..(MaxSize + 1) : Remove_Series_Units(i, q)
    \/ \E i \in 0..MaxSize : Reset(i)
    \/ Clear_Series
    \/ \E units \in 0..MaxSize, preserve \in BOOLEAN :
          Remake_Series(units, preserve)

Spec == Init /\ [][Next]_vars

----------------------------------------------------------------------------
(* Properties.                                                             *)

\* However expansions, head removals and unbiasing follow on each other, the
\* bias and the capacity add up to the allocation (Free_Unbiased_Series_Data
\* finds its start and its size from them), the data leaves room for its
\* terminator, no count becomes negative, and a series that lives in its node
\* has no bias.
CapacityKept ==
    /\ TypeOK
    /\ ser.bias + ser.rest = ser.size
    /\ ser.used < ser.rest
    /\ ~ser.dynamic => ser.bias = 0 /\ ser.size = NodeRest

\* Expand_Series, EXPAND_SERIES_TAIL and Remove_Series_Units leave a series
\* terminated at its tail, whichever of their paths ran; only Extend_Series
\* leaves it to its caller.
Terminated == ~owed => ser.mem[ser.bias + ser.used] = End

\* A queue (append at the tail, remove at the head) does not keep its old
\* heads for ever: Remove_Series_Units never leaves more than half of the
\* allocation, nor as much as MAX_SERIES_BIAS, to the bias.
BiasBounded == ser.bias < MaxSeriesBias /\ ser.bias <= ser.rest

\* What the series holds.
Value == [k \in 1..ser.used |-> ser.mem[ser.bias + k - 1]]

Abstract == INSTANCE SeriesValue WITH value <- Value, last <- op

\* Whichever way the data is kept, slid, biased and reallocated, the series
\* behaves as a sequence: no unit is lost, duplicated, reordered or taken
\* from memory that is not the series'.
ImplementsValue == Abstract!Spec
============================================================================
