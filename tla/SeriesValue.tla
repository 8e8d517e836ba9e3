---------------------------- MODULE SeriesValue ----------------------------
(***************************************************************************)
(* What a series is to the code that uses it: a sequence of units that can *)
(* be inserted and removed anywhere.                                       *)
(***************************************************************************)
EXTENDS Naturals, Sequences

CONSTANTS
    Units,    \* what a series holds: bytes, cells, pointers
    Zero,     \* the unit of all zero bits
    MaxItems  \* bound on what one operation inserts

VARIABLES
    value,
    last  \* the last operation: what it does, where, and to how many units

vars == <<value, last>>

Items == UNION {[1..n -> Units] : n \in 0..MaxItems}

\* v with s inserted after its first i units.
Inserted(v, i, s) ==
    [k \in 1..(Len(v) + Len(s)) |->
        IF k <= i THEN v[k]
        ELSE IF k <= i + Len(s) THEN s[k - i]
        ELSE v[k - Len(s)]]

\* v without the n units after its first i.
Removed(v, i, n) ==
    [k \in 1..(Len(v) - n) |-> IF k <= i THEN v[k] ELSE v[k + n]]

Init == value = << >> /\ last = <<"other", 0, 0>>

Insert ==
    /\ last'[1] = "insert"
    /\ \E s \in Items : /\ last'[3] = Len(s)
                        /\ value' = Inserted(value, last'[2], s)

Remove ==
    /\ last'[1] = "remove"
    /\ value' = Removed(value, last'[2], last'[3])

ZeroAll ==
    /\ last'[1] = "other"
    /\ value' = [k \in 1..Len(value) |-> Zero]

Reserve == last'[1] = "other" /\ UNCHANGED value

Next == Insert \/ Remove \/ ZeroAll \/ Reserve

Spec == Init /\ [][Next]_vars
============================================================================
