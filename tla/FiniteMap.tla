----------------------------- MODULE FiniteMap ------------------------------
(***************************************************************************)
(* What a MAP! is to its users: some keys have a value.  Keys that differ  *)
(* only in case may both have one; an access that ignores case is possible *)
(* while only one of them has.                                             *)
(***************************************************************************)
CONSTANTS
    Keys,    \* the spellings of keys
    Fold,    \* Fold[k]: the same for keys that differ only in case
    Values,
    NoOp     \* an operation that is not about a key

VARIABLES
    map,
    last  \* the last operation: its key, and whether it was cased

vars == <<map, last>>

Nothing == [k \in {} |-> k]
Synonyms(k) == {s \in Keys : Fold[s] = Fold[k]}
Present == DOMAIN map

Init == map = Nothing /\ last = NoOp

\* The key a value is stored under: the spelling given, or, if case is
\* ignored, the one that is there, or any if none is.
MayStore(k, s, cased) ==
    IF cased THEN s = k
    ELSE /\ s \in Synonyms(k)
         /\ Synonyms(k) \intersect Present \subseteq {s}

Put(k, v, cased) ==
    /\ \E s \in Keys :
          /\ MayStore(k, s, cased)
          /\ map' = [q \in Present \union {s} |-> IF q = s THEN v ELSE map[q]]
    /\ last' = <<k, cased>>

Remove(k, cased) ==
    /\ \E s \in Keys :
          /\ MayStore(k, s, cased)
          /\ map' = [q \in Present \ {s} |-> map[q]]
    /\ last' = <<k, cased>>

\* The key is refused: ignoring case it is not clear which one is meant.
Refuse(k) == UNCHANGED map /\ last' = <<k, FALSE>>

Get == UNCHANGED map /\ last' = NoOp
Clear == map' = Nothing /\ last' = NoOp

Next ==
    \/ \E k \in Keys, v \in Values, cased \in BOOLEAN : Put(k, v, cased)
    \/ \E k \in Keys, cased \in BOOLEAN : Remove(k, cased)
    \/ \E k \in Keys : Refuse(k)
    \/ Get \/ Clear

Spec == Init /\ [][Next]_vars
============================================================================
