----------------------------- MODULE Interning -----------------------------
(***************************************************************************)
(* What string interning promises to the rest of the interpreter.          *)
(*                                                                         *)
(* There is never more than one copy of a spelling, so that words can be   *)
(* compared by pointer.  Of the spellings that differ only in case, one    *)
(* that exists is the canon: the one all of them agree on.  While it       *)
(* exists it stays the canon, so that a canon kept in a key or a           *)
(* parameter can be compared by pointer as well.                           *)
(***************************************************************************)
EXTENDS Naturals

CONSTANTS
    Spellings,  \* the texts of words
    Classes,    \* spellings up to upper and lower case
    Fold,       \* the class of a spelling
    NoSpelling

VARIABLES
    copies,  \* how many internings there are of each spelling
    canon    \* the canon of each class, if it has one

vars == <<copies, canon>>

Init ==
    /\ copies = [s \in Spellings |-> 0]
    /\ canon = [c \in Classes |-> NoSpelling]

\* Interning a spelling that is not there; the first of a class is its canon.
Intern(s) ==
    /\ copies[s] = 0
    /\ copies' = [copies EXCEPT ![s] = 1]
    /\ canon' = IF canon[Fold[s]] = NoSpelling
                   THEN [canon EXCEPT ![Fold[s]] = s]
                   ELSE canon

\* The spelling is collected; if it was the canon any other takes over.
Forget(s) ==
    /\ copies[s] = 1
    /\ copies' = [copies EXCEPT ![s] = 0]
    /\ LET c == Fold[s]
           rest == {t \in Spellings \ {s} : Fold[t] = c /\ copies[t] = 1}
       IN  \/ canon[c] # s /\ UNCHANGED canon
           \/ /\ canon[c] = s
              /\ \E t \in rest \union {NoSpelling} :
                    /\ t = NoSpelling <=> rest = {}
                    /\ canon' = [canon EXCEPT ![c] = t]

Next == \E s \in Spellings : Intern(s) \/ Forget(s)

Spec == Init /\ [][Next]_vars
============================================================================
