--------------------------- MODULE MCSymbolTable ---------------------------
(* Three casings of one ASCII word, two casings of a word whose first byte *)
(* depends on case, and three other words.  Most of the hashes start at    *)
(* the same slot of the tables of 7 and 13.                                *)
EXTENDS SymbolTable

MCFold == [s \in Spellings |->
              CASE s \in {"a", "A", "aA"} -> "a"
                [] s \in {"yo", "YO"} -> "yo"
                [] OTHER -> s]
MCClasses == {MCFold[s] : s \in Spellings}
MCHash == [s \in Spellings |->
              CASE MCFold[s] = "a" -> 0 [] s = "b" -> 1
                [] s = "yo" -> 3 [] s = "YO" -> 10
                [] s = "d" -> 514 [] OTHER -> 14]
============================================================================
