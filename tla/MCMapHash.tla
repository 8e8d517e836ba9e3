------------------------------ MODULE MCMapHash -----------------------------
(* Two casings of a key that starts at the same slot of the table of 7 as  *)
(* 1; and 1.0, which is equal to 1 but starts at another slot of that      *)
(* table, and at the same one of the table of 13.                          *)
EXTENDS MapHash

Either(k, l) == {<<k, l>>, <<l, k>>}
MCSame == {<<k, k>> : k \in Keys} \union Either("1", "1.0")
MCAlike == MCSame \union Either("a", "A")
MCHash ==
    [k \in Keys |-> CASE k = "1" -> 14 [] k = "1.0" -> 1 [] OTHER -> 0]
============================================================================
