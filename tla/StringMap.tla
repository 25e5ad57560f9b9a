----------------------------- MODULE StringMap -----------------------------
(***************************************************************************)
(* What a string map promises: a name is bound once and keeps its value    *)
(* until the map is emptied.                                               *)
(***************************************************************************)
CONSTANTS Name, Value

VARIABLE binding    \* a function from the names bound to their values

TypeOK == \E S \in SUBSET Name : binding \in [S -> Value]

Init == binding = <<>>

Add ==
    \E n \in Name \ DOMAIN binding, v \in Value :
        binding' = [m \in DOMAIN binding \cup {n} |-> IF m = n THEN v ELSE binding[m]]

Clear == binding' = <<>>

Next == Add \/ Clear

Spec == Init /\ [][Next]_binding
=============================================================================
