----------------------------- MODULE MCHeaders -----------------------------
(* Instances of Headers for TLC. *)
EXTENDS Headers

CONSTANTS lower, Upper, other, third, short, long

Spellings == {lower, Upper, other, third}
Texts == {short, long}

\* Two spellings of one name, and two other names.
NameOf == [k \in Spellings |-> CASE k = other -> "other"
                                 [] k = third -> "third"
                                 [] OTHER -> "first"]

LengthOf == [s \in Spellings \cup Texts |-> IF s \in {other, long} THEN 2 ELSE 1]
=============================================================================
