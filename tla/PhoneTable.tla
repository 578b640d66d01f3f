----------------------------- MODULE PhoneTable -----------------------------
(* A table of names by number.  The first name of a number stays; a print  *)
(* shows all numbers in their order.                                       *)
EXTENDS Naturals, Sequences, FiniteSets

CONSTANTS Phone, Name

VARIABLES table, printed

Init == table = [p \in {} |-> 0] /\ printed = <<>>

Enter(p, name) ==
    /\ table' = [q \in DOMAIN table \cup {p} |-> IF q \in DOMAIN table THEN table[q] ELSE name]
    /\ UNCHANGED printed

ShowAll ==
    /\ printed' \in [1 .. Cardinality(DOMAIN table) -> DOMAIN table]
    /\ \A i, j \in DOMAIN printed' : i < j => printed'[i] < printed'[j]
    /\ UNCHANGED table

Clear == table' = [p \in {} |-> 0] /\ UNCHANGED printed

Next == ShowAll \/ Clear \/ \E p \in Phone, name \in Name : Enter(p, name)

Spec == Init /\ [][Next]_<<table, printed>>
=============================================================================
