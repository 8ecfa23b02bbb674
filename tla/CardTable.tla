------------------------------ MODULE CardTable ------------------------------
(***************************************************************************)
(* What a state store promises of the table cards, one call after the      *)
(* other: a headword has one row, and keeps for good the id under which    *)
(* its note in Anki is tagged.                                             *)
(***************************************************************************)
CONSTANTS
    Keys,    \* headwords
    Absent   \* no row

VARIABLE card  \* card[k]: the id and the content of the row of k

Init == card = [k \in Keys |-> Absent]

Others(k) == Keys \ {k}

Create(k) ==
    /\ card[k] = Absent
    /\ card'[k] # Absent
    /\ \A j \in Others(k) : /\ card'[j] = card[j]
                            /\ card[j] # Absent => card[j].id # card'[k].id

Update(k) ==
    /\ card[k] # Absent
    /\ card'[k] # Absent
    /\ card'[k].id = card[k].id
    /\ \A j \in Others(k) : card'[j] = card[j]

Next == /\ DOMAIN card' = Keys
        /\ \E k \in Keys : Create(k) \/ Update(k)

Spec == Init /\ [][Next]_card
=============================================================================
