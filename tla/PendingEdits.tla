---------------------------- MODULE PendingEdits ----------------------------
(***************************************************************************)
(* What a state store promises of the table pending_edits, one call after  *)
(* the other: a file has one row, a first sighting fixes the hard          *)
(* deadline, later ones slide the quiet window only, and nothing but a     *)
(* clear removes the row.                                                  *)
(***************************************************************************)
EXTENDS Naturals

CONSTANTS
    Files,     \* files that may have a row
    Quiet,     \* quiet_seconds
    MaxDelay   \* max_delay_seconds

VARIABLE pending  \* a function on the files with a row

Init == pending = [f \in {} |-> 0]

With(f, row) == [g \in DOMAIN pending \cup {f} |-> IF g = f THEN row ELSE pending[g]]

\* The time of a sighting is the one the row bears afterwards.
FirstSighting(f) ==
    /\ f \in DOMAIN pending' \ DOMAIN pending
    /\ LET now == pending'[f].last IN
       pending' = With(f, [first |-> now, last |-> now, ready |-> now + Quiet,
                           hard |-> now + MaxDelay, force |-> FALSE])

NextSighting(f) ==
    /\ f \in DOMAIN pending' \cap DOMAIN pending
    /\ LET now == pending'[f].last IN
       pending' = With(f, [pending[f] EXCEPT !.last = now, !.ready = now + Quiet])

Force(f) ==
    /\ f \in DOMAIN pending
    /\ pending' = [pending EXCEPT ![f].force = TRUE]

Clear(f) ==
    /\ f \in DOMAIN pending
    /\ pending' = [g \in DOMAIN pending \ {f} |-> pending[g]]

Next == \E f \in Files : FirstSighting(f) \/ NextSighting(f) \/ Force(f) \/ Clear(f)

Spec == Init /\ [][Next]_pending
=============================================================================
