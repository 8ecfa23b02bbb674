--------------------------- MODULE ThreeWayMerge ---------------------------
(***************************************************************************)
(* export/ankiweb/merge.py: the merge of what the pipeline has for a note  *)
(* (local) with what the note holds in Anki (remote), against the fields   *)
(* of the last sync (base), field by field.  A field missing from one of   *)
(* the three counts as empty, so all three are total on FieldNames.        *)
(***************************************************************************)
CONSTANTS
    FieldNames,  \* ANKI_MODEL_FIELDS
    NoBase       \* base_fields of a card that was never synced

Policies == {"prefer-remote", "prefer-local", "tag-and-skip"}

Conflicts(base, remote, local) ==
    {k \in FieldNames : base # NoBase /\ base[k] # remote[k] /\ base[k] # local[k]}

\* The side that changed a field wins it; the policy decides when both did.
MergedField(base, remote, local, policy) ==
    IF base = remote THEN local
    ELSE IF base = local \/ policy # "prefer-local" THEN remote ELSE local

\* Without a base the local fields are pushed; under tag-and-skip one conflict
\* leaves the whole note as it is.
MergedFields(base, remote, local, policy) ==
    IF base = NoBase THEN local
    ELSE IF policy = "tag-and-skip" /\ Conflicts(base, remote, local) # {}
         THEN remote
         ELSE [k \in FieldNames |->
                   MergedField(base[k], remote[k], local[k], policy)]

=============================================================================
