------------------------- MODULE MCIncrementalSync -------------------------
(***************************************************************************)
(* Short texts and a longer one that contains both.  Both units explain    *)
(* the headword x, b at greater length.  An edit puts one unit where       *)
(* another was, or keeps it where it was.                                  *)
(***************************************************************************)
EXTENDS IncrementalSync, TLC

CONSTANTS a, b, x, y

MCVocabulary ==
    (a :> (x :> 1 @@ y :> 0)) @@ (b :> (x :> 2 @@ y :> 1))
MCDocuments == {<<a>>, <<b>>, <<b, a>>}
=============================================================================
