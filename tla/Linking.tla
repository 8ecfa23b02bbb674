------------------------------ MODULE Linking ------------------------------
(***************************************************************************)
(* linking/ and dictionary/enrich.py: which terms occur in a sentence,     *)
(* which of them the sentence is given to, and how a term is made up of    *)
(* headwords of the dictionary.  Terms and sentences are sequences of      *)
(* characters.                                                             *)
(***************************************************************************)
EXTENDS Naturals, Sequences, FiniteSets, SequencesExt

CONSTANT MaxSegments  \* max_segments of _decompose_via_cedict

ASSUME SegmentsType == MaxSegments \in Nat

\* end: the position after the match.
AllMatches(sentence, terms) ==
    {m \in [term : terms, start : DOMAIN sentence, end : 2..(Len(sentence) + 1)] :
        /\ m.end = m.start + Len(m.term)
        /\ SubSeq(sentence, m.start, m.end - 1) = m.term}

Longest(matches) == CHOOSE m \in matches : \A n \in matches : n.end <= m.end

\* Mutant: the scan goes on right after the start of a match.
DominantOverlapping(sentence, terms) ==
    LET all == AllMatches(sentence, terms)
        From[i \in 1..(Len(sentence) + 1)] ==
            LET here == {m \in all : m.start = i}
            IN  IF i > Len(sentence) THEN {}
                ELSE IF here = {} THEN From[i + 1]
                ELSE {Longest(here)} \cup From[i + 1]
    IN  From[1]

\* The matches kept from position i on.
DominantFrom(sentence, terms) ==
    LET all == AllMatches(sentence, terms)
        From[i \in 1..(Len(sentence) + 1)] ==
            LET here == {m \in all : m.start = i}
            IN  IF i > Len(sentence) THEN {}
                ELSE IF here = {} THEN From[i + 1]
                ELSE {Longest(here)} \cup From[Longest(here).end]
    IN  From

\* find_candidate_matches: from left to right the longest match at each place
\* that no match kept before reaches.
DominantMatches(sentence, terms) == DominantFrom(sentence, terms)[1]

\* The score of choose_winner_key; two matches never start at one place, so the
\* tie-break on the term decides nothing.
Better(m, n, frequency) ==
    \/ Len(m.term) > Len(n.term)
    \/ /\ Len(m.term) = Len(n.term)
       /\ \/ frequency[m.term] < frequency[n.term]
          \/ frequency[m.term] = frequency[n.term] /\ m.start < n.start

\* The matches the sentence may be given to.
Winners(matches, frequency, strategy) ==
    IF strategy = "random" THEN matches
    ELSE {m \in matches : \A n \in matches \ {m} : Better(m, n, frequency)}

\* The greedy segmentation: the longest headword at each place.  Where none
\* begins it breaks off.
Segments(term, headwords) ==
    LET From[i \in 1..(Len(term) + 1)] ==
            LET ends == {j \in i..Len(term) : SubSeq(term, i, j) \in headwords}
            IN  IF i > Len(term) THEN [complete |-> TRUE, parts |-> <<>>]
                ELSE IF ends = {} THEN [complete |-> FALSE, parts |-> <<>>]
                ELSE [complete |-> From[Max(ends) + 1].complete,
                      parts |-> <<SubSeq(term, i, Max(ends))>> \o From[Max(ends) + 1].parts]
    IN  From[1]

\* _decompose_via_cedict: the segmentation comes to its end, with two segments or
\* more and no more than allowed.
Decomposable(term, headwords) ==
    /\ Segments(term, headwords).complete
    /\ Len(Segments(term, headwords).parts) \in 2..MaxSegments
=============================================================================
