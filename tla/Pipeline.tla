------------------------------ MODULE Pipeline ------------------------------
(***************************************************************************)
(* pipeline.py: from the text of one note to vocabulary rows.  The tables  *)
(* of the text are parsed and the LLM is asked about the rest, unit by     *)
(* unit; the items are made into one row for each term; rows without a     *)
(* known meaning get one from the dictionary, from an LLM translation or   *)
(* from the parts of the term, in this order; the sentences of dialogues   *)
(* are given to rows.                                                      *)
(*                                                                         *)
(* This is the run of the command line and of the upload, in which every   *)
(* unit is asked about; IncrementalSync has the run with a cache.  The LLM *)
(* finds every term that stands in a line of its unit, and its meaning.    *)
(* A meaning may be a placeholder, wherever it comes from: a note, the     *)
(* dictionary or the LLM.  Pinyin and traditional form are filled in as    *)
(* the meaning is.                                                         *)
(***************************************************************************)
EXTENDS NoteText, Linking

CONSTANTS
    Inputs,           \* texts, with settings, dictionary and earlier export
    MaxAttempts,      \* bedrock_retry_max_attempts
    SentencesPerTerm  \* settings.sentences_per_term

\* Meanings: those that is_unknown_translation takes for missing, "n/a" being any
\* placeholder; those a note gives; those of the dictionary, the LLM and the parts.
Unknown == {"", "n/a"}
Given == {"be", "to be able"}
FilledIn == {"gloss", "English", "parts"}
Length == [m \in Unknown \cup Given |->
              CASE m = "" -> 0 [] m = "be" -> 2 [] m = "n/a" -> 3 [] OTHER -> 10]

\* An input: the lines, CEDICT with the glosses of each headword, the terms and
\* keys of the prior CSV and the settings.
Settings == [skip : BOOLEAN, force : BOOLEAN, translate : BOOLEAN, decompose : BOOLEAN,
             sentences : BOOLEAN, strategy : {"importance", "random"}]
Line == [kind : Kinds, term : Seq(Nat), meaning : DOMAIN Length, says : Seq(Nat)]
IsInput(in) ==
    /\ in.lines \in Seq(Line)
    /\ DOMAIN in.dictionary \subseteq Seq(Nat)
    /\ \A h \in DOMAIN in.dictionary : in.dictionary[h] \in Seq(Unknown \cup {"gloss"})
    /\ in.settings \in Settings
    /\ in.prior \subseteq [term : Seq(Nat) \ {<<>>}, key : Nat \ {0}]

ASSUME InputsType == \A in \in Inputs : IsInput(in)
ASSUME LimitsType == MaxAttempts \in Nat \ {0} /\ SentencesPerTerm \in Nat

VARIABLES
    input,    \* what the run is about
    pc,       \* the step that comes next
    todo,     \* blocks not yet worked on
    chunks,   \* chunks of the present block not yet asked about
    current,  \* lines the extraction has come to
    unit,     \* unit_idx
    attempt,  \* calls of the LLM that have failed, of the present one
    items,    \* all_cards
    failed,   \* units that yielded nothing (chunks_failed)
    rows,     \* the rows; their keys are their positions
    answers,  \* translations: what the LLM answered for each term it was asked about
    links,    \* sentence_links
    said      \* sentences not yet linked

vars == <<input, pc, todo, chunks, current, unit, attempt, items, failed, rows,
          answers, links, said>>

\* The text after normalize_unicode and optional_drop_metadata_lines.
Text == IF input.settings.skip THEN DropMetadataLines(input.lines) ELSE input.lines

\* llm_units, listed before the extraction begins.
Units == LlmUnits(Text)

Nowhere == [from |-> 0, to |-> 0]

Init ==
    /\ input \in Inputs
    /\ pc = "extract"
    /\ todo = Blocks(Text)
    /\ chunks = <<>>
    /\ current = Nowhere
    /\ unit = 1
    /\ attempt = 0
    /\ items = <<>>
    /\ failed = {}
    /\ rows = <<>>
    /\ answers = <<>>
    /\ links = <<>>
    /\ said = <<>>

----------------------------------------------------------------------------
(* extract_llm_vocabulary_items *)

\* A unit is taken from the list by its position alone.
Come(to) == /\ current' = to
            /\ pc' = IF unit \in DOMAIN Units THEN "ask" ELSE "raised"

ExtractTable ==
    LET b == Head(todo)
        parsed == ParseTable(Text, b)
    IN
    /\ pc = "extract" /\ chunks = <<>> /\ todo # <<>>
    /\ b.kind = "table"
    /\ todo' = Tail(todo)
    /\ items' = items \o parsed.cards
    /\ IF Len(parsed.cards) < 2 \/ parsed.unparsed >= Max({3, Len(parsed.cards)})
       THEN Come([from |-> b.from, to |-> b.to])
       ELSE UNCHANGED <<current, pc>>
    /\ UNCHANGED <<input, chunks, unit, attempt, failed, rows, answers, links, said>>

ExtractText ==
    /\ pc = "extract" /\ chunks = <<>> /\ todo # <<>>
    /\ Head(todo).kind = "text"
    /\ todo' = Tail(todo)
    /\ chunks' = Chunks(Head(todo))
    /\ UNCHANGED <<input, pc, current, unit, attempt, items, failed, rows, answers,
                   links, said>>

NextChunk ==
    /\ pc = "extract" /\ chunks # <<>>
    /\ Come(Head(chunks))
    /\ chunks' = Tail(chunks)
    /\ UNCHANGED <<input, todo, unit, attempt, items, failed, rows, answers, links, said>>

\* The call returns items that validate.
Answer ==
    LET u == Units[unit] IN
    /\ pc = "ask"
    /\ items' = items \o ItemsOf(Text, u.from, u.to, {"entry", "prose"})
    /\ unit' = unit + 1
    /\ attempt' = 0
    /\ pc' = "extract"
    /\ UNCHANGED <<input, todo, chunks, current, failed, rows, answers, links, said>>

\* A transient error, before the last attempt.
RetryAnswer ==
    /\ pc = "ask"
    /\ attempt < MaxAttempts - 1
    /\ attempt' = attempt + 1
    /\ UNCHANGED <<input, pc, todo, chunks, current, unit, items, failed, rows, answers,
                   links, said>>

\* Any other error, an answer that is no JSON or does not validate: no items,
\* and the run goes on.
FailAnswer ==
    /\ pc = "ask"
    /\ failed' = failed \cup {unit}
    /\ unit' = unit + 1
    /\ attempt' = 0
    /\ pc' = "extract"
    /\ UNCHANGED <<input, todo, chunks, current, items, rows, answers, links, said>>

----------------------------------------------------------------------------
(* finish_pipeline_after_llm *)

\* Mutant: items without a term are kept.
AddItemAlways(acc, c) ==
    LET at == {i \in DOMAIN acc : acc[i].term = c.term}
    IN  IF at = {} THEN Append(acc, c)
        ELSE [i \in DOMAIN acc |->
                 IF i \in at /\ Length[c.meaning] > Length[acc[i].meaning]
                 THEN c ELSE acc[i]]

\* One item for each term, at the place of the first; the longest meaning wins.
AddItem(acc, c) ==
    LET at == {i \in DOMAIN acc : acc[i].term = c.term}
    IN  IF c.term = <<>> THEN acc
        ELSE IF at = {} THEN Append(acc, c)
        ELSE [i \in DOMAIN acc |->
                 IF i \in at /\ Length[c.meaning] > Length[acc[i].meaning]
                 THEN c ELSE acc[i]]

\* _dedupe_cards
DedupeUpTo(cards) ==
    LET F[i \in 0..Len(cards)] == IF i = 0 THEN <<>> ELSE AddItem(F[i - 1], cards[i])
    IN  F
Dedupe(cards) == DedupeUpTo(cards)[Len(cards)]

\* _llm_item_to_row
MakeRows ==
    /\ pc = "extract" /\ chunks = <<>> /\ todo = <<>>
    /\ LET items1 == Dedupe(items) IN
       rows' = [i \in DOMAIN items1 |->
           [term |-> items1[i].term, meaning |-> items1[i].meaning, notes |-> {},
            sentences |-> <<>>]]
    /\ pc' = "enrich"
    /\ UNCHANGED <<input, todo, chunks, current, unit, attempt, items, failed, answers,
                   links, said>>

Missing(row) == row.meaning \in Unknown

Headwords == DOMAIN input.dictionary

\* The texts that are not empty, joined: a placeholder only if it stands alone.
Joined(texts, whole) ==
    LET full == {i \in DOMAIN texts : texts[i] # ""}
    IN  IF full = {} THEN ""
        ELSE IF \E i \in full : full = {i} /\ texts[i] \in Unknown THEN "n/a"
        ELSE whole

\* The meaning of a headword, and that of a term no entry has.
Gloss(term) == IF term \in Headwords THEN Joined(input.dictionary[term], "gloss") ELSE ""

\* Mutant: the dictionary's meaning is preferred.
EnrichRowAlways(row) ==
    IF Gloss(row.term) # "" THEN [row EXCEPT !.meaning = Gloss(row.term)] ELSE row

\* enrich_row
EnrichRow(row) ==
    IF (input.settings.force \/ Missing(row)) /\ Gloss(row.term) # ""
    THEN [row EXCEPT !.meaning = Gloss(row.term)]
    ELSE row

Enrich ==
    /\ pc = "enrich"
    /\ rows' = [k \in DOMAIN rows |-> EnrichRow(rows[k])]
    /\ pc' = IF input.settings.translate /\ \E k \in DOMAIN rows' : Missing(rows'[k])
             THEN "translate" ELSE "decompose"
    /\ UNCHANGED <<input, todo, chunks, current, unit, attempt, items, failed, answers,
                   links, said>>

\* The LLM answers for some of the terms it is asked about, perhaps with a
\* placeholder, or the call fails; an empty answer counts for none.
Translate ==
    /\ pc = "translate"
    /\ answers' \in [{rows[k].term : k \in {j \in DOMAIN rows : Missing(rows[j])}}
                        -> Unknown \cup {"English"}]
    /\ rows' = [k \in DOMAIN rows |->
           IF Missing(rows[k]) /\ answers'[rows[k].term] # ""
           THEN [rows[k] EXCEPT !.meaning = answers'[rows[k].term], !.notes = @ \cup {"English"}]
           ELSE rows[k]]
    /\ pc' = "decompose"
    /\ UNCHANGED <<input, todo, chunks, current, unit, attempt, items, failed, links, said>>

\* _primary_gloss: the first gloss that is not empty.
PrimaryGloss(glosses) ==
    LET full == {i \in DOMAIN glosses : glosses[i] # ""}
    IN  IF full = {} THEN "" ELSE glosses[Min(full)]

\* The meaning put together from the parts of a term.
PartsMeaning(term) ==
    LET parts == Segments(term, Headwords).parts
    IN  Joined([i \in DOMAIN parts |-> PrimaryGloss(input.dictionary[parts[i]])], "parts")

\* apply_decomposition_to_row, of a row without a meaning.  The note is made even
\* if the parts have no meaning: they have a traditional form.
DecomposeRow(row) ==
    IF /\ Missing(row)
       /\ row.term \notin Headwords
       /\ Decomposable(row.term, Headwords)
    THEN [row EXCEPT !.meaning = IF PartsMeaning(row.term) # "" THEN PartsMeaning(row.term) ELSE @,
                     !.notes = @ \cup {"parts"}]
    ELSE row

Decompose ==
    /\ pc = "decompose"
    /\ rows' = IF input.settings.decompose THEN [k \in DOMAIN rows |-> DecomposeRow(rows[k])]
               ELSE rows
    /\ said' = IF input.settings.sentences THEN DialogueSentences(Text) ELSE <<>>
    /\ pc' = "link"
    /\ UNCHANGED <<input, todo, chunks, current, unit, attempt, items, failed, answers,
                   links>>

\* TermIndex of the rows, merged with that of the prior CSV.
KeysFor(term) ==
    {k \in DOMAIN rows : rows[k].term = term}
        \cup {p.key : p \in {q \in input.prior : q.term = term}}
AllTerms == {rows[k].term : k \in DOMAIN rows} \cup {p.term : p \in input.prior}
Frequency ==
    [t \in AllTerms |-> Cardinality({k \in DOMAIN rows : rows[k].term = t})
                        + Cardinality({p \in input.prior : p.term = t})]

\* One sentence: it is linked to the smallest key of the winner.
LinkSentence ==
    LET winners == Winners(DominantMatches(Head(said), AllTerms), Frequency,
                           input.settings.strategy)
    IN
    /\ pc = "link" /\ said # <<>>
    /\ said' = Tail(said)
    /\ IF winners = {} THEN links' = links
       ELSE \E m \in winners :
                links' = Append(links, [sentence |-> Head(said), match |-> m,
                                        key |-> Min(KeysFor(m.term))])
    /\ UNCHANGED <<input, pc, todo, chunks, current, unit, attempt, items, failed, rows,
                   answers>>

\* A row gets the first sentences linked to its key.
FillSentences ==
    /\ pc = "link" /\ said = <<>>
    /\ rows' = [k \in DOMAIN rows |->
           LET mine == Picked(links, {i \in DOMAIN links : links[i].key = k})
               first == SubSeq(mine, 1, Min({SentencesPerTerm, Len(mine)}))
           IN  [rows[k] EXCEPT !.sentences = [i \in DOMAIN first |-> first[i].sentence]]]
    /\ pc' = "done"
    /\ UNCHANGED <<input, todo, chunks, current, unit, attempt, items, failed, answers,
                   links, said>>

Next ==
    \/ ExtractTable
    \/ ExtractText
    \/ NextChunk
    \/ Answer
    \/ RetryAnswer
    \/ FailAnswer
    \/ MakeRows
    \/ Enrich
    \/ Translate
    \/ Decompose
    \/ LinkSentence
    \/ FillSentences

Spec == Init /\ [][Next]_vars

----------------------------------------------------------------------------
(* Properties *)

TypeOK ==
    /\ IsInput(input)
    /\ pc \in {"extract", "ask", "raised", "enrich", "translate", "decompose", "link", "done"}
    /\ \A i \in DOMAIN todo : todo[i] \in [kind : {"text", "table"}, from : Nat, to : Nat]
    /\ chunks \in Seq([from : Nat, to : Nat])
    /\ current \in [from : Nat, to : Nat]
    /\ unit \in Nat
    /\ attempt \in 0..(MaxAttempts - 1)
    /\ items \in Seq([term : Seq(Nat), meaning : Unknown \cup Given])
    /\ failed \subseteq DOMAIN Units
    /\ rows \in Seq([term : Seq(Nat) \ {<<>>}, meaning : Unknown \cup Given \cup FilledIn,
                     notes : SUBSET {"English", "parts"}, sentences : Seq(Seq(Nat))])
    /\ DOMAIN answers \subseteq {rows[k].term : k \in DOMAIN rows}
    /\ \A t \in DOMAIN answers : answers[t] \in Unknown \cup {"English"}
    /\ links \in Seq([sentence : Seq(Nat), key : Nat,
                      match : [term : Seq(Nat), start : Nat, end : Nat]])
    /\ said \in Seq(Seq(Nat))

\* The list of units and the extraction, which finds the units a second time,
\* agree on every unit, to the last (assert in pipeline.py:225).
UnitIsOwn ==
    /\ pc # "raised"
    /\ pc = "ask" => Units[unit] = current
    /\ pc \notin {"extract", "ask", "raised"} => unit = Len(Units) + 1

\* Line i is one of three in a row that are tabbed or blank, not all of them blank.
InTable(i) ==
    \E a \in 1..i, b \in i..Len(Text) :
        /\ b - a >= 2
        /\ \A k \in a..b : Text[k].kind \in TabKinds \cup {"blank"}
        /\ \E k \in a..b : Text[k].kind # "blank"

\* However the text is cut, no passage of prose up to one character longer than
\* the overlap is cut in two, and no entry of a table is passed over
\* (chunk.py:4-20, blocks.py:12-67).
NothingCut ==
    pc = "enrich" =>
        /\ \A i, j \in DOMAIN Text :
              (/\ i <= j /\ j - i <= Overlap
               /\ Text[i].kind # "blank" /\ Text[j].kind # "blank"
               /\ \A k \in i..j : ~InTable(k))
                  => \E u \in DOMAIN Units : Units[u].from <= i /\ j <= Units[u].to
        /\ \A i \in DOMAIN Text :
              Text[i].kind = "entry" /\ InTable(i) => Contains(items, Item(Text[i]))

\* The item a row begins with: the first of those with the longest meaning, a
\* placeholder counting for a meaning.
BestItem(term) ==
    LET mine == {i \in DOMAIN items : items[i].term = term}
    IN  items[CHOOSE i \in mine :
                  \A j \in mine : \/ Length[items[j].meaning] < Length[items[i].meaning]
                                  \/ /\ Length[items[j].meaning] = Length[items[i].meaning]
                                     /\ i <= j]

\* What the sources say of a term, in the order in which they are asked: the note,
\* unless the dictionary is to overwrite it, the dictionary, the LLM, the parts.
Offers(term) ==
    <<IF input.settings.force /\ Gloss(term) # "" THEN Gloss(term) ELSE BestItem(term).meaning,
      Gloss(term),
      IF term \in DOMAIN answers THEN answers[term] ELSE "",
      IF /\ input.settings.decompose
         /\ term \notin Headwords
         /\ Decomposable(term, Headwords)
      THEN PartsMeaning(term) ELSE "">>

\* The sources that give a term a meaning.
Known(term) == {i \in 1..4 : Offers(term)[i] \notin Unknown}

\* In the end each term found, in tables and in the units that did not fail, has
\* one row.  The row has the meaning of the first source that knows one, and none
\* only if no source does; a meaning of the LLM or of the parts bears its note, and
\* a note stands only where every source asked before knew nothing.  What the notes
\* themselves offer is the longest text for the term (BestItem); MeaningKept is
\* about that (pipeline.py:60-71, 252-321).
RowsAsExpected ==
    pc = "done" =>
        /\ {rows[k].term : k \in DOMAIN rows} = {items[i].term : i \in DOMAIN items} \ {<<>>}
        /\ \A k, l \in DOMAIN rows : rows[k].term = rows[l].term => k = l
        /\ \A k \in DOMAIN rows :
              LET row == rows[k]
                  known == Known(row.term)
              IN  /\ IF known = {} THEN Missing(row)
                     ELSE row.meaning = Offers(row.term)[Min(known)]
                  /\ {row.meaning} \cap {"English", "parts"} \subseteq row.notes
                  /\ row.notes # {} => known \cap 1..2 = {}
                  /\ "parts" \in row.notes => known \cap 1..3 = {}
        /\ \A u \in DOMAIN Units \ failed : \A i \in Units[u].from .. Units[u].to :
              Text[i].kind = "prose" /\ Text[i].term # <<>> =>
                  \E k \in DOMAIN rows : rows[k].term = Text[i].term

\* A meaning that some item gave is not lost: unless the dictionary is to overwrite
\* it, the row of its term has a meaning.  pipeline.py:75 says "(longest meaning
\* wins)" and enrich.py:16 that a placeholder is "a missing English gloss".
MeaningKept ==
    pc = "done" /\ ~input.settings.force =>
        \A i \in DOMAIN items : items[i].term # <<>> /\ items[i].meaning \notin Unknown =>
            \E k \in DOMAIN rows : rows[k].term = items[i].term /\ ~Missing(rows[k])

Overlapping(m, n) == m.start < n.end /\ n.start < m.end

\* Of the matches in a sentence some are kept that do not overlap, and any other
\* overlaps one that begins before it, or with it and is longer; and unless the
\* keys of an earlier export are mixed with those of the rows, a row gets only
\* sentences its term occurs in (sentence_assign.py:30-61, pipeline.py:323-371).
SentencesFit ==
    pc = "done" =>
        /\ \A s \in ToSet(DialogueSentences(Text)) :
              LET kept == DominantMatches(s, AllTerms) IN
              /\ \A m, n \in kept : m # n => ~Overlapping(m, n)
              /\ \A m \in AllMatches(s, AllTerms) \ kept :
                    \E n \in kept : /\ Overlapping(m, n)
                                    /\ \/ n.start < m.start
                                       \/ n.start = m.start /\ n.end > m.end
        /\ input.prior = {} =>
              \A k \in DOMAIN rows : \A s \in ToSet(rows[k].sentences) :
                  AllMatches(s, {rows[k].term}) # {}

\* A line ends the dialogue begun at line h: something was said, and this is a
\* header, or the second blank line in succession.
Ends(h, c) ==
    /\ \E s \in (h + 1)..(c - 1) : Speaks(Text[s])
    /\ \/ Text[c].kind = "section"
       \/ Text[c].kind = "blank" /\ Text[c - 1].kind = "blank"

\* In a text with one dialogue, exactly what its speakers say is taken, whatever
\* lines stand in between, and in order (sentences.py:60-106).
SpeakersHeard ==
    LET headers == {h \in DOMAIN Text : Text[h].kind = "header"} IN
    pc = "done" /\ Cardinality(headers) = 1 =>
        LET h == Min(headers)
            Said(i) == IF /\ Speaks(Text[i])
                          /\ h < i
                          /\ \A c \in (h + 1)..(i - 1) : ~Ends(h, c)
                       THEN Sentences(Text[i].says) ELSE <<>>
        IN  DialogueSentences(Text) = FlattenSeq([i \in DOMAIN Text |-> Said(i)])
=============================================================================
