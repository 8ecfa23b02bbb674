------------------------------ MODULE NoteText ------------------------------
(***************************************************************************)
(* preprocess/: how the text of a note is divided into tables and prose,   *)
(* what a table yields, which units of text the LLM is asked about, and    *)
(* which sentences a dialogue has.                                         *)
(*                                                                         *)
(* A text is a sequence of lines.  A line of prose counts for one          *)
(* character where text is measured.                                       *)
(***************************************************************************)
EXTENDS Naturals, Sequences, FiniteSets, SequencesExt

CONSTANTS
    ChunkSize,  \* settings.chunk_size
    Overlap     \* settings.chunk_overlap

ASSUME ChunkType == ChunkSize \in Nat /\ Overlap \in Nat /\ Overlap < ChunkSize

\* Tabbed lines: an entry, a line whose first cell is no term, punctuation.
\* Others: a Dialogues header, another header, a speaker's line, a line of
\* lesson metadata, a line without anything, prose.
TabKinds == {"entry", "junk", "rule"}
Kinds == TabKinds \cup {"header", "section", "speaker", "date", "blank", "prose"}

\* A line of a table may be a speaker's line at the same time: it says something.
Speaks(line) ==
    \/ line.kind = "speaker"
    \/ line.kind \in {"entry", "junk"} /\ line.says # <<>>

\* The elements of s at the positions in I, in their order.
PickedUpTo(s, I) ==
    LET F[i \in 0..Len(s)] ==
            IF i = 0 THEN <<>> ELSE IF i \in I THEN Append(F[i - 1], s[i]) ELSE F[i - 1]
    IN  F
Picked(s, I) == PickedUpTo(s, I)[Len(s)]

\* optional_drop_metadata_lines
DropMetadataLines(lines) == Picked(lines, {i \in DOMAIN lines : lines[i].kind # "date"})

----------------------------------------------------------------------------
(* Blocks *)

\* The first line from i on that is neither blank nor tabbed.
RunEnd(text, i) ==
    LET stops == {j \in i..Len(text) : text[j].kind \notin TabKinds \cup {"blank"}}
    IN  IF stops = {} THEN Len(text) + 1 ELSE Min(stops)

IsTableRun(text, i) ==
    LET j == RunEnd(text, i)
    IN  j - i >= 3 /\ \E k \in i..(j - 1) : text[k].kind # "blank"

AddLine(i, blocks) ==
    IF blocks # <<>> /\ Head(blocks).kind = "text"
    THEN <<[Head(blocks) EXCEPT !.from = i]>> \o Tail(blocks)
    ELSE <<[kind |-> "text", from |-> i, to |-> i]>> \o blocks

FullLines(text, b) == {k \in b.from .. b.to : text[k].kind # "blank"}

\* A block without the blank lines at its ends.
Trimmed(text, b) ==
    [b EXCEPT !.from = Min(FullLines(text, b)), !.to = Max(FullLines(text, b))]

\* The blocks from line i on: a run of three lines makes a table wherever it
\* begins; a line that begins none is prose.
BlocksFrom(text) ==
    LET From[i \in 1..(Len(text) + 1)] ==
            IF i > Len(text) THEN <<>>
            ELSE IF IsTableRun(text, i)
            THEN <<[kind |-> "table", from |-> i, to |-> RunEnd(text, i) - 1]>>
                 \o From[RunEnd(text, i)]
            ELSE AddLine(i, From[i + 1])
    IN  From

\* segment_table_blocks
Blocks(text) ==
    LET all == BlocksFrom(text)[1]
        full == Picked(all, {i \in DOMAIN all : FullLines(text, all[i]) # {}})
    IN  [i \in DOMAIN full |-> Trimmed(text, full[i])]

Item(line) == [term |-> line.term, meaning |-> line.meaning]

\* The items of the lines from..to that are of one of the kinds.
ItemsOf(text, from, to, kinds) ==
    LET all == SubSeq(text, from, to)
        lines == Picked(all, {i \in DOMAIN all : all[i].kind \in kinds})
    IN  [i \in DOMAIN lines |-> Item(lines[i])]

\* parse_table_block on a block of segment_table_blocks, in which every line is
\* tabbed or blank: its branches for continuation lines are not reached.
ParseTable(text, b) ==
    [cards |-> ItemsOf(text, b.from, b.to, {"entry"}),
     unparsed |-> Cardinality({k \in b.from .. b.to : text[k].kind = "junk"})]

----------------------------------------------------------------------------
(* Units for the LLM *)

\* The last character of a window that begins with character s.
WindowEnd(b, s) == Min({s + ChunkSize - 1, b.to})

\* chunk_text: windows that overlap.
ChunksFrom(b) ==
    LET From[s \in b.from .. b.to] ==
            <<[from |-> s, to |-> WindowEnd(b, s)]>>
                \o (IF WindowEnd(b, s) >= b.to THEN <<>>
                    ELSE From[WindowEnd(b, s) - Overlap + 1])
    IN  From

\* Mutant: the next window starts one character late.
ChunksOffByOne(b) ==
    LET From[s \in b.from .. b.to] ==
            <<[from |-> s, to |-> WindowEnd(b, s)]>>
                \o (IF WindowEnd(b, s) >= b.to THEN <<>>
                    ELSE From[Min({WindowEnd(b, s) - Overlap + 2, b.to})])
    IN  From[b.from]

Chunks(b) == ChunksFrom(b)[b.from]

\* Mutant: a table with few entries is not listed.
ListsNoPoorTable(parsed) == parsed.unparsed >= Max({3, Len(parsed.cards)})

\* A table with too few cards or too many lines that were not understood.
ListsFallback(parsed) ==
    \/ Len(parsed.cards) < 2
    \/ parsed.unparsed >= Max({3, Len(parsed.cards)})

UnitsOf(text, b) ==
    IF b.kind = "text" THEN Chunks(b)
    ELSE IF ListsFallback(ParseTable(text, b)) THEN <<[from |-> b.from, to |-> b.to]>>
    ELSE <<>>

\* list_llm_text_units: the units of the first i blocks, and of all of them.
UnitsUpTo(text, blocks) ==
    LET F[i \in 0..Len(blocks)] == IF i = 0 THEN <<>> ELSE F[i - 1] \o UnitsOf(text, blocks[i])
    IN  F
LlmUnits(text) == UnitsUpTo(text, Blocks(text))[Len(Blocks(text))]

----------------------------------------------------------------------------
(* Dialogues *)

Stop == 0  \* a mark that ends a sentence

\* What is known of the sentences after one more character.
Split(acc, ch) ==
    IF ch = Stop THEN [out |-> Append(acc.out, Append(acc.buf, ch)), buf |-> <<>>]
    ELSE [out |-> acc.out, buf |-> Append(acc.buf, ch)]

\* _split_cn_sentences
SplitUpTo(content) ==
    LET F[i \in 0..Len(content)] ==
            IF i = 0 THEN [out |-> <<>>, buf |-> <<>>] ELSE Split(F[i - 1], content[i])
    IN  F
Sentences(content) ==
    LET end == SplitUpTo(content)[Len(content)]
    IN  IF end.buf = <<>> THEN end.out ELSE Append(end.out, end.buf)

OutOfDialogue(acc) == [acc EXCEPT !.inside = FALSE, !.spoken = FALSE, !.blanks = 0]

\* Mutant: the blank lines are not counted afresh.
HearTired(acc, line) ==
    CASE ~acc.inside ->
           IF line.kind = "header" THEN [acc EXCEPT !.inside = TRUE] ELSE acc
      [] acc.inside /\ line.kind = "blank" ->
           IF acc.spoken /\ acc.blanks = 1 THEN OutOfDialogue(acc)
           ELSE [acc EXCEPT !.blanks = 1]
      [] acc.inside /\ line.kind \in {"header", "section"} ->
           IF acc.spoken THEN OutOfDialogue(acc) ELSE acc
      [] acc.inside /\ Speaks(line) ->
           [acc EXCEPT !.spoken = TRUE, !.out = @ \o Sentences(line.says)]
      [] OTHER -> acc

\* One line for extract_dialogue_sentences.  A header ends the dialogue it
\* stands in, as any other header does, and begins none.
Hear(acc, line) ==
    CASE ~acc.inside ->
           IF line.kind = "header" THEN [acc EXCEPT !.inside = TRUE] ELSE acc
      [] acc.inside /\ line.kind = "blank" ->
           IF acc.spoken /\ acc.blanks >= 1 THEN OutOfDialogue(acc)
           ELSE [acc EXCEPT !.blanks = @ + 1]
      [] acc.inside /\ line.kind \in {"header", "section"} ->
           IF acc.spoken THEN OutOfDialogue(acc) ELSE [acc EXCEPT !.blanks = 0]
      [] acc.inside /\ Speaks(line) ->
           [acc EXCEPT !.spoken = TRUE, !.blanks = 0, !.out = @ \o Sentences(line.says)]
      [] OTHER -> [acc EXCEPT !.blanks = 0]

HeardUpTo(text) ==
    LET F[i \in 0..Len(text)] ==
            IF i = 0 THEN [inside |-> FALSE, spoken |-> FALSE, blanks |-> 0, out |-> <<>>]
            ELSE Hear(F[i - 1], text[i])
    IN  F
DialogueSentences(text) == HeardUpTo(text)[Len(text)].out
=============================================================================
