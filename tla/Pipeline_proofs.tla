-------------------------- MODULE Pipeline_proofs --------------------------
(***************************************************************************)
(* Theorems about Pipeline, for every text, dictionary, earlier export and *)
(* settings: the state is as typed, the list of units and the extraction   *)
(* agree, nothing is cut that is to stay whole, the rows and their         *)
(* meanings are what the sources say, the sentences fit.                   *)
(***************************************************************************)
EXTENDS Pipeline, Text_proofs

Card == [term : Seq(Nat), meaning : Unknown \cup Given]
Row == [term : Seq(Nat) \ {<<>>}, meaning : Unknown \cup Given \cup FilledIn,
        notes : SUBSET {"English", "parts"}, sentences : Seq(Seq(Nat))]
Link == [sentence : Seq(Nat), key : Nat, match : [term : Seq(Nat), start : Nat, end : Nat]]

----------------------------------------------------------------------------
(* The input *)

LEMMA LineFacts ==
    /\ \A x \in Line : Item(x) \in Card /\ x.says \in Seq(Nat)
    /\ DOMAIN Length = Unknown \cup Given
    /\ \A m \in Unknown \cup Given : Length[m] \in Nat
<1>1. DOMAIN Length = Unknown \cup Given
  BY DEF Length
<1>2. ASSUME NEW m \in Unknown \cup Given PROVE Length[m] \in Nat
  BY DEF Length, Unknown, Given
<1>3. ASSUME NEW x \in Line PROVE Item(x) \in Card /\ x.says \in Seq(Nat)
  BY <1>1 DEF Line, Item, Card
<1>. QED  BY <1>1, <1>2, <1>3

LEMMA TextType ==
    ASSUME IsInput(input)
    PROVE  Text \in Seq(Line)
<1>1. PICK lines : lines = input.lines
  OBVIOUS
<1>2. lines \in Seq(Line)
  BY <1>1 DEF IsInput
<1>3. DropMetadataLines(lines) \in Seq(Line)
  BY <1>2, PickedElements DEF DropMetadataLines
<1>. QED  BY <1>1, <1>2, <1>3 DEF Text

\* What an input gives the extraction: blocks and units.
InText(b) == ProperBlock(b) /\ 1 <= b.from /\ b.to <= Len(Text)

LEMMA InputFacts ==
    ASSUME IsInput(input)
    PROVE  /\ Text \in Seq(Line) /\ Len(Text) \in Nat
           /\ ProperBlocks(Blocks(Text)) /\ Len(Blocks(Text)) \in Nat
           /\ \A k \in 1..Len(Blocks(Text)) : Blocks(Text)[k] \in Block /\ InText(Blocks(Text)[k])
           /\ Units \in Seq(Window) /\ Len(Units) \in Nat
           /\ \A i \in 0..Len(Blocks(Text)) :
                 /\ UnitsUpTo(Text, Blocks(Text))[i] \in Seq(Window)
                 /\ Len(UnitsUpTo(Text, Blocks(Text))[i]) \in Nat
                 /\ Continues(Units, UnitsUpTo(Text, Blocks(Text))[i])
<1>1. PICK text : text = Text
  OBVIOUS
<1>2. text \in Seq(Line) /\ Len(text) \in Nat
  BY <1>1, TextType
<1>3. PICK B : B = Blocks(text)
  OBVIOUS
<1>4. ProperBlocks(B) /\ \A k \in 1..Len(B) : 1 <= B[k].from /\ B[k].to <= Len(text)
  BY <1>2, <1>3, BlocksFacts
<1>5. B \in Seq(Block) /\ Len(B) \in Nat /\ Len(B) \in 0..Len(B)
  BY <1>4 DEF ProperBlocks
<1>6. \A k \in 1..Len(B) : B[k] \in Block /\ InText(B[k])
  BY <1>1, <1>4 DEF ProperBlocks, ProperBlock, InText
<1>7. Units = UnitsUpTo(text, B)[Len(B)]
  BY <1>1, <1>3 DEF Units, LlmUnits
<1>8. ASSUME NEW i \in 0..Len(B)
      PROVE  /\ UnitsUpTo(text, B)[i] \in Seq(Window) /\ Len(UnitsUpTo(text, B)[i]) \in Nat
             /\ Continues(Units, UnitsUpTo(text, B)[i])
  <2>1. UnitsUpTo(text, B)[i] \in Seq(Window)
    BY <1>4, UnitsDef
  <2>2. Continues(Units, UnitsUpTo(text, B)[i])
    BY <1>4, <1>7, UnitsPrefix
  <2>3. PICK U \in Seq(Window) : U = UnitsUpTo(text, B)[i]
    BY <2>1
  <2>4. Len(U) \in Nat
    OBVIOUS
  <2>. QED  BY <2>1, <2>2, <2>3, <2>4
<1>9. Units \in Seq(Window) /\ Len(Units) \in Nat
  BY <1>5, <1>7, <1>8
<1>. QED  BY <1>1, <1>2, <1>3, <1>4, <1>5, <1>6, <1>8, <1>9

----------------------------------------------------------------------------
(* Where the extraction stands *)

\* The blocks begun, and whether a unit is being asked about.
Begun == Len(Blocks(Text)) - Len(todo)
Asking == IF pc = "ask" THEN 1 ELSE 0

\* The blocks to do are the last ones; the units done, the one being asked about
\* and the chunks to come are those of the blocks begun, in this order; at the end
\* there is no unit left.
InPlace ==
    /\ todo \in Seq(Block) /\ Len(todo) <= Len(Blocks(Text))
    /\ \A j \in 1..Len(todo) : todo[j] = Blocks(Text)[Begun + j]
    /\ unit >= 1 /\ failed \subseteq 1..(unit - 1)
    /\ pc \in {"extract", "ask"} =>
          /\ unit - 1 + Asking + Len(chunks) = Len(UnitsUpTo(Text, Blocks(Text))[Begun])
          /\ \A j \in 1..Len(chunks) : chunks[j] = Units[unit - 1 + Asking + j]
    /\ pc = "ask" => current = Units[unit]
    /\ pc \notin {"extract", "ask"} => pc # "raised" /\ todo = <<>> /\ unit = Len(Units) + 1

\* The part of the type that the extraction is about.
ExtractTypeOK ==
    /\ IsInput(input)
    /\ pc \in {"extract", "ask", "raised", "enrich", "translate", "decompose", "link", "done"}
    /\ chunks \in Seq(Window)
    /\ current \in Window
    /\ unit \in Nat
    /\ attempt \in 0..(MaxAttempts - 1)
    /\ items \in Seq(Card)

Extraction == ExtractTypeOK /\ InPlace

LEMMA Fixed ==
    ASSUME input' = input
    PROVE  /\ Text' = Text /\ Units' = Units /\ Blocks(Text)' = Blocks(Text)
           /\ UnitsUpTo(Text, Blocks(Text))' = UnitsUpTo(Text, Blocks(Text))
           /\ IsInput(input)' = IsInput(input)
  BY DEF Text, Units

\* The next block, its units and the blocks after it.
LEMMA NextBlock ==
    ASSUME Extraction, pc = "extract", chunks = <<>>, todo # <<>>,
           NEW b, b = Head(todo), NEW rest, rest = Tail(todo), NEW W, W = UnitsOf(Text, b)
    PROVE  /\ Begun + 1 \in 1..Len(Blocks(Text)) /\ b = Blocks(Text)[Begun + 1]
           /\ b \in Block /\ InText(b)
           /\ rest \in Seq(Block) /\ Len(rest) = Len(todo) - 1 /\ Len(rest) \in Nat
           /\ \A j \in 1..Len(rest) : rest[j] = Blocks(Text)[Begun + 1 + j]
           /\ W \in Seq(Window) /\ Len(W) \in Nat /\ unit - 1 + Len(W) <= Len(Units)
           /\ Len(UnitsUpTo(Text, Blocks(Text))[Begun + 1]) = unit - 1 + Len(W)
           /\ \A j \in 1..Len(W) : W[j] = Units[unit - 1 + j]
<1>1. PICK BL, V : BL = Blocks(Text) /\ V = UnitsUpTo(Text, Blocks(Text))
  OBVIOUS
<1>2. PICK n \in Nat, m \in Nat, u \in Nat : n = Len(BL) /\ m = Len(todo) /\ u = unit
  <2>1. Len(todo) \in Nat /\ unit \in Nat /\ Len(BL) \in Nat
    BY <1>1, InputFacts DEF Extraction, InPlace, ExtractTypeOK
  <2>. QED  BY <2>1
<1>3. /\ ProperBlocks(BL) /\ \A k \in 1..n : BL[k] \in Block /\ InText(BL[k])
      /\ Units \in Seq(Window) /\ Len(Units) \in Nat
      /\ \A i \in 0..n : V[i] \in Seq(Window) /\ Len(V[i]) \in Nat /\ Continues(Units, V[i])
  BY <1>1, <1>2, InputFacts DEF Extraction, ExtractTypeOK
<1>4. /\ todo \in Seq(Block) /\ todo # <<>> /\ m <= n /\ m # 0
      /\ Begun = n - m
      /\ \A j \in 1..m : todo[j] = BL[n - m + j]
  <2>1. todo \in Seq(Block) /\ Len(todo) <= Len(Blocks(Text))
    BY DEF Extraction, InPlace
  <2>2. Len(todo) # 0
    BY <2>1, EmptySeq
  <2>3. Begun = n - m
    BY <1>1, <1>2 DEF Begun
  <2>. QED  BY <1>1, <1>2, <2>1, <2>2, <2>3 DEF Extraction, InPlace
<1>5. PICK k \in 1..n : k = n - m + 1 /\ k = Begun + 1 /\ k - 1 = Begun /\ k - 1 \in 0..n /\ k \in 0..n
  BY <1>4
<1>6. b = BL[k] /\ b \in Block /\ InText(b)
  <2>1. b = todo[1]
    BY <1>4
  <2>. QED  BY <1>3, <1>4, <1>5, <2>1
<1>7. /\ rest \in Seq(Block) /\ Len(rest) = m - 1 /\ Len(rest) \in Nat
      /\ \A j \in 1..Len(rest) : rest[j] = BL[k + j]
  <2>1. /\ rest \in Seq(Block) /\ Len(rest) = m - 1
        /\ \A j \in 1..Len(rest) : rest[j] = todo[j + 1]
    BY <1>2, <1>4, HeadTailProperties
  <2>2. ASSUME NEW j \in 1..Len(rest) PROVE rest[j] = BL[k + j]
    <3>1. j + 1 \in 1..m /\ n - m + (j + 1) = k + j
      BY <1>4, <1>5, <2>1
    <3>. QED  BY <1>4, <2>1, <3>1
  <2>. QED  BY <1>4, <2>1, <2>2
<1>8. W \in Seq(Window) /\ Len(W) \in Nat
  <2>1. W \in Seq(Window)
    BY <1>6, UnitsOfType DEF InText
  <2>. QED  BY <2>1
<1>9. V[k] = V[k - 1] \o W
  <2>1. \A i \in 1..Len(BL) : V[i] = V[i - 1] \o UnitsOf(Text, BL[i])
    BY <1>1, <1>3, UnitsDef
  <2>. QED  BY <1>2, <1>6, <2>1
<1>10. Len(V[k - 1]) = u - 1
  <2>1. unit - 1 + Asking + Len(chunks) = Len(UnitsUpTo(Text, Blocks(Text))[Begun])
    BY DEF Extraction, InPlace
  <2>2. Asking = 0 /\ Len(chunks) = 0
    BY DEF Asking
  <2>. QED  BY <1>1, <1>2, <1>5, <2>1, <2>2
<1>11. /\ V[k] \in Seq(Window) /\ V[k - 1] \in Seq(Window)
       /\ Len(V[k]) \in Nat /\ Len(V[k - 1]) \in Nat /\ Continues(Units, V[k])
  BY <1>3, <1>5
<1>12. /\ Len(V[k]) = u - 1 + Len(W)
       /\ \A j \in 1..Len(W) : V[k][u - 1 + j] = W[j]
  <2>1. PICK P \in Seq(Window) : P = V[k - 1]
    BY <1>11
  <2>2. /\ Len(P \o W) = Len(P) + Len(W)
        /\ \A j \in 1..(Len(P) + Len(W)) : (P \o W)[j] = IF j <= Len(P) THEN P[j] ELSE W[j - Len(P)]
    BY <1>8, <2>1, ConcatProperties
  <2>3. V[k] = P \o W /\ Len(P) = u - 1 /\ Len(P) \in Nat
    BY <1>9, <1>10, <1>11, <2>1
  <2>4. ASSUME NEW j \in 1..Len(W) PROVE V[k][u - 1 + j] = W[j]
    <3>1. /\ u - 1 + j \in 1..(Len(P) + Len(W)) /\ ~(u - 1 + j <= Len(P))
          /\ (u - 1 + j) - Len(P) = j
      BY <1>8, <2>3
    <3>. QED  BY <2>2, <2>3, <3>1
  <2>. QED  BY <2>2, <2>3, <2>4
<1>13. u - 1 + Len(W) <= Len(Units)
  BY <1>11, <1>12 DEF Continues
<1>14. ASSUME NEW j \in 1..Len(W) PROVE W[j] = Units[u - 1 + j]
  <2>1. u - 1 + j \in 1..Len(V[k])
    BY <1>8, <1>10, <1>11, <1>12
  <2>. QED  BY <1>11, <1>12, <2>1 DEF Continues
<1>. QED  BY <1>1, <1>2, <1>5, <1>6, <1>7, <1>8, <1>12, <1>13, <1>14

LEMMA ExtractTextPlace ==
    ASSUME Extraction, ExtractText
    PROVE  Extraction'
<1>0. /\ pc = "extract" /\ chunks = <<>> /\ todo # <<>> /\ Head(todo).kind = "text"
      /\ todo' = Tail(todo) /\ chunks' = Chunks(Head(todo))
      /\ UNCHANGED <<input, pc, current, unit, attempt, items, failed>>
  BY DEF ExtractText
<1>1. PICK b, rest, W : b = Head(todo) /\ rest = Tail(todo) /\ W = UnitsOf(Text, b)
  OBVIOUS
<1>2. /\ Begun + 1 \in 1..Len(Blocks(Text)) /\ b \in Block /\ InText(b)
      /\ rest \in Seq(Block) /\ Len(rest) = Len(todo) - 1 /\ Len(rest) \in Nat
      /\ \A j \in 1..Len(rest) : rest[j] = Blocks(Text)[Begun + 1 + j]
      /\ W \in Seq(Window) /\ Len(W) \in Nat /\ unit - 1 + Len(W) <= Len(Units)
      /\ Len(UnitsUpTo(Text, Blocks(Text))[Begun + 1]) = unit - 1 + Len(W)
      /\ \A j \in 1..Len(W) : W[j] = Units[unit - 1 + j]
  BY <1>0, <1>1, NextBlock
<1>3. todo' = rest /\ chunks' = W
  BY <1>0, <1>1 DEF UnitsOf
<1>4. /\ Blocks(Text)' = Blocks(Text) /\ Units' = Units /\ IsInput(input)' = IsInput(input)
      /\ UnitsUpTo(Text, Blocks(Text))' = UnitsUpTo(Text, Blocks(Text))
  BY <1>0, Fixed
<1>5. Len(todo) \in Nat /\ Len(Blocks(Text)) \in Nat /\ unit \in Nat
  BY InputFacts DEF Extraction, InPlace, ExtractTypeOK
<1>6. Begun' = Begun + 1
  <2>1. Begun' = Len(Blocks(Text)) - Len(rest) /\ Begun = Len(Blocks(Text)) - Len(todo)
    BY <1>3, <1>4 DEF Begun
  <2>2. Len(rest) = Len(todo) - 1
    BY <1>2
  <2>. QED  BY <1>5, <2>1, <2>2
<1>7. Asking' = 0
  BY <1>0 DEF Asking
<1>8. ExtractTypeOK'
  BY <1>0, <1>2, <1>3, <1>4 DEF Extraction, ExtractTypeOK
<1>9. InPlace'
  <2>1. todo' \in Seq(Block) /\ Len(todo') <= Len(Blocks(Text)')
    BY <1>2, <1>3, <1>4, <1>5 DEF Extraction, InPlace
  <2>2. \A j \in 1..Len(todo') : todo'[j] = Blocks(Text)'[Begun' + j]
    BY <1>2, <1>3, <1>4, <1>6
  <2>3. unit' - 1 + Asking' + Len(chunks') = Len(UnitsUpTo(Text, Blocks(Text))'[Begun'])
    BY <1>0, <1>2, <1>3, <1>4, <1>5, <1>6, <1>7
  <2>4. \A j \in 1..Len(chunks') : chunks'[j] = Units'[unit' - 1 + Asking' + j]
    <3>1. \A j \in 1..Len(W) : unit' - 1 + Asking' + j = unit - 1 + j
      BY <1>0, <1>2, <1>5, <1>7
    <3>. QED  BY <1>2, <1>3, <1>4, <3>1
  <2>5. unit' >= 1 /\ failed' \subseteq 1..(unit' - 1)
    BY <1>0 DEF Extraction, InPlace
  <2>6. pc' = "extract"
    BY <1>0
  <2>. QED  BY <2>1, <2>2, <2>3, <2>4, <2>5, <2>6 DEF InPlace
<1>. QED  BY <1>8, <1>9 DEF Extraction

LEMMA ExtractTablePlace ==
    ASSUME Extraction, ExtractTable
    PROVE  Extraction'
<1>0. /\ pc = "extract" /\ chunks = <<>> /\ todo # <<>> /\ Head(todo).kind = "table"
      /\ todo' = Tail(todo)
      /\ UNCHANGED <<input, chunks, unit, attempt, failed>>
  BY DEF ExtractTable
<1>1. PICK b, rest, W : b = Head(todo) /\ rest = Tail(todo) /\ W = UnitsOf(Text, b)
  OBVIOUS
<1>2. /\ Begun + 1 \in 1..Len(Blocks(Text)) /\ b \in Block /\ InText(b)
      /\ rest \in Seq(Block) /\ Len(rest) = Len(todo) - 1 /\ Len(rest) \in Nat
      /\ \A j \in 1..Len(rest) : rest[j] = Blocks(Text)[Begun + 1 + j]
      /\ W \in Seq(Window) /\ Len(W) \in Nat /\ unit - 1 + Len(W) <= Len(Units)
      /\ Len(UnitsUpTo(Text, Blocks(Text))[Begun + 1]) = unit - 1 + Len(W)
      /\ \A j \in 1..Len(W) : W[j] = Units[unit - 1 + j]
  BY <1>0, <1>1, NextBlock
<1>3. todo' = rest /\ chunks' = <<>> /\ chunks = <<>>
  BY <1>0, <1>1
<1>4. /\ Blocks(Text)' = Blocks(Text) /\ Units' = Units /\ IsInput(input)' = IsInput(input)
      /\ UnitsUpTo(Text, Blocks(Text))' = UnitsUpTo(Text, Blocks(Text))
  BY <1>0, Fixed
<1>5. /\ Len(todo) \in Nat /\ Len(Blocks(Text)) \in Nat /\ unit \in Nat /\ unit >= 1
      /\ Len(Units) \in Nat /\ DOMAIN Units = 1..Len(Units)
      /\ Len(Text) \in Nat /\ Text \in Seq(Line) /\ items \in Seq(Card)
  BY InputFacts DEF Extraction, InPlace, ExtractTypeOK
<1>6. Begun' = Begun + 1
  <2>1. Begun' = Len(Blocks(Text)) - Len(rest) /\ Begun = Len(Blocks(Text)) - Len(todo)
    BY <1>3, <1>4 DEF Begun
  <2>2. Len(rest) = Len(todo) - 1
    BY <1>2
  <2>. QED  BY <1>5, <2>1, <2>2
<1>7. b.from \in 1..Len(Text) /\ b.to \in 1..Len(Text) /\ b.from \in Nat /\ b.to \in Nat
  BY <1>2, <1>5 DEF InText, ProperBlock, Block
<1>8. items' \in Seq(Card)
  <2>1. ItemsOf(Text, b.from, b.to, {"entry"}) \in Seq(Card)
    BY <1>5, <1>7, LineFacts, ItemsOfFacts
  <2>2. items' = items \o ItemsOf(Text, b.from, b.to, {"entry"})
    BY <1>1 DEF ExtractTable, ParseTable
  <2>. QED  BY <1>5, <2>1, <2>2, ConcatProperties
<1>9. todo' \in Seq(Block) /\ Len(todo') <= Len(Blocks(Text)')
      /\ \A j \in 1..Len(todo') : todo'[j] = Blocks(Text)'[Begun' + j]
  <2>1. Len(todo') <= Len(Blocks(Text)')
    BY <1>2, <1>3, <1>4, <1>5 DEF Extraction, InPlace
  <2>. QED  BY <1>2, <1>3, <1>4, <1>6, <2>1
<1>10. unit' = unit /\ unit' >= 1 /\ failed' \subseteq 1..(unit' - 1)
  BY <1>0 DEF Extraction, InPlace
<1>11. ASSUME ListsFallback(ParseTable(Text, b)) PROVE Extraction'
  <2>1. PICK w : w = [from |-> b.from, to |-> b.to]
    OBVIOUS
  <2>2. w \in Window /\ W = <<w>> /\ Len(W) = 1 /\ W[1] = w
    BY <1>0, <1>1, <1>7, <1>11, <2>1 DEF UnitsOf, Window
  <2>3. Units[unit] = w /\ unit \in DOMAIN Units
    BY <1>2, <1>5, <2>2
  <2>4. current' = w /\ pc' = "ask"
    <3>1. Come([from |-> b.from, to |-> b.to])
      BY <1>1, <1>11 DEF ExtractTable, ListsFallback
    <3>. QED  BY <2>1, <2>3, <3>1 DEF Come
  <2>5. Asking' = 1
    BY <2>4 DEF Asking
  <2>6. unit' - 1 + Asking' + Len(chunks') = Len(UnitsUpTo(Text, Blocks(Text))'[Begun'])
    BY <1>2, <1>3, <1>4, <1>5, <1>6, <1>10, <2>2, <2>5
  <2>7. ExtractTypeOK'
    BY <1>0, <1>3, <1>4, <1>8, <2>2, <2>4 DEF Extraction, ExtractTypeOK
  <2>8. InPlace'
    BY <1>3, <1>4, <1>9, <1>10, <2>3, <2>4, <2>6 DEF InPlace
  <2>. QED  BY <2>7, <2>8 DEF Extraction
<1>12. ASSUME ~ListsFallback(ParseTable(Text, b)) PROVE Extraction'
  <2>1. W = <<>> /\ Len(W) = 0
    BY <1>0, <1>1, <1>12 DEF UnitsOf
  <2>2. current' = current /\ pc' = "extract"
    BY <1>0, <1>1, <1>12 DEF ExtractTable, ListsFallback
  <2>3. Asking' = 0
    BY <2>2 DEF Asking
  <2>4. unit' - 1 + Asking' + Len(chunks') = Len(UnitsUpTo(Text, Blocks(Text))'[Begun'])
    BY <1>2, <1>3, <1>4, <1>5, <1>6, <1>10, <2>1, <2>3
  <2>5. ExtractTypeOK'
    BY <1>0, <1>3, <1>4, <1>8, <2>2 DEF Extraction, ExtractTypeOK
  <2>6. InPlace'
    BY <1>3, <1>4, <1>9, <1>10, <2>2, <2>4 DEF InPlace
  <2>. QED  BY <2>5, <2>6 DEF Extraction
<1>. QED  BY <1>11, <1>12

LEMMA NextChunkPlace ==
    ASSUME Extraction, NextChunk
    PROVE  Extraction'
<1>0. /\ pc = "extract" /\ chunks # <<>> /\ Come(Head(chunks)) /\ chunks' = Tail(chunks)
      /\ UNCHANGED <<input, todo, unit, attempt, items, failed>>
  BY DEF NextChunk
<1>1. PICK ch : ch = chunks
  OBVIOUS
<1>2. PICK V : V = UnitsUpTo(Text, Blocks(Text))
  OBVIOUS
<1>3. /\ ch \in Seq(Window) /\ Len(ch) \in Nat /\ Len(ch) # 0 /\ unit \in Nat /\ unit >= 1
      /\ Len(todo) \in Nat /\ Len(Blocks(Text)) \in Nat /\ Len(todo) <= Len(Blocks(Text))
      /\ Len(Units) \in Nat /\ DOMAIN Units = 1..Len(Units)
  <2>1. ch \in Seq(Window) /\ ch # <<>>
    BY <1>0, <1>1 DEF Extraction, ExtractTypeOK
  <2>2. Len(ch) \in Nat /\ Len(ch) # 0
    BY <2>1, EmptySeq
  <2>. QED  BY <2>1, <2>2, InputFacts DEF Extraction, InPlace, ExtractTypeOK
<1>4. /\ Blocks(Text)' = Blocks(Text) /\ Units' = Units /\ IsInput(input)' = IsInput(input)
      /\ UnitsUpTo(Text, Blocks(Text))' = V
  BY <1>0, <1>2, Fixed
<1>5. unit - 1 + Len(ch) = Len(V[Begun]) /\ \A j \in 1..Len(ch) : ch[j] = Units[unit - 1 + j]
  <2>1. Asking = 0
    BY <1>0 DEF Asking
  <2>2. /\ unit - 1 + Asking + Len(chunks) = Len(V[Begun])
        /\ \A j \in 1..Len(chunks) : chunks[j] = Units[unit - 1 + Asking + j]
    BY <1>0, <1>2 DEF Extraction, InPlace
  <2>. QED  BY <1>1, <1>3, <2>1, <2>2
<1>6. Len(V[Begun]) <= Len(Units)
  <2>1. Begun \in 0..Len(Blocks(Text))
    BY <1>3 DEF Begun
  <2>2. Continues(Units, V[Begun])
    BY <1>2, <2>1, InputFacts DEF Extraction, ExtractTypeOK
  <2>. QED  BY <2>2 DEF Continues
<1>7. unit \in DOMAIN Units
  BY <1>3, <1>5, <1>6
<1>8. Head(ch) = ch[1] /\ ch[1] = Units[unit] /\ ch[1] \in Window
  BY <1>3, <1>5
<1>9. current' = ch[1] /\ pc' = "ask"
  BY <1>0, <1>1, <1>7, <1>8 DEF Come
<1>10. /\ Tail(ch) \in Seq(Window) /\ Len(Tail(ch)) = Len(ch) - 1
       /\ \A j \in 1..Len(Tail(ch)) : Tail(ch)[j] = ch[j + 1]
  <2>1. ch # <<>>
    BY <1>0, <1>1
  <2>. QED  BY <1>3, <2>1, HeadTailProperties
<1>11. chunks' = Tail(ch)
  BY <1>0, <1>1
<1>12. Begun' = Begun /\ Asking' = 1
  BY <1>0, <1>4, <1>9 DEF Begun, Asking
<1>13. ExtractTypeOK'
  BY <1>0, <1>4, <1>8, <1>9, <1>10, <1>11 DEF Extraction, ExtractTypeOK
<1>14. InPlace'
  <2>1. /\ todo' \in Seq(Block) /\ Len(todo') <= Len(Blocks(Text)')
        /\ \A j \in 1..Len(todo') : todo'[j] = Blocks(Text)'[Begun' + j]
        /\ unit' >= 1 /\ failed' \subseteq 1..(unit' - 1)
    BY <1>0, <1>4, <1>12 DEF Extraction, InPlace
  <2>2. unit' - 1 + Asking' + Len(chunks') = Len(UnitsUpTo(Text, Blocks(Text))'[Begun'])
    BY <1>0, <1>3, <1>4, <1>5, <1>10, <1>11, <1>12
  <2>3. ASSUME NEW j \in 1..Len(chunks') PROVE chunks'[j] = Units'[unit' - 1 + Asking' + j]
    <3>1. j + 1 \in 1..Len(ch) /\ unit - 1 + (j + 1) = unit' - 1 + Asking' + j
      BY <1>0, <1>3, <1>10, <1>11, <1>12
    <3>2. chunks'[j] = ch[j + 1]
      BY <1>10, <1>11
    <3>. QED  BY <1>4, <1>5, <3>1, <3>2
  <2>4. current' = Units'[unit']
    BY <1>0, <1>4, <1>8, <1>9
  <2>. QED  BY <1>9, <2>1, <2>2, <2>3, <2>4 DEF InPlace
<1>. QED  BY <1>13, <1>14 DEF Extraction

\* After the unit that is being asked about, the next one.
LEMMA NextUnit ==
    ASSUME Extraction, pc = "ask", pc' = "extract", unit' = unit + 1,
           UNCHANGED <<input, todo, chunks, current>>, failed' \subseteq failed \cup {unit},
           attempt' = 0, items' \in Seq(Card)
    PROVE  Extraction'
<1>1. /\ Blocks(Text)' = Blocks(Text) /\ Units' = Units /\ IsInput(input)' = IsInput(input)
      /\ UnitsUpTo(Text, Blocks(Text))' = UnitsUpTo(Text, Blocks(Text))
  BY Fixed
<1>2. Begun' = Begun /\ Asking' = 0 /\ Asking = 1
  BY <1>1 DEF Begun, Asking
<1>3. unit \in Nat /\ unit >= 1 /\ Len(chunks) \in Nat /\ failed \subseteq 1..(unit - 1)
  BY DEF Extraction, InPlace, ExtractTypeOK
<1>4. ExtractTypeOK'
  <2>1. 0 \in 0..(MaxAttempts - 1)
    BY LimitsType
  <2>. QED  BY <1>1, <1>3, <2>1 DEF Extraction, ExtractTypeOK
<1>5. InPlace'
  <2>1. /\ todo' \in Seq(Block) /\ Len(todo') <= Len(Blocks(Text)')
        /\ \A j \in 1..Len(todo') : todo'[j] = Blocks(Text)'[Begun' + j]
    BY <1>1, <1>2 DEF Extraction, InPlace
  <2>2. unit - 1 + Asking + Len(chunks) = Len(UnitsUpTo(Text, Blocks(Text))[Begun])
        /\ \A j \in 1..Len(chunks) : chunks[j] = Units[unit - 1 + Asking + j]
    BY DEF Extraction, InPlace
  <2>3. unit' - 1 + Asking' + Len(chunks') = Len(UnitsUpTo(Text, Blocks(Text))'[Begun'])
        /\ \A j \in 1..Len(chunks') : chunks'[j] = Units'[unit' - 1 + Asking' + j]
    BY <1>1, <1>2, <1>3, <2>2
  <2>4. unit' >= 1 /\ failed' \subseteq 1..(unit' - 1)
    BY <1>3
  <2>. QED  BY <2>1, <2>3, <2>4 DEF InPlace
<1>. QED  BY <1>4, <1>5 DEF Extraction

\* Every unit is in the text.
LEMMA UnitsInText ==
    ASSUME IsInput(input), NEW u \in 1..Len(Units)
    PROVE  Units[u].from \in 1..Len(Text) /\ Units[u].to \in 1..Len(Text)
<1>1. PICK n \in Nat : n = Len(Text)
  BY InputFacts
<1>2. PICK B : B = Blocks(Text)
  OBVIOUS
<1>3. ProperBlocks(B) /\ \A k \in 1..Len(B) : 1 <= B[k].from /\ B[k].to <= n
  <2>1. \A k \in 1..Len(B) : InText(B[k])
    BY <1>2, InputFacts
  <2>. QED  BY <1>1, <1>2, <2>1, InputFacts DEF InText
<1>4. UnitsUpTo(Text, B)[Len(B)] \in Inside(1, n)
  BY <1>3, UnitsInside
<1>5. Units = UnitsUpTo(Text, B)[Len(B)]
  BY <1>2 DEF Units, LlmUnits
<1>6. \A k \in 1..Len(Units) : Units[k].from \in 1..n /\ Units[k].to \in 1..n
  BY <1>4, <1>5 DEF Inside
<1>. QED  BY <1>1, <1>6

\* The unit that is being asked about is in the list, and in the text.
LEMMA AskedUnit ==
    ASSUME Extraction, pc = "ask"
    PROVE  /\ unit \in 1..Len(Units)
           /\ ItemsOf(Text, Units[unit].from, Units[unit].to, {"entry", "prose"}) \in Seq(Card)
           /\ \A i \in Units[unit].from .. Units[unit].to : Text[i].kind \in {"entry", "prose"} =>
                 Contains(ItemsOf(Text, Units[unit].from, Units[unit].to, {"entry", "prose"}),
                          Item(Text[i]))
<1>1. PICK V : V = UnitsUpTo(Text, Blocks(Text))
  OBVIOUS
<1>2. /\ unit \in Nat /\ unit >= 1 /\ Len(chunks) \in Nat
      /\ Len(todo) \in Nat /\ Len(Blocks(Text)) \in Nat /\ Len(todo) <= Len(Blocks(Text))
      /\ Len(Units) \in Nat /\ Text \in Seq(Line) /\ Units \in Seq(Window)
  BY InputFacts DEF Extraction, InPlace, ExtractTypeOK
<1>3. Begun \in 0..Len(Blocks(Text))
  BY <1>2 DEF Begun
<1>4. unit - 1 + 1 + Len(chunks) = Len(V[Begun])
  <2>1. Asking = 1
    BY DEF Asking
  <2>. QED  BY <1>1, <2>1 DEF Extraction, InPlace
<1>5. Len(V[Begun]) <= Len(Units)
  <2>1. Continues(Units, V[Begun])
    BY <1>1, <1>3, InputFacts DEF Extraction, ExtractTypeOK
  <2>. QED  BY <2>1 DEF Continues
<1>6. unit \in 1..Len(Units)
  BY <1>2, <1>4, <1>5
<1>7. Units[unit].from \in 1..Len(Text) /\ Units[unit].to \in 1..Len(Text)
  BY <1>6, UnitsInText DEF Extraction, ExtractTypeOK
<1>. QED  BY <1>2, <1>6, <1>7, LineFacts, ItemsOfFacts

LEMMA AnswerPlace ==
    ASSUME Extraction, Answer \/ FailAnswer
    PROVE  Extraction'
<1>1. CASE Answer
  <2>1. /\ pc = "ask" /\ pc' = "extract" /\ unit' = unit + 1 /\ attempt' = 0
        /\ items' = items \o ItemsOf(Text, Units[unit].from, Units[unit].to, {"entry", "prose"})
        /\ UNCHANGED <<input, todo, chunks, current, failed>>
    BY <1>1 DEF Answer
  <2>2. ItemsOf(Text, Units[unit].from, Units[unit].to, {"entry", "prose"}) \in Seq(Card)
    BY <2>1, AskedUnit
  <2>3. items \in Seq(Card)
    BY DEF Extraction, ExtractTypeOK
  <2>4. items' \in Seq(Card)
    BY <2>1, <2>2, <2>3, ConcatProperties
  <2>. QED  BY <2>1, <2>4, NextUnit
<1>2. CASE FailAnswer
  <2>1. /\ pc = "ask" /\ pc' = "extract" /\ unit' = unit + 1 /\ attempt' = 0
        /\ failed' = failed \cup {unit} /\ items' = items
        /\ UNCHANGED <<input, todo, chunks, current>>
    BY <1>2 DEF FailAnswer
  <2>2. items' \in Seq(Card) /\ failed' \subseteq failed \cup {unit}
    BY <2>1 DEF Extraction, ExtractTypeOK
  <2>. QED  BY <2>1, <2>2, NextUnit
<1>. QED  BY <1>1, <1>2

LEMMA RetryPlace ==
    ASSUME Extraction, RetryAnswer
    PROVE  Extraction'
<1>0. /\ pc = "ask" /\ attempt < MaxAttempts - 1 /\ attempt' = attempt + 1
      /\ UNCHANGED <<input, pc, todo, chunks, current, unit, items, failed>>
  BY DEF RetryAnswer
<1>1. /\ Blocks(Text)' = Blocks(Text) /\ Units' = Units /\ IsInput(input)' = IsInput(input)
      /\ UnitsUpTo(Text, Blocks(Text))' = UnitsUpTo(Text, Blocks(Text))
  BY <1>0, Fixed
<1>2. Begun' = Begun /\ Asking' = Asking
  BY <1>0, <1>1 DEF Begun, Asking
<1>3. attempt' \in 0..(MaxAttempts - 1)
  BY <1>0, LimitsType DEF Extraction, ExtractTypeOK
<1>4. ExtractTypeOK'
  BY <1>0, <1>1, <1>3 DEF Extraction, ExtractTypeOK
<1>5. InPlace'
  BY <1>0, <1>1, <1>2 DEF Extraction, InPlace
<1>. QED  BY <1>4, <1>5 DEF Extraction

LEMMA MakeRowsPlace ==
    ASSUME Extraction, MakeRows
    PROVE  Extraction'
<1>0. /\ pc = "extract" /\ chunks = <<>> /\ todo = <<>> /\ pc' = "enrich"
      /\ UNCHANGED <<input, todo, chunks, current, unit, attempt, items, failed>>
  BY DEF MakeRows
<1>1. /\ Blocks(Text)' = Blocks(Text) /\ Units' = Units /\ IsInput(input)' = IsInput(input)
      /\ UnitsUpTo(Text, Blocks(Text))' = UnitsUpTo(Text, Blocks(Text))
  BY <1>0, Fixed
<1>2. Begun' = Begun /\ Asking = 0 /\ Len(chunks) = 0 /\ Len(todo) = 0
  BY <1>0, <1>1 DEF Begun, Asking
<1>3. unit \in Nat /\ Len(Units) \in Nat /\ Len(Blocks(Text)) \in Nat
  BY InputFacts DEF Extraction, ExtractTypeOK
<1>4. Begun = Len(Blocks(Text))
  BY <1>2, <1>3 DEF Begun
<1>5. UnitsUpTo(Text, Blocks(Text))[Begun] = Units
  BY <1>4 DEF Units, LlmUnits
<1>6. unit - 1 + Asking + Len(chunks) = Len(UnitsUpTo(Text, Blocks(Text))[Begun])
  BY <1>0 DEF Extraction, InPlace
<1>7. unit = Len(Units) + 1
  BY <1>2, <1>3, <1>5, <1>6
<1>8. ExtractTypeOK'
  BY <1>0, <1>1 DEF Extraction, ExtractTypeOK
<1>9. InPlace'
  <2>1. /\ todo' \in Seq(Block) /\ Len(todo') <= Len(Blocks(Text)')
        /\ \A j \in 1..Len(todo') : todo'[j] = Blocks(Text)'[Begun' + j]
        /\ unit' >= 1 /\ failed' \subseteq 1..(unit' - 1)
    BY <1>0, <1>1, <1>2 DEF Extraction, InPlace
  <2>2. todo' = <<>> /\ unit' = Len(Units') + 1
    BY <1>0, <1>1, <1>7
  <2>. QED  BY <1>0, <2>1, <2>2 DEF InPlace
<1>. QED  BY <1>8, <1>9 DEF Extraction

\* After the extraction nothing of it changes.
LEMMA LaterPlace ==
    ASSUME Extraction, pc \notin {"extract", "ask"},
           pc' \in {"enrich", "translate", "decompose", "link", "done"},
           UNCHANGED <<input, todo, chunks, current, unit, attempt, items, failed>>
    PROVE  Extraction'
<1>1. /\ Blocks(Text)' = Blocks(Text) /\ Units' = Units /\ IsInput(input)' = IsInput(input)
      /\ UnitsUpTo(Text, Blocks(Text))' = UnitsUpTo(Text, Blocks(Text))
  BY Fixed
<1>2. Begun' = Begun
  BY <1>1 DEF Begun
<1>3. ExtractTypeOK'
  BY <1>1 DEF Extraction, ExtractTypeOK
<1>4. InPlace'
  <2>1. /\ todo' \in Seq(Block) /\ Len(todo') <= Len(Blocks(Text)')
        /\ \A j \in 1..Len(todo') : todo'[j] = Blocks(Text)'[Begun' + j]
        /\ unit' >= 1 /\ failed' \subseteq 1..(unit' - 1)
    BY <1>1, <1>2 DEF Extraction, InPlace
  <2>2. todo' = <<>> /\ unit' = Len(Units') + 1
    BY <1>1 DEF Extraction, InPlace
  <2>. QED  BY <2>1, <2>2 DEF InPlace
<1>. QED  BY <1>3, <1>4 DEF Extraction

LEMMA InitPlace ==
    ASSUME Init
    PROVE  Extraction
<1>0. /\ input \in Inputs /\ pc = "extract" /\ todo = Blocks(Text) /\ chunks = <<>>
      /\ current = Nowhere /\ unit = 1 /\ attempt = 0 /\ items = <<>> /\ failed = {}
  BY DEF Init
<1>1. IsInput(input)
  BY <1>0, InputsType
<1>2. /\ ProperBlocks(Blocks(Text)) /\ Len(Blocks(Text)) \in Nat
      /\ Blocks(Text) \in Seq(Block)
  BY <1>1, InputFacts DEF ProperBlocks
<1>3. Begun = 0
  BY <1>0, <1>2 DEF Begun
<1>4. UnitsUpTo(Text, Blocks(Text))[0] = <<>>
  BY <1>2, UnitsDef
<1>5. ExtractTypeOK
  <2>1. 0 \in 0..(MaxAttempts - 1)
    BY LimitsType
  <2>2. current \in Window
    BY <1>0 DEF Nowhere, Window
  <2>3. chunks \in Seq(Window) /\ items \in Seq(Card)
    BY <1>0
  <2>. QED  BY <1>0, <1>1, <2>1, <2>2, <2>3 DEF ExtractTypeOK
<1>6. InPlace
  <2>1. \A j \in 1..Len(todo) : todo[j] = Blocks(Text)[Begun + j]
    BY <1>0, <1>2, <1>3
  <2>2. Asking = 0 /\ Len(chunks) = 0
    BY <1>0 DEF Asking
  <2>3. unit - 1 + Asking + Len(chunks) = Len(UnitsUpTo(Text, Blocks(Text))[Begun])
    BY <1>0, <1>3, <1>4, <2>2
  <2>. QED  BY <1>0, <1>2, <2>1, <2>2, <2>3 DEF InPlace
<1>. QED  BY <1>5, <1>6 DEF Extraction

LEMMA NextPlace ==
    ASSUME Extraction, [Next]_vars
    PROVE  Extraction'
<1>1. CASE ExtractTable
  BY <1>1, ExtractTablePlace
<1>2. CASE ExtractText
  BY <1>2, ExtractTextPlace
<1>3. CASE NextChunk
  BY <1>3, NextChunkPlace
<1>4. CASE Answer
  BY <1>4, AnswerPlace
<1>5. CASE RetryAnswer
  BY <1>5, RetryPlace
<1>6. CASE FailAnswer
  BY <1>6, AnswerPlace
<1>7. CASE MakeRows
  BY <1>7, MakeRowsPlace
<1>8. CASE Enrich
  <2>1. /\ pc = "enrich" /\ pc' \in {"translate", "decompose"}
        /\ UNCHANGED <<input, todo, chunks, current, unit, attempt, items, failed>>
    BY <1>8 DEF Enrich
  <2>. QED  BY <2>1, LaterPlace
<1>9. CASE Translate
  <2>1. /\ pc = "translate" /\ pc' = "decompose"
        /\ UNCHANGED <<input, todo, chunks, current, unit, attempt, items, failed>>
    BY <1>9 DEF Translate
  <2>. QED  BY <2>1, LaterPlace
<1>10. CASE Decompose
  <2>1. /\ pc = "decompose" /\ pc' = "link"
        /\ UNCHANGED <<input, todo, chunks, current, unit, attempt, items, failed>>
    BY <1>10 DEF Decompose
  <2>. QED  BY <2>1, LaterPlace
<1>11. CASE LinkSentence
  <2>1. /\ pc = "link" /\ pc' = "link"
        /\ UNCHANGED <<input, todo, chunks, current, unit, attempt, items, failed>>
    BY <1>11 DEF LinkSentence
  <2>. QED  BY <2>1, LaterPlace
<1>12. CASE FillSentences
  <2>1. /\ pc = "link" /\ pc' = "done"
        /\ UNCHANGED <<input, todo, chunks, current, unit, attempt, items, failed>>
    BY <1>12 DEF FillSentences
  <2>. QED  BY <2>1, LaterPlace
<1>13. CASE UNCHANGED vars
  <2>1. UNCHANGED <<input, pc, todo, chunks, current, unit, attempt, items, failed>>
    BY <1>13 DEF vars
  <2>2. /\ Blocks(Text)' = Blocks(Text) /\ Units' = Units /\ IsInput(input)' = IsInput(input)
        /\ UnitsUpTo(Text, Blocks(Text))' = UnitsUpTo(Text, Blocks(Text))
    BY <2>1, Fixed
  <2>3. Begun' = Begun /\ Asking' = Asking
    BY <2>1, <2>2 DEF Begun, Asking
  <2>4. ExtractTypeOK'
    BY <2>1, <2>2 DEF Extraction, ExtractTypeOK
  <2>5. InPlace'
    BY <2>1, <2>2, <2>3 DEF Extraction, InPlace
  <2>. QED  BY <2>4, <2>5 DEF Extraction
<1>. QED
  BY <1>1, <1>2, <1>3, <1>4, <1>5, <1>6, <1>7, <1>8, <1>9, <1>10, <1>11, <1>12, <1>13 DEF Next

\* The blocks to do and the units are in their places in every state.
LEMMA ExtractionHolds == Spec => []Extraction
<1>1. Init => Extraction
  BY InitPlace
<1>2. Extraction /\ [Next]_vars => Extraction'
  BY NextPlace
<1>. QED  BY <1>1, <1>2, PTL DEF Spec

LEMMA AllUnits ==
    ASSUME Extraction
    PROVE  UnitIsOwn
<1>1. pc # "raised"
  BY DEF Extraction, InPlace
<1>2. pc = "ask" => Units[unit] = current
  BY DEF Extraction, InPlace
<1>3. pc \notin {"extract", "ask", "raised"} => unit = Len(Units) + 1
  BY DEF Extraction, InPlace
<1>. QED  BY <1>1, <1>2, <1>3 DEF UnitIsOwn

\* The assertion of pipeline.py:225 holds: the extraction, which cuts the text a
\* second time, comes to the units in the order in which they were listed, and to
\* all of them, whatever the text and the settings.
THEOREM UnitIsOwnHolds == Spec => []UnitIsOwn
<1>1. Extraction => UnitIsOwn
  BY AllUnits
<1>. QED  BY <1>1, ExtractionHolds, PTL

----------------------------------------------------------------------------
(* What the extraction has found *)

\* The entries of the tables begun, and what the LLM is to find in the units that it
\* answered for, are among the items.
Found ==
    /\ \A k \in 1..Begun : Blocks(Text)[k].kind = "table" =>
          \A i \in Blocks(Text)[k].from .. Blocks(Text)[k].to :
              Text[i].kind = "entry" => Contains(items, Item(Text[i]))
    /\ \A u \in 1..(unit - 1) : u \notin failed =>
          \A i \in Units[u].from .. Units[u].to :
              Text[i].kind \in {"entry", "prose"} => Contains(items, Item(Text[i]))

LEMMA ContainsEither ==
    ASSUME NEW X, NEW V, V \in Seq(X), NEW W, W \in Seq(X), NEW x, Contains(V, x) \/ Contains(W, x)
    PROVE  Contains(V \o W, x)
<1>0. Len(V) \in Nat /\ Len(W) \in Nat
  OBVIOUS
<1>1. /\ Len(V \o W) = Len(V) + Len(W)
      /\ \A k \in 1..(Len(V) + Len(W)) : (V \o W)[k] = IF k <= Len(V) THEN V[k] ELSE W[k - Len(V)]
  BY ConcatProperties
<1>2. ASSUME Contains(V, x) PROVE Contains(V \o W, x)
  <2>1. PICK k \in 1..Len(V) : V[k] = x
    BY <1>2 DEF Contains
  <2>2. k \in 1..Len(V \o W) /\ (V \o W)[k] = V[k]
    BY <1>0, <1>1
  <2>. QED  BY <2>1, <2>2 DEF Contains
<1>3. ASSUME Contains(W, x) PROVE Contains(V \o W, x)
  <2>1. PICK k \in 1..Len(W) : W[k] = x
    BY <1>3 DEF Contains
  <2>2. k + Len(V) \in 1..Len(V \o W) /\ ~(k + Len(V) <= Len(V)) /\ (k + Len(V)) - Len(V) = k
    BY <1>0, <1>1
  <2>3. (V \o W)[k + Len(V)] = W[k]
    BY <1>0, <1>1, <2>2
  <2>. QED  BY <2>1, <2>2, <2>3 DEF Contains
<1>. QED  BY <1>2, <1>3

LEMMA TableFound ==
    ASSUME Extraction, Found, ExtractTable
    PROVE  Found'
<1>0. /\ pc = "extract" /\ chunks = <<>> /\ todo # <<>>
      /\ todo' = Tail(todo) /\ UNCHANGED <<input, unit, failed>>
  BY DEF ExtractTable
<1>1. PICK b, rest, W : b = Head(todo) /\ rest = Tail(todo) /\ W = UnitsOf(Text, b)
  OBVIOUS
<1>2. /\ Begun + 1 \in 1..Len(Blocks(Text)) /\ b = Blocks(Text)[Begun + 1]
      /\ InText(b) /\ Len(rest) = Len(todo) - 1
  BY <1>0, <1>1, NextBlock
<1>3. Text' = Text /\ Blocks(Text)' = Blocks(Text) /\ Units' = Units
  BY <1>0, Fixed
<1>4. /\ Len(todo) \in Nat /\ Len(Blocks(Text)) \in Nat
      /\ Len(Text) \in Nat /\ Text \in Seq(Line) /\ items \in Seq(Card)
  BY InputFacts DEF Extraction, InPlace, ExtractTypeOK
<1>5. Begun' = Begun + 1
  <2>1. Begun' = Len(Blocks(Text)) - Len(rest) /\ Begun = Len(Blocks(Text)) - Len(todo)
    BY <1>0, <1>1, <1>3 DEF Begun
  <2>. QED  BY <1>2, <1>4, <2>1
<1>6. PICK more : more = ItemsOf(Text, b.from, b.to, {"entry"})
  OBVIOUS
<1>7. /\ more \in Seq(Card)
      /\ \A i \in b.from .. b.to : Text[i].kind = "entry" => Contains(more, Item(Text[i]))
  <2>1. b.from \in 1..Len(Text) /\ b.to \in 1..Len(Text)
    BY <1>2, <1>4 DEF InText, ProperBlock, Block
  <2>2. /\ ItemsOf(Text, b.from, b.to, {"entry"}) \in Seq(Card)
        /\ \A i \in b.from .. b.to : Text[i].kind \in {"entry"} =>
              Contains(ItemsOf(Text, b.from, b.to, {"entry"}), Item(Text[i]))
    BY <1>4, <2>1, LineFacts, ItemsOfFacts
  <2>. QED  BY <1>6, <2>2
<1>8. items' = items \o more
  BY <1>1, <1>6 DEF ExtractTable, ParseTable
<1>9. \A x : Contains(items, x) \/ Contains(more, x) => Contains(items', x)
  BY <1>4, <1>7, <1>8, ContainsEither
<1>10. ASSUME NEW k \in 1..Begun', Blocks(Text)[k].kind = "table",
              NEW i \in Blocks(Text)[k].from .. Blocks(Text)[k].to, Text[i].kind = "entry"
       PROVE  Contains(items', Item(Text[i]))
  <2>1. CASE k = Begun + 1
    BY <1>2, <1>7, <1>9, <1>10, <2>1
  <2>2. CASE k # Begun + 1
    <3>0. Begun \in Nat
      <4>1. Begun = Len(Blocks(Text)) - Len(todo) /\ Len(todo) <= Len(Blocks(Text))
        BY DEF Begun, Extraction, InPlace
      <4>. QED  BY <1>4, <4>1
    <3>1. k \in 1..Begun
      BY <1>5, <1>10, <2>2, <3>0
    <3>2. Contains(items, Item(Text[i]))
      BY <1>10, <3>1 DEF Found
    <3>. QED  BY <1>9, <3>2
  <2>. QED  BY <2>1, <2>2
<1>11. ASSUME NEW u \in 1..(unit - 1), u \notin failed, NEW i \in Units[u].from .. Units[u].to,
              Text[i].kind \in {"entry", "prose"}
       PROVE  Contains(items', Item(Text[i]))
  <2>1. Contains(items, Item(Text[i]))
    BY <1>11 DEF Found
  <2>. QED  BY <1>9, <2>1
<1>. QED  BY <1>0, <1>3, <1>10, <1>11 DEF Found

LEMMA TextFound ==
    ASSUME Extraction, Found, ExtractText
    PROVE  Found'
<1>0. /\ pc = "extract" /\ chunks = <<>> /\ todo # <<>> /\ Head(todo).kind = "text"
      /\ todo' = Tail(todo) /\ UNCHANGED <<input, unit, failed, items>>
  BY DEF ExtractText
<1>1. PICK b, rest, W : b = Head(todo) /\ rest = Tail(todo) /\ W = UnitsOf(Text, b)
  OBVIOUS
<1>2. /\ Begun + 1 \in 1..Len(Blocks(Text)) /\ b = Blocks(Text)[Begun + 1]
      /\ Len(rest) = Len(todo) - 1
  BY <1>0, <1>1, NextBlock
<1>3. Text' = Text /\ Blocks(Text)' = Blocks(Text) /\ Units' = Units
  BY <1>0, Fixed
<1>4. Len(todo) \in Nat /\ Len(Blocks(Text)) \in Nat
  BY InputFacts DEF Extraction, InPlace, ExtractTypeOK
<1>5. Begun' = Begun + 1
  <2>1. Begun' = Len(Blocks(Text)) - Len(rest) /\ Begun = Len(Blocks(Text)) - Len(todo)
    BY <1>0, <1>1, <1>3 DEF Begun
  <2>. QED  BY <1>2, <1>4, <2>1
<1>6. ASSUME NEW k \in 1..Begun', Blocks(Text)[k].kind = "table" PROVE k \in 1..Begun
  <2>1. Blocks(Text)[Begun + 1].kind = "text"
    BY <1>0, <1>1, <1>2
  <2>2. k # Begun + 1
    BY <1>6, <2>1
  <2>. QED  BY <1>2, <1>4, <1>5, <2>2 DEF Begun
<1>. QED  BY <1>0, <1>3, <1>6 DEF Found

LEMMA AnswerFound ==
    ASSUME Extraction, Found, Answer
    PROVE  Found'
<1>0. /\ pc = "ask" /\ unit' = unit + 1
      /\ items' = items \o ItemsOf(Text, Units[unit].from, Units[unit].to, {"entry", "prose"})
      /\ UNCHANGED <<input, todo, failed>>
  BY DEF Answer
<1>1. PICK more : more = ItemsOf(Text, Units[unit].from, Units[unit].to, {"entry", "prose"})
  OBVIOUS
<1>2. /\ unit \in 1..Len(Units) /\ more \in Seq(Card)
      /\ \A i \in Units[unit].from .. Units[unit].to : Text[i].kind \in {"entry", "prose"} =>
            Contains(more, Item(Text[i]))
  BY <1>0, <1>1, AskedUnit
<1>3. Text' = Text /\ Blocks(Text)' = Blocks(Text) /\ Units' = Units
  BY <1>0, Fixed
<1>4. Begun' = Begun
  BY <1>0, <1>3 DEF Begun
<1>5. items \in Seq(Card) /\ unit \in Nat
  BY DEF Extraction, ExtractTypeOK
<1>6. \A x : Contains(items, x) \/ Contains(more, x) => Contains(items', x)
  <2>1. items' = items \o more
    BY <1>0, <1>1
  <2>. QED  BY <1>2, <1>5, <2>1, ContainsEither
<1>7. ASSUME NEW k \in 1..Begun, Blocks(Text)[k].kind = "table",
             NEW i \in Blocks(Text)[k].from .. Blocks(Text)[k].to, Text[i].kind = "entry"
      PROVE  Contains(items', Item(Text[i]))
  <2>1. Contains(items, Item(Text[i]))
    BY <1>7 DEF Found
  <2>. QED  BY <1>6, <2>1
<1>8. ASSUME NEW u \in 1..unit, u \notin failed, NEW i \in Units[u].from .. Units[u].to,
             Text[i].kind \in {"entry", "prose"}
      PROVE  Contains(items', Item(Text[i]))
  <2>1. CASE u = unit
    BY <1>2, <1>6, <1>8, <2>1
  <2>2. CASE u # unit
    <3>1. u \in 1..(unit - 1)
      BY <1>5, <2>2
    <3>2. Contains(items, Item(Text[i]))
      BY <1>8, <3>1 DEF Found
    <3>. QED  BY <1>6, <3>2
  <2>. QED  BY <2>1, <2>2
<1>9. unit' - 1 = unit
  BY <1>0, <1>5
<1>. QED  BY <1>0, <1>3, <1>4, <1>7, <1>8, <1>9 DEF Found

LEMMA FailFound ==
    ASSUME Extraction, Found, FailAnswer
    PROVE  Found'
<1>0. /\ failed' = failed \cup {unit} /\ unit' = unit + 1 /\ UNCHANGED <<input, todo, items>>
  BY DEF FailAnswer
<1>1. Text' = Text /\ Blocks(Text)' = Blocks(Text) /\ Units' = Units
  BY <1>0, Fixed
<1>2. Begun' = Begun
  BY <1>0, <1>1 DEF Begun
<1>3. unit \in Nat
  BY DEF Extraction, ExtractTypeOK
<1>4. \A u \in 1..(unit' - 1) : u \notin failed' => u \in 1..(unit - 1) /\ u \notin failed
  BY <1>0, <1>3
<1>. QED  BY <1>0, <1>1, <1>2, <1>4 DEF Found

LEMMA SameFound ==
    ASSUME Extraction, Found, UNCHANGED <<input, todo, items, unit, failed>>
    PROVE  Found'
<1>1. Text' = Text /\ Blocks(Text)' = Blocks(Text) /\ Units' = Units
  BY Fixed
<1>2. Begun' = Begun
  BY <1>1 DEF Begun
<1>. QED  BY <1>1, <1>2 DEF Found

LEMMA NextFound ==
    ASSUME Extraction, Found, [Next]_vars
    PROVE  Found'
<1>1. CASE ExtractTable
  BY <1>1, TableFound
<1>2. CASE ExtractText
  BY <1>2, TextFound
<1>3. CASE Answer
  BY <1>3, AnswerFound
<1>4. CASE FailAnswer
  BY <1>4, FailFound
<1>5. CASE NextChunk \/ RetryAnswer \/ MakeRows
  <2>1. UNCHANGED <<input, todo, items, unit, failed>>
    BY <1>5 DEF NextChunk, RetryAnswer, MakeRows
  <2>. QED  BY <2>1, SameFound
<1>6. CASE Enrich \/ Translate \/ Decompose \/ LinkSentence \/ FillSentences
  <2>1. UNCHANGED <<input, todo, items, unit, failed>>
    BY <1>6 DEF Enrich, Translate, Decompose, LinkSentence, FillSentences
  <2>. QED  BY <2>1, SameFound
<1>7. CASE UNCHANGED vars
  <2>1. UNCHANGED <<input, todo, items, unit, failed>>
    BY <1>7 DEF vars
  <2>. QED  BY <2>1, SameFound
<1>. QED  BY <1>1, <1>2, <1>3, <1>4, <1>5, <1>6, <1>7 DEF Next

LEMMA FoundHolds == Spec => []Found
<1>1. ASSUME Init PROVE Found
  <2>1. Extraction
    BY <1>1, InitPlace
  <2>2. Begun = 0
    <3>1. todo = Blocks(Text) /\ Len(Blocks(Text)) \in Nat
      BY <1>1, <2>1, InputFacts DEF Init, Extraction, ExtractTypeOK
    <3>. QED  BY <3>1 DEF Begun
  <2>3. unit = 1
    BY <1>1 DEF Init
  <2>. QED  BY <2>2, <2>3 DEF Found
<1>2. Extraction /\ Found /\ [Next]_vars => Found'
  BY NextFound
<1>3. Init => Found
  BY <1>1
<1>. QED  BY <1>2, <1>3, ExtractionHolds, PTL DEF Spec

LEMMA NothingLeft ==
    ASSUME Extraction, Found
    PROVE  NothingCut
<1>. SUFFICES ASSUME pc = "enrich"
     PROVE  /\ \A i, j \in DOMAIN Text :
                  (/\ i <= j /\ j - i <= Overlap
                   /\ Text[i].kind # "blank" /\ Text[j].kind # "blank"
                   /\ \A k \in i..j : ~InTable(k))
                      => \E u \in DOMAIN Units : Units[u].from <= i /\ j <= Units[u].to
            /\ \A i \in DOMAIN Text :
                  Text[i].kind = "entry" /\ InTable(i) => Contains(items, Item(Text[i]))
  BY DEF NothingCut
<1>1. PICK n \in Nat : n = Len(Text) /\ DOMAIN Text = 1..n
  BY InputFacts DEF Extraction, ExtractTypeOK
<1>2. Text \in Seq(Line) /\ Units \in Seq(Window) /\ Len(Units) \in Nat
  BY InputFacts DEF Extraction, ExtractTypeOK
<1>3. \A i : InTable(i) <=> Tabled(Text, i)
  BY DEF InTable, Tabled, TableLines, Loose
<1>4. PICK B : B = Blocks(Text)
  OBVIOUS
<1>5. Divided(Text, 1)
  BY <1>2, TextDivided
<1>6. /\ ProperBlocks(B)
      /\ \A kind : \A p, q \in 1..n :
            /\ Text[p].kind # "blank" /\ Text[q].kind # "blank" /\ p <= q
            /\ Holds(BlocksFrom(Text)[1], kind, p, q)
            => Holds(B, kind, p, q)
  BY <1>1, <1>2, <1>4, BlocksFacts
<1>7. ASSUME NEW i \in 1..n, NEW j \in 1..n, i <= j, j - i <= Overlap,
             Text[i].kind # "blank", Text[j].kind # "blank", \A k \in i..j : ~InTable(k)
      PROVE  \E u \in DOMAIN Units : Units[u].from <= i /\ j <= Units[u].to
  <2>1. Holds(BlocksFrom(Text)[1], "text", i, j)
    BY <1>1, <1>3, <1>5, <1>7 DEF Divided
  <2>2. Holds(B, "text", i, j)
    BY <1>6, <1>7, <2>1
  <2>3. PICK k \in 1..Len(B) : B[k].kind = "text" /\ B[k].from <= i /\ j <= B[k].to
    BY <2>2 DEF Holds
  <2>4. ProperBlock(B[k])
    BY <1>6 DEF ProperBlocks
  <2>5. Within(Chunks(B[k]), i, j)
    BY <1>7, <2>3, <2>4, ChunksCover
  <2>6. Within(UnitsOf(Text, B[k]), i, j)
    BY <2>3, <2>5 DEF UnitsOf
  <2>7. Within(UnitsUpTo(Text, B)[Len(B)], i, j)
    BY <1>6, <2>6, UnitsWithin
  <2>8. Within(Units, i, j)
    BY <1>4, <2>7 DEF Units, LlmUnits
  <2>. QED  BY <1>2, <2>8 DEF Within
<1>8. ASSUME NEW i \in 1..n, Text[i].kind = "entry", InTable(i)
      PROVE  Contains(items, Item(Text[i]))
  <2>1. PICK a \in 1..i, z \in i..Len(Text) : TableLines(Text, a, z)
    BY <1>3, <1>8 DEF Tabled
  <2>2. Holds(BlocksFrom(Text)[1], "table", i, i)
    BY <1>1, <1>5, <2>1 DEF Divided
  <2>3. Holds(B, "table", i, i)
    BY <1>6, <1>8, <2>2
  <2>4. PICK k \in 1..Len(B) : B[k].kind = "table" /\ B[k].from <= i /\ i <= B[k].to
    BY <2>3 DEF Holds
  <2>5. B[k].from \in Nat /\ B[k].to \in Nat
    BY <1>6 DEF ProperBlocks, ProperBlock, Block
  <2>6. Begun = Len(B)
    <3>1. todo = <<>> /\ Len(B) \in Nat
      BY <1>4, InputFacts DEF Extraction, InPlace, ExtractTypeOK
    <3>. QED  BY <1>4, <3>1 DEF Begun
  <2>7. k \in 1..Begun /\ i \in B[k].from .. B[k].to
    BY <2>4, <2>5, <2>6
  <2>. QED  BY <1>4, <1>8, <2>4, <2>7 DEF Found
<1>. QED  BY <1>1, <1>7, <1>8

\* However the text is cut, a passage of prose up to one character longer than the
\* overlap is whole in some unit, and every entry of a table is an item, for every
\* chunk size and overlap that the settings may have (chunk.py:4-20, blocks.py:12-67).
THEOREM NothingCutHolds == Spec => []NothingCut
<1>1. Extraction /\ Found => NothingCut
  BY NothingLeft
<1>. QED  BY <1>1, ExtractionHolds, FoundHolds, PTL

----------------------------------------------------------------------------
(* One item for each term *)

\* Among the first n cards with its term the j-th has the longest meaning, and is
\* the first that has.
Best(cards, n, j) ==
    \A l \in 1..n : cards[l].term = cards[j].term =>
        \/ Length[cards[l].meaning] < Length[cards[j].meaning]
        \/ Length[cards[l].meaning] = Length[cards[j].meaning] /\ j <= l

\* acc has the best of the first n cards for each term but the empty one.
Deduped(cards, n, acc) ==
    /\ acc \in Seq(Card)
    /\ \A k, l \in 1..Len(acc) : acc[k].term = acc[l].term => k = l
    /\ \A k \in 1..Len(acc) :
          acc[k].term # <<>> /\ \E j \in 1..n : acc[k] = cards[j] /\ Best(cards, n, j)
    /\ \A j \in 1..n : cards[j].term # <<>> => \E k \in 1..Len(acc) : acc[k].term = cards[j].term

LEMMA BestStill ==
    ASSUME NEW cards, NEW n \in Nat, NEW j \in 1..n, Best(cards, n, j),
           cards[n + 1].term # cards[j].term
    PROVE  j \in 1..(n + 1) /\ Best(cards, n + 1, j)
<1>1. ASSUME NEW l \in 1..(n + 1), cards[l].term = cards[j].term PROVE l \in 1..n
  BY <1>1
<1>. QED  BY <1>1 DEF Best

LEMMA AddItemKeeps ==
    ASSUME NEW cards, cards \in Seq(Card), NEW n \in Nat, n + 1 \in 1..Len(cards),
           NEW acc, Deduped(cards, n, acc)
    PROVE  Deduped(cards, n + 1, AddItem(acc, cards[n + 1]))
<1>1. PICK c \in Card : c = cards[n + 1]
  OBVIOUS
<1>2. /\ acc \in Seq(Card) /\ Len(acc) \in Nat /\ DOMAIN acc = 1..Len(acc)
      /\ \A k, l \in 1..Len(acc) : acc[k].term = acc[l].term => k = l
  BY DEF Deduped
<1>3. \A k \in 1..Len(acc) :
          acc[k].term # <<>> /\ \E j \in 1..n : acc[k] = cards[j] /\ Best(cards, n, j)
  BY DEF Deduped
<1>4. \A j \in 1..n : cards[j].term # <<>> => \E k \in 1..Len(acc) : acc[k].term = cards[j].term
  BY DEF Deduped
<1>5. \A j \in 1..(n + 1) : j \in 1..n \/ j = n + 1
  OBVIOUS
<1>6. n + 1 \in 1..(n + 1) /\ \A j \in 1..n : j \in 1..(n + 1)
  OBVIOUS
<1>7. \A k \in 1..Len(acc) : acc[k].term # c.term =>
          \E j \in 1..(n + 1) : acc[k] = cards[j] /\ Best(cards, n + 1, j)
  BY <1>1, <1>3, BestStill
<1>8. ASSUME c.term = <<>> PROVE Deduped(cards, n + 1, acc)
  <2>1. \A k \in 1..Len(acc) :
            acc[k].term # <<>> /\ \E j \in 1..(n + 1) : acc[k] = cards[j] /\ Best(cards, n + 1, j)
    BY <1>3, <1>7, <1>8
  <2>2. \A j \in 1..(n + 1) : cards[j].term # <<>> =>
            \E k \in 1..Len(acc) : acc[k].term = cards[j].term
    BY <1>1, <1>4, <1>5, <1>8
  <2>. QED  BY <1>2, <2>1, <2>2 DEF Deduped
<1>9. ASSUME c.term # <<>>, \A k \in 1..Len(acc) : acc[k].term # c.term
      PROVE  Deduped(cards, n + 1, Append(acc, c))
  <2>1. PICK new, m : new = Append(acc, c) /\ m = Len(acc)
    OBVIOUS
  <2>2. /\ m \in Nat /\ new \in Seq(Card) /\ Len(new) = m + 1 /\ new[m + 1] = c
        /\ \A k \in 1..m : new[k] = acc[k]
    BY <1>2, <2>1
  <2>3. \A k \in 1..(m + 1) : k \in 1..m \/ k = m + 1
    BY <2>2
  <2>4. m + 1 \in 1..(m + 1) /\ \A k \in 1..m : k \in 1..(m + 1)
    BY <2>2
  <2>5. \A k, l \in 1..(m + 1) : new[k].term = new[l].term => k = l
    BY <1>2, <1>9, <2>1, <2>2, <2>3
  <2>6. Best(cards, n + 1, n + 1)
    <3>1. ASSUME NEW l \in 1..(n + 1), cards[l].term = cards[n + 1].term PROVE l = n + 1
      BY <1>1, <1>4, <1>5, <1>9, <3>1
    <3>. QED  BY <3>1 DEF Best
  <2>7. ASSUME NEW k \in 1..(m + 1)
        PROVE  new[k].term # <<>> /\ \E j \in 1..(n + 1) : new[k] = cards[j] /\ Best(cards, n + 1, j)
    <3>1. CASE k = m + 1
      BY <1>1, <1>6, <1>9, <2>2, <2>6, <3>1
    <3>2. CASE k # m + 1
      <4>1. k \in 1..Len(acc) /\ new[k] = acc[k]
        BY <2>1, <2>2, <2>3, <3>2
      <4>. QED  BY <1>3, <1>7, <1>9, <4>1
    <3>. QED  BY <3>1, <3>2
  <2>8. ASSUME NEW j \in 1..(n + 1), cards[j].term # <<>>
        PROVE  \E k \in 1..(m + 1) : new[k].term = cards[j].term
    <3>1. CASE j = n + 1
      BY <1>1, <2>2, <2>4, <3>1
    <3>2. CASE j # n + 1
      <4>1. PICK k \in 1..m : acc[k].term = cards[j].term
        BY <1>4, <1>5, <2>1, <2>8, <3>2
      <4>. QED  BY <2>2, <2>4, <4>1
    <3>. QED  BY <3>1, <3>2
  <2>. QED  BY <2>1, <2>2, <2>5, <2>7, <2>8 DEF Deduped
<1>10. ASSUME c.term # <<>>, NEW h \in 1..Len(acc), acc[h].term = c.term, NEW new,
              new = [k \in 1..Len(acc) |->
                        IF k = h /\ Length[c.meaning] > Length[acc[k].meaning] THEN c ELSE acc[k]]
       PROVE  Deduped(cards, n + 1, new)
  <2>1. PICK m \in Nat : m = Len(acc)
    BY <1>2
  <2>2. \A k \in 1..m : acc[k] \in Card
    BY <1>2, <2>1
  <2>3. new \in Seq(Card) /\ Len(new) = m
    <3>1. new \in [1..m -> Card]
      BY <1>10, <2>1, <2>2
    <3>. QED  BY <2>1, <3>1, FunctionSeq
  <2>4. \A k \in 1..m : new[k].term = acc[k].term
    BY <1>10, <2>1
  <2>5. \A k, l \in 1..m : new[k].term = new[l].term => k = l
    BY <1>2, <2>1, <2>4
  <2>6. PICK j \in 1..n : acc[h] = cards[j] /\ Best(cards, n, j)
    BY <1>3
  <2>7. Length[c.meaning] \in Nat /\ Length[cards[j].meaning] \in Nat
    <3>1. cards[j] \in Card /\ c \in Card
      BY <1>2, <2>6
    <3>2. \A x \in Card : Length[x.meaning] \in Nat
      BY LineFacts DEF Card
    <3>. QED  BY <3>1, <3>2
  <2>8. ASSUME NEW k \in 1..m
        PROVE  \E i \in 1..(n + 1) : new[k] = cards[i] /\ Best(cards, n + 1, i)
    <3>1. CASE k # h
      <4>1. acc[k].term # c.term /\ new[k] = acc[k]
        BY <1>2, <1>10, <2>1, <3>1
      <4>. QED  BY <1>7, <2>1, <4>1
    <3>2. CASE k = h /\ Length[c.meaning] > Length[cards[j].meaning]
      <4>1. new[k] = cards[n + 1]
        BY <1>1, <1>10, <2>1, <2>6, <3>2
      <4>2. ASSUME NEW l \in 1..(n + 1), cards[l].term = cards[n + 1].term, l # n + 1
            PROVE  Length[cards[l].meaning] < Length[cards[n + 1].meaning]
        <5>1. l \in 1..n /\ cards[l].term = cards[j].term /\ cards[l] \in Card
          BY <1>1, <1>5, <1>10, <2>6, <4>2
        <5>2. Length[cards[l].meaning] \in Nat
          BY <5>1, LineFacts DEF Card
        <5>3. \/ Length[cards[l].meaning] < Length[cards[j].meaning]
              \/ Length[cards[l].meaning] = Length[cards[j].meaning]
          BY <2>6, <5>1 DEF Best
        <5>. QED  BY <1>1, <2>7, <3>2, <5>2, <5>3
      <4>3. Best(cards, n + 1, n + 1)
        BY <4>2 DEF Best
      <4>. QED  BY <1>6, <4>1, <4>3
    <3>3. CASE k = h /\ ~(Length[c.meaning] > Length[cards[j].meaning])
      <4>1. new[k] = cards[j]
        BY <1>10, <2>1, <2>6, <3>3
      <4>2. \/ Length[cards[n + 1].meaning] < Length[cards[j].meaning]
            \/ Length[cards[n + 1].meaning] = Length[cards[j].meaning] /\ j <= n + 1
        BY <1>1, <2>7, <3>3
      <4>3. Best(cards, n + 1, j)
        BY <1>5, <2>6, <4>2 DEF Best
      <4>. QED  BY <1>6, <4>1, <4>3
    <3>. QED  BY <3>1, <3>2, <3>3
  <2>9. \A k \in 1..m : new[k].term # <<>>
    BY <1>3, <2>1, <2>4
  <2>10. ASSUME NEW i \in 1..(n + 1), cards[i].term # <<>>
         PROVE  \E k \in 1..m : new[k].term = cards[i].term
    <3>1. PICK k \in 1..m : acc[k].term = cards[i].term
      BY <1>1, <1>4, <1>5, <1>10, <2>1, <2>10
    <3>. QED  BY <2>4, <3>1
  <2>. QED  BY <2>3, <2>5, <2>8, <2>9, <2>10 DEF Deduped
<1>11. PICK at : at = {k \in DOMAIN acc : acc[k].term = c.term}
  OBVIOUS
<1>12. AddItem(acc, c) =
          IF c.term = <<>> THEN acc
          ELSE IF at = {} THEN Append(acc, c)
          ELSE [k \in DOMAIN acc |->
                   IF k \in at /\ Length[c.meaning] > Length[acc[k].meaning] THEN c ELSE acc[k]]
  BY <1>11 DEF AddItem
<1>13. CASE c.term = <<>>
  BY <1>1, <1>8, <1>12, <1>13
<1>14. CASE c.term # <<>> /\ at = {}
  BY <1>1, <1>2, <1>9, <1>11, <1>12, <1>14
<1>15. CASE c.term # <<>> /\ at # {}
  <2>1. PICK h \in 1..Len(acc) : acc[h].term = c.term
    BY <1>2, <1>11, <1>15
  <2>2. at = {h}
    BY <1>2, <1>11, <2>1
  <2>3. AddItem(acc, c) = [k \in 1..Len(acc) |->
            IF k = h /\ Length[c.meaning] > Length[acc[k].meaning] THEN c ELSE acc[k]]
    BY <1>2, <1>12, <1>15, <2>2
  <2>. QED  BY <1>1, <1>10, <1>15, <2>1, <2>3
<1>. QED  BY <1>13, <1>14, <1>15

LEMMA AddItemType ==
    ASSUME NEW acc \in Seq(Card), NEW c \in Card
    PROVE  AddItem(acc, c) \in Seq(Card)
<1>1. PICK n \in Nat : n = Len(acc)
  OBVIOUS
<1>2. ASSUME NEW S PROVE [k \in DOMAIN acc |-> IF k \in S THEN c ELSE acc[k]] \in Seq(Card)
  <2>1. [k \in 1..n |-> IF k \in S THEN c ELSE acc[k]] \in [1..n -> Card]
    BY <1>1
  <2>2. [k \in 1..n |-> IF k \in S THEN c ELSE acc[k]] \in Seq(Card)
    BY <2>1, FunctionSeq
  <2>. QED  BY <1>1, <2>2
<1>3. PICK at : at = {k \in DOMAIN acc : acc[k].term = c.term}
  OBVIOUS
<1>4. PICK S : S = {k \in at : Length[c.meaning] > Length[acc[k].meaning]}
  OBVIOUS
<1>5. AddItem(acc, c) = IF c.term = <<>> THEN acc
                        ELSE IF at = {} THEN Append(acc, c)
                        ELSE [k \in DOMAIN acc |-> IF k \in S THEN c ELSE acc[k]]
  BY <1>3, <1>4 DEF AddItem
<1>. QED  BY <1>2, <1>5

\* After each card come the items of those before it and the card.
LEMMA DedupeDef ==
    ASSUME NEW cards, cards \in Seq(Card)
    PROVE  /\ DedupeUpTo(cards)[0] = <<>>
           /\ \A i \in 1..Len(cards) : DedupeUpTo(cards)[i] = AddItem(DedupeUpTo(cards)[i - 1], cards[i])
<1>. DEFINE Eq(f) == f = [i \in 0..Len(cards) |->
                             IF i = 0 THEN <<>> ELSE AddItem(f[i - 1], cards[i])]
<1>1. PICK A : A = Seq(Card)
  OBVIOUS
<1>2. PICK n \in Nat, a \in A : n = Len(cards) /\ a = <<>>
  <2>1. Len(cards) \in Nat
    OBVIOUS
  <2>2. <<>> \in A
    BY <1>1
  <2>. QED  BY <2>1, <2>2
<1>. DEFINE g == [i \in 1..n |-> [acc \in A |-> AddItem(acc, cards[i])]]
<1>3. g \in Steps(A, n)
  <2>1. \A i \in 1..n : cards[i] \in Card
    BY <1>2
  <2>2. \A acc \in A : \A c \in Card : AddItem(acc, c) \in A
    BY <1>1, AddItemType
  <2>. QED  BY <2>1, <2>2 DEF Steps
<1>4. PICK f : f \in Iterations(A, a, n, g)
  <2>. HIDE DEF g
  <2>. QED  BY <1>3, UpRecursion
<1>5. f \in [0..n -> A] /\ f[0] = a /\ \A i \in 1..n : f[i] = g[i][f[i - 1]]
  BY <1>4 DEF Iterations
<1>6. Eq(f)
  <2>. SUFFICES ASSUME NEW i \in 0..n
                PROVE  f[i] = IF i = 0 THEN a ELSE AddItem(f[i - 1], cards[i])
    BY <1>2, <1>5
  <2>1. i # 0 => i \in 1..n /\ f[i - 1] \in A
    BY <1>5
  <2>2. i # 0 => f[i] = g[i][f[i - 1]]
    BY <1>5, <2>1
  <2>. QED  BY <1>5, <2>1, <2>2
<1>. DEFINE F == CHOOSE h : Eq(h)
<1>7. Eq(F)
  <2>. HIDE DEF Eq
  <2>. QED  BY <1>6
<1>8. DedupeUpTo(cards) = F
  BY DEF DedupeUpTo
<1>9. Eq(DedupeUpTo(cards))
  <2>. HIDE DEF F, Eq
  <2>. QED  BY <1>7, <1>8
<1>10. PICK G : G = DedupeUpTo(cards)
  OBVIOUS
<1>11. G = [i \in 0..n |-> IF i = 0 THEN <<>> ELSE AddItem(G[i - 1], cards[i])]
  BY <1>2, <1>9, <1>10
<1>12. 0 \in 0..n /\ \A i \in 1..n : i \in 0..n /\ i # 0
  OBVIOUS
<1>13. G[0] = <<>> /\ \A i \in 1..n : G[i] = AddItem(G[i - 1], cards[i])
  BY <1>11, <1>12
<1>. QED  BY <1>2, <1>10, <1>13

\* _dedupe_cards keeps the best card for each term.
LEMMA DedupeFacts ==
    ASSUME NEW cards, cards \in Seq(Card)
    PROVE  Deduped(cards, Len(cards), Dedupe(cards))
<1>1. PICK n \in Nat : n = Len(cards)
  OBVIOUS
<1>2. PICK G : G = DedupeUpTo(cards)
  OBVIOUS
<1>3. G[0] = <<>> /\ \A i \in 1..n : G[i] = AddItem(G[i - 1], cards[i])
  BY <1>1, <1>2, DedupeDef
<1>. DEFINE S == {i \in 0..n : Deduped(cards, i, G[i])}
<1>4. 0 \in S
  <2>1. Deduped(cards, 0, <<>>)
    BY DEF Deduped
  <2>. QED  BY <1>3, <2>1
<1>5. ASSUME NEW i \in 0..(n - 1), i \in S PROVE i + 1 \in S
  <2>1. i \in Nat /\ i + 1 \in 1..n /\ i + 1 \in 0..n /\ (i + 1) - 1 = i
    OBVIOUS
  <2>2. Deduped(cards, i, G[i])
    BY <1>5
  <2>3. Deduped(cards, i + 1, AddItem(G[i], cards[i + 1]))
    BY <1>1, <2>1, <2>2, AddItemKeeps
  <2>4. G[i + 1] = AddItem(G[i], cards[i + 1])
    BY <1>3, <2>1
  <2>. QED  BY <2>1, <2>3, <2>4
<1>6. \A i \in 0..n : i \in S
  <2>. HIDE DEF S
  <2>. QED  BY <1>4, <1>5, Upward
<1>7. Deduped(cards, n, G[n])
  BY <1>6
<1>. QED  BY <1>1, <1>2, <1>7 DEF Dedupe

\* The best card for a term is the one that its row begins with.
LEMMA BestIsOne ==
    ASSUME items \in Seq(Card), NEW j \in 1..Len(items), Best(items, Len(items), j)
    PROVE  BestItem(items[j].term) = items[j]
<1>1. PICK t, n : t = items[j].term /\ n = Len(items)
  OBVIOUS
<1>2. n \in Nat /\ DOMAIN items = 1..n /\ \A i \in 1..n : Length[items[i].meaning] \in Nat
  <2>1. \A x \in Card : Length[x.meaning] \in Nat
    BY LineFacts DEF Card
  <2>. QED  BY <1>1, <2>1
<1>. DEFINE mine == {i \in DOMAIN items : items[i].term = t}
            P(i) == \A l \in mine : \/ Length[items[l].meaning] < Length[items[i].meaning]
                                    \/ /\ Length[items[l].meaning] = Length[items[i].meaning]
                                       /\ i <= l
<1>3. j \in mine /\ P(j)
  BY <1>1, <1>2 DEF Best
<1>4. ASSUME NEW i \in mine, P(i) PROVE i = j
  <2>1. /\ \/ Length[items[j].meaning] < Length[items[i].meaning]
           \/ Length[items[j].meaning] = Length[items[i].meaning] /\ i <= j
        /\ \/ Length[items[i].meaning] < Length[items[j].meaning]
           \/ Length[items[i].meaning] = Length[items[j].meaning] /\ j <= i
    BY <1>3, <1>4
  <2>2. i \in Nat /\ j \in Nat /\ Length[items[i].meaning] \in Nat /\ Length[items[j].meaning] \in Nat
    BY <1>1, <1>2
  <2>. QED  BY <2>1, <2>2
<1>5. (CHOOSE i \in mine : P(i)) = j
  <2>. HIDE DEF mine, P
  <2>. QED  BY <1>3, <1>4
<1>6. BestItem(t) = items[CHOOSE i \in mine : P(i)]
  BY DEF BestItem
<1>. QED  BY <1>1, <1>5, <1>6

----------------------------------------------------------------------------
(* The rows *)

After == {"enrich", "translate", "decompose", "link", "done"}

\* The meaning of a term as of each step, and the notes.
Looked(term) ==
    IF (input.settings.force \/ BestItem(term).meaning \in Unknown) /\ Gloss(term) # ""
    THEN Gloss(term) ELSE BestItem(term).meaning
Answered(term) == IF term \in DOMAIN answers THEN answers[term] ELSE ""
Told(term) == Looked(term) \in Unknown /\ Answered(term) # ""
Translated(term) == IF Told(term) THEN Answered(term) ELSE Looked(term)
HasParts(term) ==
    /\ input.settings.decompose
    /\ term \notin Headwords
    /\ Decomposable(term, Headwords)
PutTogether(term) == Translated(term) \in Unknown /\ HasParts(term)
InParts(term) ==
    IF PutTogether(term) /\ PartsMeaning(term) # "" THEN PartsMeaning(term) ELSE Translated(term)
Meaning(term) ==
    CASE pc = "enrich" -> BestItem(term).meaning
      [] pc = "translate" -> Looked(term)
      [] pc = "decompose" -> Translated(term)
      [] OTHER -> InParts(term)
Notes(term) ==
    {n \in {"English", "parts"} :
        \/ n = "English" /\ pc \notin {"enrich", "translate"} /\ Told(term)
        \/ n = "parts" /\ pc \in {"link", "done"} /\ PutTogether(term)}

Sourced(row, meaning, notes) == row.meaning = meaning /\ row.notes = notes

\* There is one row for each term of the items, with the meaning it has so far.
RowsMade ==
    /\ rows \in Seq(Row)
    /\ \A k, l \in DOMAIN rows : rows[k].term = rows[l].term => k = l
    /\ \A k \in DOMAIN rows : \E j \in DOMAIN items : items[j].term = rows[k].term
    /\ \A j \in DOMAIN items : items[j].term # <<>> =>
          \E k \in DOMAIN rows : rows[k].term = items[j].term
    /\ \A k \in DOMAIN rows :
          Sourced(rows[k], Meaning(rows[k].term), Notes(rows[k].term))

\* The LLM was asked about no other terms, once the dictionary had been.
AnswersTyped ==
    /\ DOMAIN answers \subseteq {rows[k].term : k \in DOMAIN rows}
    /\ \A t \in DOMAIN answers : answers[t] \in Unknown \cup {"English"}

RowsInv ==
    /\ pc \in {"extract", "ask"} => rows = <<>>
    /\ pc \in {"extract", "ask", "enrich", "translate"} => DOMAIN answers = {}
    /\ AnswersTyped
    /\ pc \in After => RowsMade

\* What was found does not change any more.
LEMMA SameBest ==
    ASSUME items' = items, input' = input, NEW t
    PROVE  /\ BestItem(t)' = BestItem(t) /\ Looked(t)' = Looked(t)
           /\ HasParts(t)' = HasParts(t) /\ PartsMeaning(t)' = PartsMeaning(t)
<1>1. BestItem(t)' = BestItem(t)
  BY DEF BestItem
<1>2. Headwords' = Headwords
  BY DEF Headwords
<1>3. Gloss(t)' = Gloss(t)
  BY <1>2 DEF Gloss
<1>4. PartsMeaning(t)' = PartsMeaning(t)
  BY <1>2 DEF PartsMeaning
<1>. QED  BY <1>1, <1>2, <1>3, <1>4 DEF Looked, HasParts

\* Nor does what the sources say, once the LLM has answered.
LEMMA SameMeaning ==
    ASSUME items' = items, input' = input, answers' = answers, NEW t
    PROVE  /\ Told(t)' = Told(t) /\ Translated(t)' = Translated(t)
           /\ PutTogether(t)' = PutTogether(t) /\ InParts(t)' = InParts(t)
<1>1. Answered(t)' = Answered(t)
  BY DEF Answered
<1>2. Looked(t)' = Looked(t)
  BY SameBest
<1>3. Told(t)' = Told(t)
  BY <1>1, <1>2 DEF Told
<1>4. Translated(t)' = Translated(t)
  BY <1>1, <1>2, <1>3 DEF Translated
<1>5. PutTogether(t)' = PutTogether(t)
  BY <1>4, SameBest DEF PutTogether
<1>6. InParts(t)' = InParts(t)
  BY <1>4, <1>5, SameBest DEF InParts
<1>. QED  BY <1>3, <1>4, <1>5, <1>6

\* Only the meanings, the notes and the sentences of the rows change.
LEMMA RowsChanged ==
    ASSUME RowsInv, pc \in After, pc' \in After, items' = items,
           NEW G, rows' = [k \in DOMAIN rows |-> G[k]],
           \A k \in DOMAIN rows : G[k] \in Row /\ G[k].term = rows[k].term,
           \A k \in DOMAIN rows : Sourced(G[k], Meaning(G[k].term)', Notes(G[k].term)'),
           DOMAIN answers' \subseteq {rows[k].term : k \in DOMAIN rows},
           \A t \in DOMAIN answers' : answers'[t] \in Unknown \cup {"English"},
           pc' \in {"enrich", "translate"} => DOMAIN answers' = {}
    PROVE  RowsInv'
<1>1. RowsMade
  BY DEF RowsInv
<1>2. rows \in Seq(Row)
  BY <1>1 DEF RowsMade
<1>3. PICK n \in Nat : n = Len(rows) /\ DOMAIN rows = 1..n
  BY <1>2
<1>4. rows' \in Seq(Row) /\ Len(rows') = n
  <2>1. rows' = [k \in 1..n |-> G[k]] /\ \A k \in 1..n : G[k] \in Row
    BY <1>3
  <2>2. rows' \in [1..n -> Row]
    BY <2>1
  <2>. QED  BY <2>2, FunctionSeq
<1>5. DOMAIN rows' = 1..n /\ \A k \in 1..n : rows'[k] = G[k] /\ rows'[k].term = rows[k].term
  BY <1>3
<1>6. AnswersTyped'
  <2>1. DOMAIN answers' \subseteq {rows'[k].term : k \in DOMAIN rows'}
    BY <1>3, <1>5
  <2>. QED  BY <2>1 DEF AnswersTyped
<1>7. \A k, l \in DOMAIN rows' : rows'[k].term = rows'[l].term => k = l
  BY <1>1, <1>3, <1>5 DEF RowsMade
<1>8. \A k \in DOMAIN rows' : \E j \in DOMAIN items' : items'[j].term = rows'[k].term
  BY <1>1, <1>3, <1>5 DEF RowsMade
<1>9. \A j \in DOMAIN items' : items'[j].term # <<>> =>
          \E k \in DOMAIN rows' : rows'[k].term = items'[j].term
  BY <1>1, <1>3, <1>5 DEF RowsMade
<1>10. (\A k \in DOMAIN rows :
           Sourced(rows[k], Meaning(rows[k].term), Notes(rows[k].term)))'
  <2>1. ASSUME NEW k \in 1..n PROVE Sourced(G[k], Meaning(G[k].term)', Notes(G[k].term)')
    BY <1>3
  <2>2. ASSUME NEW k \in 1..n
        PROVE  Sourced(rows[k], Meaning(rows[k].term), Notes(rows[k].term))'
    <3>1. rows'[k] = G[k]
      BY <1>5
    <3>. QED  BY <2>1, <3>1
  <2>. QED  BY <1>5, <2>2
<1>11. RowsMade'
  BY <1>4, <1>7, <1>8, <1>9, <1>10 DEF RowsMade
<1>. QED  BY <1>6, <1>11 DEF RowsInv, After

LEMMA BestKnown ==
    ASSUME items \in Seq(Card), NEW i \in DOMAIN items, items[i].term # <<>>
    PROVE  /\ BestItem(items[i].term) \in Card
           /\ \E k \in 1..Len(Dedupe(items)) : Dedupe(items)[k].term = items[i].term
<1>1. PICK n \in Nat : n = Len(items) /\ DOMAIN items = 1..n
  OBVIOUS
<1>2. PICK D : D = Dedupe(items)
  OBVIOUS
<1>3. Deduped(items, n, D)
  BY <1>1, <1>2, DedupeFacts
<1>4. PICK k \in 1..Len(D) : D[k].term = items[i].term
  BY <1>1, <1>3 DEF Deduped
<1>5. PICK j \in 1..n : D[k] = items[j] /\ Best(items, n, j)
  BY <1>3 DEF Deduped
<1>6. BestItem(items[j].term) = items[j]
  BY <1>1, <1>5, BestIsOne
<1>. QED  BY <1>1, <1>2, <1>4, <1>5, <1>6

\* What a row is in any step before the last.
LEMMA RowFacts ==
    ASSUME RowsMade, items \in Seq(Card), NEW k \in DOMAIN rows
    PROVE  /\ rows[k] \in Row
           /\ Sourced(rows[k], Meaning(rows[k].term), Notes(rows[k].term))
           /\ BestItem(rows[k].term).meaning \in Unknown \cup Given
<1>1. rows[k] \in Row
  BY DEF RowsMade
<1>2. PICK j \in DOMAIN items : items[j].term = rows[k].term
  BY DEF RowsMade
<1>3. rows[k].term # <<>>
  BY <1>1 DEF Row
<1>4. BestItem(rows[k].term) \in Card
  BY <1>2, <1>3, BestKnown
<1>5. BestItem(rows[k].term).meaning \in Unknown \cup Given
  BY <1>4 DEF Card
<1>. QED  BY <1>1, <1>5 DEF RowsMade

\* The words that stand for where a meaning comes from are no meanings of notes.
LEMMA Words ==
    /\ "gloss" \notin Unknown \cup Given /\ "English" \notin Unknown \cup Given
    /\ "parts" \notin Unknown \cup Given /\ Unknown \cap Given = {}
    /\ "" \in Unknown /\ "n/a" \in Unknown
    /\ "gloss" # "English" /\ "gloss" # "parts" /\ "English" # "parts"
    /\ {"gloss", "English", "parts"} = FilledIn
  BY DEF Unknown, Given, FilledIn

\* What the dictionary, the LLM and the parts can say.
LEMMA SourceTypes ==
    ASSUME AnswersTyped, NEW t
    PROVE  /\ Gloss(t) \in Unknown \cup {"gloss"}
           /\ Answered(t) \in Unknown \cup {"English"}
           /\ PartsMeaning(t) \in Unknown \cup {"parts"}
<1>1. \A texts, whole : Joined(texts, whole) \in Unknown \cup {whole}
  BY Words DEF Joined
<1>2. Gloss(t) \in Unknown \cup {"gloss"}
  BY <1>1, Words DEF Gloss
<1>3. Answered(t) \in Unknown \cup {"English"}
  BY Words DEF Answered, AnswersTyped
<1>. QED  BY <1>1, <1>2, <1>3 DEF PartsMeaning

LEMMA MeaningTypes ==
    ASSUME AnswersTyped, NEW t, BestItem(t).meaning \in Unknown \cup Given
    PROVE  /\ Looked(t) \in Unknown \cup Given \cup {"gloss"}
           /\ Translated(t) \in Unknown \cup Given \cup {"gloss", "English"}
           /\ InParts(t) \in Unknown \cup Given \cup FilledIn
<1>1. Looked(t) \in Unknown \cup Given \cup {"gloss"}
  BY SourceTypes DEF Looked
<1>2. Translated(t) \in Unknown \cup Given \cup {"gloss", "English"}
  BY <1>1, SourceTypes DEF Translated
<1>. QED  BY <1>1, <1>2, SourceTypes, Words DEF InParts

LEMMA EnrichRows ==
    ASSUME Extraction, RowsInv, Enrich
    PROVE  RowsInv'
<1>0. /\ pc = "enrich" /\ rows' = [k \in DOMAIN rows |-> EnrichRow(rows[k])]
      /\ pc' \in {"translate", "decompose"}
      /\ UNCHANGED <<input, items, answers>>
  BY DEF Enrich
<1>1. RowsMade /\ DOMAIN answers = {} /\ AnswersTyped /\ items \in Seq(Card)
  BY <1>0 DEF RowsInv, After, Extraction, ExtractTypeOK
<1>. DEFINE H == [k \in DOMAIN rows |-> EnrichRow(rows[k])]
<1>2. PICK G : G = H
  OBVIOUS
<1>3. rows' = [k \in DOMAIN rows |-> G[k]]
  BY <1>0, <1>2
<1>4. ASSUME NEW k \in DOMAIN rows
      PROVE  /\ G[k] \in Row /\ G[k].term = rows[k].term
             /\ Sourced(G[k], Meaning(G[k].term)', Notes(G[k].term)')
  <2>1. PICK r, t, m, g : r = rows[k] /\ t = r.term /\ m = BestItem(t).meaning /\ g = Gloss(t)
    OBVIOUS
  <2>2. r \in Row /\ Sourced(r, m, Notes(t)) /\ m \in Unknown \cup Given
    BY <1>0, <1>1, <2>1, RowFacts DEF Meaning
  <2>3. r.meaning = m /\ r.notes = {}
    BY <1>0, <2>2 DEF Sourced, Notes
  <2>4. g \in Unknown \cup Given \cup FilledIn
    BY <1>1, <2>1, SourceTypes, Words
  <2>5. /\ [r EXCEPT !.meaning = g] \in Row /\ [r EXCEPT !.meaning = g].term = t
        /\ [r EXCEPT !.meaning = g].meaning = g /\ [r EXCEPT !.meaning = g].notes = {}
    BY <2>1, <2>2, <2>3, <2>4 DEF Row
  <2>6. G[k] = IF (input.settings.force \/ m \in Unknown) /\ g # ""
               THEN [r EXCEPT !.meaning = g] ELSE r
    BY <1>2, <2>1, <2>3 DEF EnrichRow, Missing
  <2>7. /\ G[k] \in Row /\ G[k].term = t /\ G[k].notes = {} /\ G[k].meaning = Looked(t)
    BY <2>1, <2>2, <2>3, <2>5, <2>6 DEF Looked
  <2>8. Looked(t)' = Looked(t)
    BY <1>0, SameBest
  <2>9. ~Told(t)' /\ Translated(t)' = Looked(t)
    BY <1>0, <1>1, <2>8 DEF Told, Translated, Answered
  <2>10. Meaning(t)' = Looked(t) /\ Notes(t)' = {}
    BY <1>0, <2>8, <2>9 DEF Meaning, Notes
  <2>. QED  BY <2>1, <2>7, <2>10 DEF Sourced
<1>5. pc \in After /\ pc' \in After
  BY <1>0 DEF After
<1>. QED  BY <1>0, <1>1, <1>3, <1>4, <1>5, RowsChanged

LEMMA TranslateRows ==
    ASSUME Extraction, RowsInv, Translate
    PROVE  RowsInv'
<1>. DEFINE H == [k \in DOMAIN rows |->
           IF Missing(rows[k]) /\ answers'[rows[k].term] # ""
           THEN [rows[k] EXCEPT !.meaning = answers'[rows[k].term], !.notes = @ \cup {"English"}]
           ELSE rows[k]]
<1>0. PICK S \in SUBSET {rows[k].term : k \in {j \in DOMAIN rows : Missing(rows[j])}} :
      /\ S = {rows[k].term : k \in {j \in DOMAIN rows : Missing(rows[j])}}
      /\ answers' \in [S -> Unknown \cup {"English"}]
      /\ pc = "translate" /\ rows' = H
      /\ pc' = "decompose"
      /\ UNCHANGED <<input, items>>
  BY DEF Translate
<1>1. RowsMade /\ items \in Seq(Card) /\ AnswersTyped
  BY <1>0 DEF RowsInv, After, Extraction, ExtractTypeOK
<1>2. PICK G : G = [k \in DOMAIN rows |-> H[k]]
  OBVIOUS
<1>3. rows' = [k \in DOMAIN rows |-> G[k]]
  BY <1>0, <1>2
<1>4. ASSUME NEW k \in DOMAIN rows
      PROVE  /\ G[k] \in Row /\ G[k].term = rows[k].term
             /\ Sourced(G[k], Meaning(G[k].term)', Notes(G[k].term)')
  <2>1. PICK r, t, m : r = rows[k] /\ t = r.term /\ m = Looked(t)
    OBVIOUS
  <2>2. r \in Row /\ Sourced(r, m, Notes(t)) /\ m \in Unknown \cup Given \cup {"gloss"}
    BY <1>0, <1>1, <2>1, RowFacts, MeaningTypes DEF Meaning
  <2>3. r.meaning = m /\ r.notes = {}
    BY <1>0, <2>2 DEF Sourced, Notes
  <2>4. m \in Unknown => t \in S
    BY <1>0, <2>1, <2>3 DEF Missing
  <2>5. t \in S => m \in Unknown
    <3>1. ASSUME NEW j \in DOMAIN rows, Missing(rows[j]), rows[j].term = t PROVE m \in Unknown
      BY <1>1, <2>1, <2>3, <3>1 DEF Missing, RowsMade
    <3>. QED  BY <1>0, <3>1
  <2>6. Answered(t)' = IF m \in Unknown THEN answers'[t] ELSE ""
    BY <1>0, <2>4, <2>5 DEF Answered
  <2>7. PICK a : a = answers'[t]
    OBVIOUS
  <2>8. m \in Unknown => a \in Unknown \cup Given \cup FilledIn
    BY <1>0, <2>4, <2>7, Words
  <2>9. G[k] = IF m \in Unknown /\ a # ""
               THEN [r EXCEPT !.meaning = a, !.notes = @ \cup {"English"}] ELSE r
    BY <1>2, <2>1, <2>3, <2>7 DEF Missing
  <2>10. Looked(t)' = m
    BY <1>0, <2>1, SameBest
  <2>11. Told(t)' <=> m \in Unknown /\ a # ""
    BY <2>6, <2>7, <2>10 DEF Told
  <2>12. /\ Meaning(t)' = IF m \in Unknown /\ a # "" THEN a ELSE m
         /\ Notes(t)' = IF m \in Unknown /\ a # "" THEN {"English"} ELSE {}
    BY <1>0, <2>6, <2>7, <2>10, <2>11 DEF Meaning, Translated, Notes
  <2>13. CASE m \in Unknown /\ a # ""
    <3>1. PICK new : new = [r EXCEPT !.meaning = a, !.notes = @ \cup {"English"}]
      OBVIOUS
    <3>2. new \in Row /\ new.term = t /\ new.meaning = a /\ new.notes = {"English"}
      BY <2>1, <2>2, <2>3, <2>8, <2>13, <3>1 DEF Row
    <3>3. G[k] = new
      BY <2>9, <2>13, <3>1
    <3>. QED  BY <2>1, <2>12, <2>13, <3>2, <3>3 DEF Sourced
  <2>14. CASE ~(m \in Unknown /\ a # "")
    BY <2>1, <2>2, <2>3, <2>9, <2>12, <2>14 DEF Sourced
  <2>. QED  BY <2>13, <2>14
<1>5. pc \in After /\ pc' \in After
  BY <1>0 DEF After
<1>6. /\ DOMAIN answers' \subseteq {rows[k].term : k \in DOMAIN rows}
      /\ \A t \in DOMAIN answers' : answers'[t] \in Unknown \cup {"English"}
  BY <1>0
<1>. QED  BY <1>0, <1>1, <1>3, <1>4, <1>5, <1>6, RowsChanged

LEMMA DecomposeRows ==
    ASSUME Extraction, RowsInv, Decompose
    PROVE  RowsInv'
<1>0. /\ pc = "decompose"
      /\ rows' = IF input.settings.decompose THEN [k \in DOMAIN rows |-> DecomposeRow(rows[k])]
                 ELSE rows
      /\ pc' = "link"
      /\ UNCHANGED <<input, items, answers>>
  BY DEF Decompose
<1>1. RowsMade /\ items \in Seq(Card) /\ AnswersTyped
  BY <1>0 DEF RowsInv, After, Extraction, ExtractTypeOK
<1>2. PICK G : G = [k \in DOMAIN rows |->
                       IF input.settings.decompose THEN DecomposeRow(rows[k]) ELSE rows[k]]
  OBVIOUS
<1>3. rows' = [k \in DOMAIN rows |-> G[k]]
  <2>1. rows = [k \in DOMAIN rows |-> rows[k]]
    BY <1>1 DEF RowsMade
  <2>. QED  BY <1>0, <1>2, <2>1
<1>4. ASSUME NEW k \in DOMAIN rows
      PROVE  /\ G[k] \in Row /\ G[k].term = rows[k].term
             /\ Sourced(G[k], Meaning(G[k].term)', Notes(G[k].term)')
  <2>1. PICK r, t, m, p : /\ r = rows[k] /\ t = r.term /\ m = Translated(t)
                          /\ p = IF PartsMeaning(t) # "" THEN PartsMeaning(t) ELSE m
    OBVIOUS
  <2>2. r \in Row /\ Sourced(r, m, Notes(t)) /\ m \in Unknown \cup Given \cup {"gloss", "English"}
    BY <1>0, <1>1, <2>1, RowFacts, MeaningTypes DEF Meaning
  <2>3. r.meaning = m
    BY <2>2 DEF Sourced
  <2>4. r.notes = {n \in {"English", "parts"} : n = "English" /\ Told(t)}
    BY <1>0, <2>2 DEF Sourced, Notes
  <2>5. p \in Unknown \cup Given \cup FilledIn
    BY <1>1, <2>1, <2>2, SourceTypes, Words
  <2>6. G[k] = IF PutTogether(t)
               THEN [r EXCEPT !.meaning = p, !.notes = @ \cup {"parts"}] ELSE r
    <3>1. [r EXCEPT !.meaning = IF PartsMeaning(r.term) # "" THEN PartsMeaning(r.term) ELSE @,
                    !.notes = @ \cup {"parts"}]
          = [r EXCEPT !.meaning = p, !.notes = @ \cup {"parts"}]
      BY <2>1, <2>2, <2>3 DEF Row
    <3>2. PutTogether(t) <=> /\ input.settings.decompose
                         /\ Missing(r) /\ r.term \notin Headwords
                         /\ Decomposable(r.term, Headwords)
      BY <2>1, <2>3 DEF PutTogether, HasParts, Missing
    <3>. QED  BY <1>2, <2>1, <3>1, <3>2 DEF DecomposeRow
  <2>7. /\ Told(t)' = Told(t) /\ PutTogether(t)' = PutTogether(t) /\ InParts(t)' = InParts(t)
    BY <1>0, SameMeaning
  <2>8. /\ Meaning(t)' = IF PutTogether(t) THEN p ELSE m
        /\ Notes(t)' = {n \in {"English", "parts"} : \/ n = "English" /\ Told(t)
                                                     \/ n = "parts" /\ PutTogether(t)}
    BY <1>0, <2>1, <2>7 DEF Meaning, InParts, Notes
  <2>9. CASE PutTogether(t)
    <3>1. Notes(t)' = r.notes \cup {"parts"}
      BY <2>4, <2>8, <2>9
    <3>2. PICK new : new = [r EXCEPT !.meaning = p, !.notes = @ \cup {"parts"}]
      OBVIOUS
    <3>3. /\ new \in Row /\ new.term = t /\ new.meaning = p
          /\ new.notes = r.notes \cup {"parts"}
      BY <2>1, <2>2, <2>5, <3>2 DEF Row
    <3>4. G[k] = new
      BY <2>6, <2>9, <3>2
    <3>. QED  BY <2>1, <2>8, <2>9, <3>1, <3>3, <3>4 DEF Sourced
  <2>10. CASE ~PutTogether(t)
    <3>1. Notes(t)' = r.notes
      BY <2>4, <2>8, <2>10
    <3>. QED  BY <2>1, <2>2, <2>3, <2>6, <2>8, <2>10, <3>1 DEF Sourced
  <2>. QED  BY <2>9, <2>10
<1>5. pc \in After /\ pc' \in After
  BY <1>0 DEF After
<1>. QED  BY <1>0, <1>1, <1>3, <1>4, <1>5, RowsChanged DEF AnswersTyped

LEMMA MadeRows ==
    ASSUME Extraction, RowsInv, MakeRows
    PROVE  RowsInv'
<1>. DEFINE Begin(c) == [term |-> c.term, meaning |-> c.meaning, notes |-> {}, sentences |-> <<>>]
<1>0. /\ pc = "extract" /\ pc' = "enrich"
      /\ rows' = [i \in DOMAIN Dedupe(items) |-> Begin(Dedupe(items)[i])]
      /\ UNCHANGED <<input, items, answers>>
  BY DEF MakeRows
<1>1. DOMAIN answers' = {} /\ items \in Seq(Card)
  BY <1>0 DEF RowsInv, Extraction, ExtractTypeOK
<1>2. PICK D : D = Dedupe(items)
  OBVIOUS
<1>3. Deduped(items, Len(items), D)
  BY <1>1, <1>2, DedupeFacts
<1>4. PICK m \in Nat : m = Len(D) /\ DOMAIN D = 1..m
  BY <1>3 DEF Deduped
<1>5. rows' = [k \in 1..m |-> Begin(D[k])]
  BY <1>0, <1>2, <1>4
<1>6. \A k \in 1..m : D[k].term # <<>> /\ \E j \in 1..Len(items) : D[k] = items[j] /\ Best(items, Len(items), j)
  BY <1>3, <1>4 DEF Deduped
<1>7. ASSUME NEW k \in 1..m
      PROVE  Begin(D[k]) \in Row /\ Begin(D[k]).term = D[k].term
             /\ Begin(D[k]).meaning = BestItem(D[k].term).meaning /\ Begin(D[k]).notes = {}
             /\ BestItem(D[k].term).meaning \in Unknown \cup Given
  <2>1. D[k] \in [term : Seq(Nat), meaning : Unknown \cup Given] /\ D[k].term # <<>>
    <3>1. D[k] \in Card
      BY <1>3, <1>4 DEF Deduped
    <3>. QED  BY <1>6, <3>1 DEF Card
  <2>2. BestItem(D[k].term) = D[k]
    BY <1>1, <1>6, BestIsOne
  <2>3. <<>> \in Seq(Seq(Nat))
    OBVIOUS
  <2>4. PICK c : c = D[k]
    OBVIOUS
  <2>5. Begin(c) \in Row
    BY <2>1, <2>3, <2>4 DEF Row
  <2>. QED  BY <2>1, <2>2, <2>4, <2>5
<1>. HIDE DEF Begin
<1>8. rows' \in Seq(Row) /\ Len(rows') = m /\ DOMAIN rows' = 1..m
  <2>1. rows' \in [1..m -> Row]
    BY <1>5, <1>7
  <2>. QED  BY <2>1, FunctionSeq
<1>9. \A k \in 1..m : rows'[k] = Begin(D[k]) /\ rows'[k].term = D[k].term
  BY <1>5, <1>7
<1>10. \A k, l \in DOMAIN rows' : rows'[k].term = rows'[l].term => k = l
  BY <1>3, <1>4, <1>8, <1>9 DEF Deduped
<1>11. DOMAIN items' = 1..Len(items) /\ items' = items
  BY <1>0, <1>1
<1>12. \A k \in DOMAIN rows' : \E j \in DOMAIN items' : items'[j].term = rows'[k].term
  BY <1>6, <1>8, <1>9, <1>11
<1>13. \A j \in DOMAIN items' : items'[j].term # <<>> =>
          \E k \in DOMAIN rows' : rows'[k].term = items'[j].term
  <2>1. \A j \in 1..Len(items) : items[j].term # <<>> => \E k \in 1..m : D[k].term = items[j].term
    BY <1>3, <1>4 DEF Deduped
  <2>. QED  BY <1>8, <1>9, <1>11, <2>1
<1>14. (\A k \in DOMAIN rows :
           Sourced(rows[k], Meaning(rows[k].term), Notes(rows[k].term)))'
  <2>1. ASSUME NEW k \in 1..m
        PROVE  Sourced(rows[k], Meaning(rows[k].term), Notes(rows[k].term))'
    <3>1. PICK x, t : x = Begin(D[k]) /\ t = D[k].term
      OBVIOUS
    <3>2. rows'[k] = x /\ x.term = t
      BY <1>7, <1>9, <3>1
    <3>3. Meaning(t)' = BestItem(t).meaning /\ Notes(t)' = {}
      BY <1>0, SameBest DEF Meaning, Notes
    <3>4. x.meaning = BestItem(t).meaning /\ x.notes = {}
      BY <1>7, <3>1
    <3>5. Sourced(x, Meaning(t)', Notes(t)')
      BY <3>3, <3>4 DEF Sourced
    <3>. QED  BY <3>2, <3>5
  <2>. QED  BY <1>8, <2>1
<1>15. RowsMade'
  BY <1>8, <1>10, <1>12, <1>13, <1>14 DEF RowsMade
<1>. QED  BY <1>0, <1>1, <1>15 DEF RowsInv, AnswersTyped

\* The steps that do not touch the rows.
LEMMA RowsLeft ==
    ASSUME RowsInv, UNCHANGED <<input, rows, answers>>,
           \/ pc \in {"extract", "ask"} /\ pc' \in {"extract", "ask"}
           \/ pc' = pc /\ items' = items
    PROVE  RowsInv'
<1>0. AnswersTyped'
  BY DEF RowsInv, AnswersTyped
<1>1. CASE pc \in {"extract", "ask"} /\ pc' \in {"extract", "ask"}
  BY <1>0, <1>1 DEF RowsInv, After
<1>2. CASE pc' = pc /\ items' = items
  <2>1. ASSUME RowsMade PROVE RowsMade'
    <3>1. ASSUME NEW k \in DOMAIN rows
          PROVE  Sourced(rows[k], Meaning(rows[k].term), Notes(rows[k].term))'
      <4>1. PICK r, t : r = rows[k] /\ t = r.term
        OBVIOUS
      <4>2. Sourced(r, Meaning(t), Notes(t))
        BY <2>1, <4>1 DEF RowsMade
      <4>3. Meaning(t)' = Meaning(t)
        BY <1>2, SameBest, SameMeaning DEF Meaning
      <4>4. Notes(t)' = Notes(t)
        BY <1>2, SameMeaning DEF Notes
      <4>5. rows'[k] = r
        BY <4>1
      <4>. QED  BY <4>1, <4>2, <4>3, <4>4, <4>5
    <3>. QED  BY <1>2, <2>1, <3>1 DEF RowsMade
  <2>. QED  BY <1>0, <1>2, <2>1 DEF RowsInv
<1>. QED  BY <1>1, <1>2

----------------------------------------------------------------------------
(* The sentences *)

\* Each link is to the first key of a term that occurs in the sentence.
LinkSound(l) ==
    /\ l \in Link
    /\ l.match \in AllMatches(l.sentence, AllTerms)
    /\ KeysFor(l.match.term) # {} /\ l.key = Min(KeysFor(l.match.term))

\* Rows get their sentences from their links.
LinksInv ==
    /\ said \in Seq(Seq(Nat))
    /\ links \in Seq(Link)
    /\ pc \notin {"link", "done"} => links = <<>>
    /\ \A i \in DOMAIN links : LinkSound(links[i])
    /\ pc = "done" =>
          \A k \in DOMAIN rows : \A s \in ToSet(rows[k].sentences) :
              \E i \in DOMAIN links : links[i].key = k /\ links[i].sentence = s

LEMMA TermsProper ==
    ASSUME rows \in Seq(Row), IsInput(input)
    PROVE  /\ ProperTerms(AllTerms)
           /\ \A t \in AllTerms : KeysFor(t) # {} /\ KeysFor(t) \subseteq Nat
<1>1. ASSUME NEW k \in DOMAIN rows PROVE rows[k].term \in Seq(Nat) \ {<<>>} /\ k \in Nat
  <2>1. rows[k] \in Row /\ k \in Nat
    OBVIOUS
  <2>. QED  BY <2>1 DEF Row
<1>2. ASSUME NEW p \in input.prior PROVE p.term \in Seq(Nat) \ {<<>>} /\ p.key \in Nat
  <2>1. p \in [term : Seq(Nat) \ {<<>>}, key : Nat \ {0}]
    BY DEF IsInput
  <2>. QED  BY <2>1
<1>. QED  BY <1>1, <1>2 DEF ProperTerms, AllTerms, KeysFor

\* What is linked depends on the terms of the rows alone.
LEMMA SameTerms ==
    ASSUME input' = input, DOMAIN rows' = DOMAIN rows,
           \A k \in DOMAIN rows : rows'[k].term = rows[k].term
    PROVE  /\ AllTerms' = AllTerms
           /\ \A l : LinkSound(l) => LinkSound(l)'
<1>1. AllTerms' = AllTerms
  BY DEF AllTerms
<1>2. ASSUME NEW t PROVE KeysFor(t)' = KeysFor(t)
  BY DEF KeysFor
<1>3. ASSUME NEW l, LinkSound(l) PROVE LinkSound(l)'
  <2>1. PICK t : t = l.match.term
    OBVIOUS
  <2>2. KeysFor(t)' = KeysFor(t)
    BY <1>2
  <2>. QED  BY <1>1, <1>3, <2>1, <2>2 DEF LinkSound
<1>. QED  BY <1>1, <1>3

LEMMA LinkOne ==
    ASSUME RowsMade, LinksInv, IsInput(input), LinkSentence
    PROVE  LinksInv'
<1>0. /\ pc = "link" /\ pc' = pc /\ said # <<>> /\ said' = Tail(said) /\ UNCHANGED <<input, rows>>
  BY DEF LinkSentence
<1>1. said \in Seq(Seq(Nat)) /\ links \in Seq(Link) /\ rows \in Seq(Row)
  BY DEF LinksInv, RowsMade
<1>2. Head(said) \in Seq(Nat) /\ said' \in Seq(Seq(Nat))
  BY <1>0, <1>1
<1>3. PICK s, kept : s = Head(said) /\ kept = DominantMatches(s, AllTerms)
  OBVIOUS
<1>4. s \in Seq(Nat)
  BY <1>2, <1>3
<1>5. ProperTerms(AllTerms) /\ \A t \in AllTerms : KeysFor(t) # {} /\ KeysFor(t) \subseteq Nat
  BY <1>1, TermsProper
<1>6. kept \subseteq AllMatches(s, AllTerms)
  <2>1. Dominates(s, AllTerms, 1)
    BY <1>4, <1>5, DominantFacts
  <2>. QED  BY <1>3, <2>1 DEF Dominates, DominantMatches
<1>7. \A l : LinkSound(l) => LinkSound(l)'
  BY <1>0, SameTerms
<1>8. PICK winners : winners = Winners(kept, Frequency, input.settings.strategy)
  OBVIOUS
<1>9. winners \subseteq kept
  BY <1>8 DEF Winners
<1>10. IF winners = {} THEN links' = links
       ELSE \E m \in winners :
                links' = Append(links, [sentence |-> s, match |-> m, key |-> Min(KeysFor(m.term))])
  BY <1>3, <1>8 DEF LinkSentence
<1>11. ASSUME NEW m \in winners
       PROVE  LinkSound([sentence |-> s, match |-> m, key |-> Min(KeysFor(m.term))])
  <2>1. m \in AllMatches(s, AllTerms)
    BY <1>6, <1>9
  <2>2. /\ Len(s) \in Nat /\ m.term \in AllTerms /\ m.start \in 1..Len(s)
        /\ m.end \in (m.start + 1) .. (Len(s) + 1)
        /\ m = [term |-> m.term, start |-> m.start, end |-> m.end]
    BY <1>4, <1>5, <2>1, MatchFacts
  <2>3. m.term \in Seq(Nat) /\ m.start \in Nat /\ m.end \in Nat
    BY <1>5, <2>2 DEF ProperTerms
  <2>4. m \in [term : Seq(Nat), start : Nat, end : Nat]
    BY <2>2, <2>3
  <2>5. KeysFor(m.term) # {} /\ Min(KeysFor(m.term)) \in Nat
    BY <1>5, <2>2, MinLeast
  <2>. QED  BY <1>4, <2>1, <2>4, <2>5 DEF LinkSound, Link
<1>12. \A l : LinkSound(l) => l \in Link
  BY DEF LinkSound
<1>13. links' \in Seq(Link) /\ \A i \in DOMAIN links' : LinkSound(links'[i])
  <2>1. \A i \in DOMAIN links : LinkSound(links[i])
    BY DEF LinksInv
  <2>2. CASE winners = {}
    BY <1>1, <1>10, <2>1, <2>2
  <2>3. CASE winners # {}
    <3>1. PICK l : LinkSound(l) /\ links' = Append(links, l)
      BY <1>10, <1>11, <2>3
    <3>2. l \in Link
      BY <1>12, <3>1
    <3>3. /\ links' \in Seq(Link) /\ Len(links') = Len(links) + 1
          /\ \A i \in 1..Len(links) : links'[i] = links[i]
          /\ links'[Len(links) + 1] = l /\ Len(links) \in Nat
      BY <1>1, <3>1, <3>2
    <3>4. \A i \in 1..(Len(links) + 1) : i \in 1..Len(links) \/ i = Len(links) + 1
      BY <3>3
    <3>5. DOMAIN links = 1..Len(links) /\ DOMAIN links' = 1..(Len(links) + 1)
      BY <1>1, <3>3
    <3>. QED  BY <2>1, <3>1, <3>3, <3>4, <3>5
  <2>. QED  BY <2>2, <2>3
<1>14. ASSUME NEW i \in DOMAIN links' PROVE LinkSound(links[i])'
  <2>1. PICK l : l = links'[i]
    OBVIOUS
  <2>2. LinkSound(l)'
    BY <1>7, <1>13, <2>1
  <2>. QED  BY <2>1, <2>2
<1>. QED  BY <1>0, <1>2, <1>13, <1>14 DEF LinksInv

\* The links to a key, the first of them, and their sentences.
Mine(k) == Picked(links, {i \in DOMAIN links : links[i].key = k})
FirstOnes(k) == SubSeq(Mine(k), 1, Min({SentencesPerTerm, Len(Mine(k))}))
Filled(k) == [i \in DOMAIN FirstOnes(k) |-> FirstOnes(k)[i].sentence]

LEMMA MineLinked ==
    ASSUME links \in Seq(Link), NEW k
    PROVE  /\ Mine(k) \in Seq(Link)
           /\ \A j \in 1..Len(Mine(k)) : \E i \in DOMAIN links :
                 links[i].key = k /\ Mine(k)[j] = links[i]
<1>1. PICK l \in Seq(Link) : l = links
  OBVIOUS
<1>2. PICK I : I = {i \in DOMAIN l : l[i].key = k}
  OBVIOUS
<1>3. PICK mine : mine = Picked(l, I)
  OBVIOUS
<1>4. mine \in Seq(Link) /\ IsPick(mine, l, I)
  BY <1>3, PickedElements
<1>5. \A j \in 1..Len(mine) : \E i \in 1..Len(l) : i \in I /\ mine[j] = l[i]
  BY <1>4 DEF IsPick
<1>6. \A j \in 1..Len(mine) : \E i \in DOMAIN l : l[i].key = k /\ mine[j] = l[i]
  BY <1>2, <1>5
<1>7. mine = Mine(k)
  BY <1>1, <1>2, <1>3 DEF Mine
<1>. QED  BY <1>1, <1>4, <1>6, <1>7

LEMMA FirstLinked ==
    ASSUME links \in Seq(Link), NEW k
    PROVE  /\ FirstOnes(k) \in Seq(Link)
           /\ \A j \in 1..Len(FirstOnes(k)) : \E i \in DOMAIN links :
                 links[i].key = k /\ FirstOnes(k)[j] = links[i]
<1>1. PICK mine : mine = Mine(k)
  OBVIOUS
<1>2. /\ mine \in Seq(Link) /\ Len(mine) \in Nat
      /\ \A j \in 1..Len(mine) : \E i \in DOMAIN links : links[i].key = k /\ mine[j] = links[i]
  BY <1>1, MineLinked
<1>3. PICK e \in Nat : e = Min({SentencesPerTerm, Len(mine)}) /\ e <= Len(mine)
  <2>1. SentencesPerTerm \in Nat /\ Len(mine) \in Nat
    BY <1>2, LimitsType
  <2>2. {SentencesPerTerm, Len(mine)} \subseteq Nat /\ {SentencesPerTerm, Len(mine)} # {}
    BY <2>1
  <2>3. /\ Min({SentencesPerTerm, Len(mine)}) \in {SentencesPerTerm, Len(mine)}
        /\ \A x \in {SentencesPerTerm, Len(mine)} : Min({SentencesPerTerm, Len(mine)}) <= x
    BY <2>2, MinLeast
  <2>. QED  BY <2>1, <2>3
<1>4. PICK first : first = SubSeq(mine, 1, e)
  OBVIOUS
<1>5. \A i \in 1..e : i \in 1..Len(mine) /\ mine[i] \in Link
  BY <1>2, <1>3
<1>6. /\ first \in Seq(Link)
      /\ Len(first) = IF 1 <= e THEN e - 1 + 1 ELSE 0
      /\ \A i \in 1..(e - 1 + 1) : first[i] = mine[1 + i - 1]
  <2>1. 1 \in Int /\ e \in Int
    BY <1>3
  <2>. QED  BY <1>4, <1>5, <2>1, SubSeqProperties
<1>7. Len(first) = e
  BY <1>3, <1>6
<1>8. ASSUME NEW j \in 1..Len(first)
      PROVE  \E i \in DOMAIN links : links[i].key = k /\ first[j] = links[i]
  <2>1. j \in 1..(e - 1 + 1) /\ 1 + j - 1 = j /\ j \in 1..Len(mine)
    BY <1>2, <1>3, <1>7
  <2>2. first[j] = mine[j]
    BY <1>6, <2>1
  <2>. QED  BY <1>2, <2>1, <2>2
<1>9. first = FirstOnes(k)
  BY <1>1, <1>3, <1>4 DEF FirstOnes
<1>. QED  BY <1>6, <1>8, <1>9

\* A row is filled with sentences that are linked to its key.
LEMMA FillRow ==
    ASSUME links \in Seq(Link), NEW k
    PROVE  /\ Filled(k) \in Seq(Seq(Nat))
           /\ \A s \in ToSet(Filled(k)) : \E i \in DOMAIN links : links[i].key = k /\ links[i].sentence = s
<1>1. PICK first : first = FirstOnes(k)
  OBVIOUS
<1>2. /\ first \in Seq(Link)
      /\ \A j \in 1..Len(first) : \E i \in DOMAIN links : links[i].key = k /\ first[j] = links[i]
  BY <1>1, FirstLinked
<1>3. PICK m \in Nat : m = Len(first) /\ DOMAIN first = 1..m
  BY <1>2
<1>4. PICK T : T = Seq(Nat)
  OBVIOUS
<1>5. \A i \in 1..m : first[i].sentence \in T
  <2>1. \A l \in Link : l.sentence \in T
    BY <1>4 DEF Link
  <2>. QED  BY <1>2, <1>3, <2>1
<1>6. PICK f : f = [i \in 1..m |-> first[i].sentence]
  OBVIOUS
<1>7. f \in Seq(T) /\ DOMAIN f = 1..m
  <2>1. f \in [1..m -> T]
    BY <1>5, <1>6
  <2>. QED  BY <2>1, FunctionSeq
<1>8. ASSUME NEW s \in ToSet(f)
      PROVE  \E i \in DOMAIN links : links[i].key = k /\ links[i].sentence = s
  <2>1. PICK j \in 1..m : s = first[j].sentence
    BY <1>6, <1>7, <1>8 DEF ToSet
  <2>. QED  BY <1>2, <1>3, <2>1
<1>9. f = Filled(k)
  BY <1>1, <1>3, <1>6 DEF Filled
<1>. QED  BY <1>4, <1>7, <1>8, <1>9

LEMMA FillRows ==
    ASSUME Extraction, RowsInv, LinksInv, FillSentences
    PROVE  RowsInv' /\ LinksInv'
<1>0. /\ pc = "link" /\ pc' = "done"
      /\ rows' = [k \in DOMAIN rows |-> [rows[k] EXCEPT !.sentences = Filled(k)]]
      /\ UNCHANGED <<input, items, answers, links, said>>
  BY DEF FillSentences, Filled, FirstOnes, Mine
<1>1. RowsMade /\ items \in Seq(Card) /\ links \in Seq(Link)
  BY <1>0 DEF RowsInv, After, Extraction, ExtractTypeOK, LinksInv
<1>2. ASSUME NEW k \in DOMAIN rows
      PROVE  /\ Filled(k) \in Seq(Seq(Nat))
             /\ \A s \in ToSet(Filled(k)) :
                   \E i \in DOMAIN links : links[i].key = k /\ links[i].sentence = s
  BY <1>1, FillRow
<1>3. PICK G : G = [k \in DOMAIN rows |-> [rows[k] EXCEPT !.sentences = Filled(k)]]
  OBVIOUS
<1>4. rows' = [k \in DOMAIN rows |-> G[k]]
  BY <1>0, <1>3
<1>5. ASSUME NEW k \in DOMAIN rows
      PROVE  /\ G[k] \in Row /\ G[k].term = rows[k].term /\ G[k].sentences = Filled(k)
             /\ Sourced(G[k], Meaning(G[k].term)', Notes(G[k].term)')
  <2>1. PICK r, t, f : r = rows[k] /\ t = r.term /\ f = Filled(k)
    OBVIOUS
  <2>2. r \in Row /\ Sourced(r, InParts(t), Notes(t)) /\ f \in Seq(Seq(Nat))
    BY <1>0, <1>1, <1>2, <2>1, RowFacts DEF Meaning
  <2>3. G[k] = [r EXCEPT !.sentences = f]
    BY <1>3, <2>1
  <2>4. /\ G[k] \in Row /\ G[k].term = t /\ G[k].sentences = f
        /\ G[k].meaning = r.meaning /\ G[k].notes = r.notes
    BY <2>1, <2>2, <2>3 DEF Row
  <2>5. Meaning(t)' = InParts(t)
    BY <1>0, SameMeaning DEF Meaning
  <2>6. Notes(t)' = Notes(t)
    BY <1>0, SameMeaning DEF Notes
  <2>. QED  BY <2>1, <2>2, <2>4, <2>5, <2>6 DEF Sourced
<1>6. pc \in After /\ pc' \in After
  BY <1>0 DEF After
<1>7. AnswersTyped
  BY DEF RowsInv
<1>8. RowsInv'
  BY <1>0, <1>1, <1>4, <1>5, <1>6, <1>7, RowsChanged DEF AnswersTyped
<1>9. DOMAIN rows' = DOMAIN rows /\ \A k \in DOMAIN rows : rows'[k] = G[k]
  BY <1>4
<1>10. \A l : LinkSound(l) => LinkSound(l)'
  BY <1>0, <1>5, <1>9, SameTerms
<1>11. ASSUME NEW i \in DOMAIN links PROVE LinkSound(links[i])'
  <2>1. PICK l : l = links[i]
    OBVIOUS
  <2>2. LinkSound(l)'
    BY <1>10, <2>1 DEF LinksInv
  <2>. QED  BY <1>0, <2>1, <2>2
<1>12. \A k \in DOMAIN rows' : \A s \in ToSet(rows'[k].sentences) :
          \E i \in DOMAIN links : links[i].key = k /\ links[i].sentence = s
  BY <1>2, <1>5, <1>9
<1>13. LinksInv'
  <2>1. said' \in Seq(Seq(Nat)) /\ links' \in Seq(Link)
    BY <1>0 DEF LinksInv
  <2>2. (\A i \in DOMAIN links : LinkSound(links[i]))'
    BY <1>0, <1>11
  <2>3. pc' = "done" /\ links' = links
    BY <1>0
  <2>4. \A k \in DOMAIN rows' : \A s \in ToSet(rows'[k].sentences) :
            \E i \in DOMAIN links' : links'[i].key = k /\ links'[i].sentence = s
    BY <1>12, <2>3
  <2>. QED  BY <2>1, <2>2, <2>3, <2>4 DEF LinksInv
<1>. QED  BY <1>8, <1>13

\* The steps before any link.
LEMMA LinksEmpty ==
    ASSUME LinksInv, pc \notin {"link", "done"}, pc' # "done", UNCHANGED links,
           said' \in Seq(Seq(Nat))
    PROVE  LinksInv'
<1>1. links' = <<>>
  BY DEF LinksInv
<1>. QED  BY <1>1 DEF LinksInv

LEMMA DialogueTyped ==
    ASSUME IsInput(input)
    PROVE  DialogueSentences(Text) \in Seq(Seq(Nat))
<1>1. Text \in Seq(Line) /\ \A x \in Line : x.says \in Seq(Nat)
  BY InputFacts, LineFacts
<1>. QED  BY <1>1, DialogueType

LEMMA NextRows ==
    ASSUME Extraction, RowsInv, LinksInv, [Next]_vars
    PROVE  RowsInv' /\ LinksInv'
<1>0. said \in Seq(Seq(Nat))
  BY DEF LinksInv
<1>1. CASE ExtractTable \/ ExtractText \/ NextChunk \/ Answer \/ RetryAnswer \/ FailAnswer
  <2>1. UNCHANGED <<input, rows, answers, links, said>>
    BY <1>1 DEF ExtractTable, ExtractText, NextChunk, Answer, RetryAnswer, FailAnswer
  <2>2. pc \in {"extract", "ask"}
    BY <1>1 DEF ExtractTable, ExtractText, NextChunk, Answer, RetryAnswer, FailAnswer
  <2>3. pc' \in {"extract", "ask", "raised"}
    BY <1>1 DEF ExtractTable, ExtractText, NextChunk, Answer, RetryAnswer, FailAnswer, Come
  <2>4. Extraction'
    BY <1>1, NextPlace DEF Next
  <2>5. pc' # "raised"
    BY <2>3, <2>4 DEF Extraction, InPlace
  <2>6. pc' \in {"extract", "ask"}
    BY <2>3, <2>5
  <2>. QED  BY <1>0, <2>1, <2>2, <2>6, RowsLeft, LinksEmpty
<1>2. CASE MakeRows
  <2>1. /\ pc = "extract" /\ pc' = "enrich" /\ UNCHANGED <<links, said>>
    BY <1>2 DEF MakeRows
  <2>2. LinksInv'
    BY <1>0, <2>1, LinksEmpty
  <2>. QED  BY <1>2, <2>2, MadeRows
<1>3. CASE Enrich
  <2>1. pc = "enrich" /\ pc' \in {"translate", "decompose"} /\ UNCHANGED <<links, said>>
    BY <1>3 DEF Enrich
  <2>2. LinksInv'
    BY <1>0, <2>1, LinksEmpty
  <2>. QED  BY <1>3, <2>2, EnrichRows
<1>4. CASE Translate
  <2>1. pc = "translate" /\ pc' = "decompose" /\ UNCHANGED <<links, said>>
    BY <1>4 DEF Translate
  <2>2. LinksInv'
    BY <1>0, <2>1, LinksEmpty
  <2>. QED  BY <1>4, <2>2, TranslateRows
<1>5. CASE Decompose
  <2>1. /\ pc = "decompose" /\ pc' = "link" /\ links' = links
        /\ said' = IF input.settings.sentences THEN DialogueSentences(Text) ELSE <<>>
    BY <1>5 DEF Decompose
  <2>2. said' \in Seq(Seq(Nat))
    <3>1. <<>> \in Seq(Seq(Nat))
      OBVIOUS
    <3>2. DialogueSentences(Text) \in Seq(Seq(Nat))
      BY DialogueTyped DEF Extraction, ExtractTypeOK
    <3>. QED  BY <2>1, <3>1, <3>2
  <2>3. LinksInv'
    BY <2>1, <2>2, LinksEmpty
  <2>. QED  BY <1>5, <2>3, DecomposeRows
<1>6. CASE LinkSentence
  <2>1. pc = "link" /\ pc' = pc /\ UNCHANGED <<input, rows, answers, items>>
    BY <1>6 DEF LinkSentence
  <2>2. RowsMade /\ IsInput(input)
    BY <2>1 DEF RowsInv, After, Extraction, ExtractTypeOK
  <2>. QED  BY <1>6, <2>1, <2>2, RowsLeft, LinkOne
<1>7. CASE FillSentences
  BY <1>7, FillRows
<1>8. CASE UNCHANGED vars
  <2>1. pc' = pc /\ UNCHANGED <<input, rows, answers, items, links, said>>
    BY <1>8 DEF vars
  <2>2. RowsInv'
    BY <2>1, RowsLeft
  <2>3. \A l : LinkSound(l) => LinkSound(l)'
    BY <2>1, SameTerms
  <2>4. ASSUME NEW i \in DOMAIN links PROVE LinkSound(links[i])'
    <3>1. PICK l : l = links[i]
      OBVIOUS
    <3>2. LinkSound(l)'
      BY <2>3, <3>1 DEF LinksInv
    <3>. QED  BY <2>1, <3>1, <3>2
  <2>5. (\A i \in DOMAIN links : LinkSound(links[i]))'
    BY <2>1, <2>4
  <2>6. LinksInv'
    BY <2>1, <2>5 DEF LinksInv
  <2>. QED  BY <2>2, <2>6
<1>. QED  BY <1>1, <1>2, <1>3, <1>4, <1>5, <1>6, <1>7, <1>8 DEF Next

\* The rows and the links are as they should be in every state.
LEMMA RowsHold == Spec => [](RowsInv /\ LinksInv)
<1>1. ASSUME Init PROVE RowsInv /\ LinksInv
  <2>1. pc = "extract" /\ rows = <<>> /\ answers = <<>> /\ links = <<>> /\ said = <<>>
    BY <1>1 DEF Init
  <2>2. DOMAIN answers = {}
    BY <2>1
  <2>. QED  BY <2>1, <2>2 DEF RowsInv, LinksInv, After, AnswersTyped
<1>2. Extraction /\ (RowsInv /\ LinksInv) /\ [Next]_vars => (RowsInv /\ LinksInv)'
  BY NextRows
<1>3. Init => RowsInv /\ LinksInv
  BY <1>1
<1>. QED  BY <1>2, <1>3, ExtractionHolds, PTL DEF Spec

\* No unit failed that is not in the list.
LEMMA FailedListed ==
    ASSUME Extraction
    PROVE  failed \subseteq DOMAIN Units
<1>1. PICK V : V = UnitsUpTo(Text, Blocks(Text))
  OBVIOUS
<1>2. /\ unit \in Nat /\ unit >= 1 /\ Len(chunks) \in Nat /\ failed \subseteq 1..(unit - 1)
      /\ Len(todo) \in Nat /\ Len(Blocks(Text)) \in Nat /\ Len(todo) <= Len(Blocks(Text))
      /\ Len(Units) \in Nat /\ DOMAIN Units = 1..Len(Units)
  BY InputFacts DEF Extraction, InPlace, ExtractTypeOK
<1>3. CASE pc \in {"extract", "ask"}
  <2>1. Begun \in 0..Len(Blocks(Text))
    BY <1>2 DEF Begun
  <2>2. Len(V[Begun]) <= Len(Units)
    <3>1. Continues(Units, V[Begun])
      BY <1>1, <2>1, InputFacts DEF Extraction, ExtractTypeOK
    <3>. QED  BY <3>1 DEF Continues
  <2>3. unit - 1 + Asking + Len(chunks) = Len(V[Begun])
    BY <1>1, <1>3 DEF Extraction, InPlace
  <2>4. Asking \in {0, 1}
    BY DEF Asking
  <2>5. unit - 1 <= Len(Units)
    BY <1>2, <2>2, <2>3, <2>4
  <2>. QED  BY <1>2, <2>5
<1>4. CASE pc \notin {"extract", "ask"}
  <2>1. unit = Len(Units) + 1
    BY <1>4 DEF Extraction, InPlace
  <2>. QED  BY <1>2, <2>1
<1>. QED  BY <1>3, <1>4

LEMMA AllTyped ==
    ASSUME Extraction, RowsInv, LinksInv
    PROVE  TypeOK
<1>1. /\ IsInput(input)
      /\ pc \in {"extract", "ask", "raised", "enrich", "translate", "decompose", "link", "done"}
      /\ chunks \in Seq([from : Nat, to : Nat])
      /\ current \in [from : Nat, to : Nat]
      /\ unit \in Nat
      /\ attempt \in 0..(MaxAttempts - 1)
  BY DEF Extraction, ExtractTypeOK, Window
<1>2. items \in Seq([term : Seq(Nat), meaning : Unknown \cup Given])
  BY DEF Extraction, ExtractTypeOK, Card
<1>3. \A i \in DOMAIN todo : todo[i] \in [kind : {"text", "table"}, from : Nat, to : Nat]
  <2>1. todo \in Seq(Block)
    BY DEF Extraction, InPlace
  <2>2. \A i \in DOMAIN todo : todo[i] \in Block
    BY <2>1
  <2>. QED  BY <2>2 DEF Block
<1>4. failed \subseteq DOMAIN Units
  BY FailedListed
<1>5. rows \in Seq(Row)
  <2>1. CASE pc \in After
    BY <2>1 DEF RowsInv, RowsMade
  <2>2. CASE pc \notin After
    <3>1. pc \in {"extract", "ask"}
      BY <1>1, <2>2 DEF After, Extraction, InPlace
    <3>2. rows = <<>>
      BY <3>1 DEF RowsInv
    <3>. QED  BY <3>2
  <2>. QED  BY <2>1, <2>2
<1>6. /\ DOMAIN answers \subseteq {rows[k].term : k \in DOMAIN rows}
      /\ \A t \in DOMAIN answers : answers[t] \in Unknown \cup {"English"}
  BY DEF RowsInv, AnswersTyped
<1>7. links \in Seq(Link) /\ said \in Seq(Seq(Nat))
  BY DEF LinksInv
<1>. QED  BY <1>1, <1>2, <1>3, <1>4, <1>5, <1>6, <1>7 DEF TypeOK, Row, Link

\* The state is as typed: of the meanings, a row has one that a note gave, or that
\* means that it is missing, or that a later source filled in.
THEOREM TypeCorrect == Spec => []TypeOK
<1>1. Extraction /\ (RowsInv /\ LinksInv) => TypeOK
  BY AllTyped
<1>. QED  BY <1>1, ExtractionHolds, RowsHold, PTL

\* The meaning of the last step is that of the first source that knows one.
LEMMA FirstKnown ==
    ASSUME AnswersTyped, NEW t, BestItem(t).meaning \in Unknown \cup Given
    PROVE  /\ Known(t) = {} => InParts(t) \in Unknown
           /\ Known(t) # {} => InParts(t) = Offers(t)[Min(Known(t))]
           /\ Told(t) => Known(t) \cap 1..2 = {}
           /\ PutTogether(t) => Known(t) \cap 1..3 = {}
<1>1. PICK m, g, a, p, o : /\ m = BestItem(t).meaning /\ g = Gloss(t) /\ a = Answered(t)
                           /\ p = IF HasParts(t) THEN PartsMeaning(t) ELSE ""
                           /\ o = IF input.settings.force /\ g # "" THEN g ELSE m
  OBVIOUS
<1>2. Offers(t) = <<o, g, a, p>>
  BY <1>1 DEF Offers, Answered, HasParts
<1>3. /\ Known(t) \subseteq 1..4
      /\ 1 \in Known(t) <=> o \notin Unknown
      /\ 2 \in Known(t) <=> g \notin Unknown
      /\ 3 \in Known(t) <=> a \notin Unknown
      /\ 4 \in Known(t) <=> p \notin Unknown
  <2>1. Known(t) = {i \in 1..4 : <<o, g, a, p>>[i] \notin Unknown}
    BY <1>2 DEF Known
  <2>. QED  BY <2>1
<1>0. 1..2 = {1, 2} /\ 1..3 = {1, 2, 3}
  OBVIOUS
<1>4. ASSUME NEW i \in 1..4, i \in Known(t), \A j \in 1..(i - 1) : j \notin Known(t)
      PROVE  Min(Known(t)) = i
  <2>1. \A j \in Known(t) : i <= j
    BY <1>3, <1>4
  <2>. QED  BY <1>3, <1>4, <2>1, MinIs
<1>5. PICK L, T : L = Looked(t) /\ T = Translated(t)
  OBVIOUS
<1>6. /\ o \notin Unknown => L = o
      /\ o \in Unknown /\ g \notin Unknown => L = g
      /\ o \in Unknown /\ g \in Unknown => L \in Unknown
  BY <1>1, <1>5, Words DEF Looked
<1>7. T = IF L \in Unknown /\ a # "" THEN a ELSE L
  BY <1>1, <1>5 DEF Translated, Told
<1>8. InParts(t) = IF T \in Unknown /\ p # "" THEN p ELSE T
  BY <1>1, <1>5 DEF InParts, PutTogether
<1>9. Known(t) = {} => InParts(t) \in Unknown
  BY <1>3, <1>6, <1>7, <1>8, Words
<1>10. CASE o \notin Unknown
  <2>1. Min(Known(t)) = 1
    BY <1>3, <1>4, <1>10
  <2>2. L = o /\ T = L /\ InParts(t) = T /\ ~Told(t) /\ ~PutTogether(t)
    BY <1>5, <1>6, <1>7, <1>8, <1>10 DEF Told, PutTogether
  <2>. QED  BY <1>2, <1>9, <2>1, <2>2
<1>11. CASE o \in Unknown /\ g \notin Unknown
  <2>1. Min(Known(t)) = 2
    BY <1>3, <1>4, <1>11
  <2>2. L = g /\ T = L /\ InParts(t) = T /\ ~Told(t) /\ ~PutTogether(t)
    BY <1>5, <1>6, <1>7, <1>8, <1>11 DEF Told, PutTogether
  <2>. QED  BY <1>2, <1>9, <2>1, <2>2
<1>12. CASE o \in Unknown /\ g \in Unknown
  <2>1. Known(t) \cap 1..2 = {} /\ L \in Unknown
    BY <1>0, <1>3, <1>6, <1>12
  <2>2. CASE a \notin Unknown
    <3>1. Min(Known(t)) = 3
      BY <1>3, <1>4, <1>12, <2>2
    <3>2. T = a
      BY <1>7, <2>1, <2>2, Words
    <3>. QED  BY <1>2, <1>5, <1>8, <1>9, <2>1, <2>2, <3>1, <3>2 DEF PutTogether
  <2>3. CASE a \in Unknown
    <3>1. Known(t) \cap 1..3 = {} /\ T \in Unknown
      BY <1>0, <1>3, <1>7, <1>12, <2>1, <2>3
    <3>2. CASE p \notin Unknown
      <4>1. Min(Known(t)) = 4
        BY <1>3, <1>4, <1>12, <2>3, <3>2
      <4>2. InParts(t) = p
        BY <1>8, <3>1, <3>2, Words
      <4>. QED  BY <1>2, <1>9, <2>1, <3>1, <4>1, <4>2
    <3>3. CASE p \in Unknown
      <4>1. Known(t) = {}
        BY <1>3, <1>12, <2>3, <3>3
      <4>. QED  BY <1>9, <4>1
    <3>. QED  BY <3>2, <3>3
  <2>. QED  BY <2>2, <2>3
<1>. QED  BY <1>10, <1>11, <1>12

LEMMA RowRight ==
    ASSUME RowsMade, AnswersTyped, pc = "done", items \in Seq(Card), NEW k \in DOMAIN rows
    PROVE  /\ IF Known(rows[k].term) = {} THEN Missing(rows[k])
              ELSE rows[k].meaning = Offers(rows[k].term)[Min(Known(rows[k].term))]
           /\ {rows[k].meaning} \cap {"English", "parts"} \subseteq rows[k].notes
           /\ rows[k].notes # {} => Known(rows[k].term) \cap 1..2 = {}
           /\ "parts" \in rows[k].notes => Known(rows[k].term) \cap 1..3 = {}
<1>1. PICK r, t : r = rows[k] /\ t = r.term
  OBVIOUS
<1>2. /\ r.meaning = InParts(t)
      /\ r.notes = {n \in {"English", "parts"} : \/ n = "English" /\ Told(t)
                                                 \/ n = "parts" /\ PutTogether(t)}
      /\ BestItem(t).meaning \in Unknown \cup Given
  BY <1>1, RowFacts DEF Sourced, Meaning, Notes
<1>3. "English" = InParts(t) => Told(t)
  BY <1>2, SourceTypes, MeaningTypes, Words DEF InParts, Translated
<1>4. "parts" = InParts(t) => PutTogether(t)
  BY <1>2, SourceTypes, MeaningTypes, Words DEF InParts
<1>5. PutTogether(t) => Known(t) \cap 1..3 = {}
  BY <1>2, FirstKnown
<1>6. r.notes # {} => Known(t) \cap 1..2 = {}
  <2>1. 1..2 \subseteq 1..3
    OBVIOUS
  <2>. QED  BY <1>2, <1>5, <2>1, FirstKnown
<1>7. {r.meaning} \cap {"English", "parts"} \subseteq r.notes
  BY <1>2, <1>3, <1>4
<1>8. "parts" \in r.notes => Known(t) \cap 1..3 = {}
  BY <1>2, <1>5, Words
<1>. QED  BY <1>1, <1>2, <1>6, <1>7, <1>8, FirstKnown DEF Missing

LEMMA RowsRight ==
    ASSUME Extraction, Found, RowsInv
    PROVE  RowsAsExpected
<1>. SUFFICES ASSUME pc = "done"
     PROVE  /\ {rows[k].term : k \in DOMAIN rows} = {items[i].term : i \in DOMAIN items} \ {<<>>}
            /\ \A k, l \in DOMAIN rows : rows[k].term = rows[l].term => k = l
            /\ \A k \in DOMAIN rows :
                  LET row == rows[k]
                      known == Known(row.term)
                  IN  /\ IF known = {} THEN Missing(row)
                         ELSE row.meaning = Offers(row.term)[Min(known)]
                      /\ {row.meaning} \cap {"English", "parts"} \subseteq row.notes
                      /\ row.notes # {} => known \cap 1..2 = {}
                      /\ "parts" \in row.notes => known \cap 1..3 = {}
            /\ \A u \in DOMAIN Units \ failed : \A i \in Units[u].from .. Units[u].to :
                  Text[i].kind = "prose" /\ Text[i].term # <<>> =>
                      \E k \in DOMAIN rows : rows[k].term = Text[i].term
  BY DEF RowsAsExpected
<1>1. RowsMade /\ items \in Seq(Card) /\ AnswersTyped
  BY DEF RowsInv, After, Extraction, ExtractTypeOK
<1>2. \A k \in DOMAIN rows : rows[k].term # <<>>
  <2>1. \A k \in DOMAIN rows : rows[k] \in Row
    BY <1>1 DEF RowsMade
  <2>. QED  BY <2>1 DEF Row
<1>3. {rows[k].term : k \in DOMAIN rows} = {items[i].term : i \in DOMAIN items} \ {<<>>}
  BY <1>1, <1>2 DEF RowsMade
<1>4. \A k, l \in DOMAIN rows : rows[k].term = rows[l].term => k = l
  BY <1>1 DEF RowsMade
<1>5. ASSUME NEW k \in DOMAIN rows
      PROVE  LET row == rows[k]
                 known == Known(row.term)
             IN  /\ IF known = {} THEN Missing(row)
                    ELSE row.meaning = Offers(row.term)[Min(known)]
                 /\ {row.meaning} \cap {"English", "parts"} \subseteq row.notes
                 /\ row.notes # {} => known \cap 1..2 = {}
                 /\ "parts" \in row.notes => known \cap 1..3 = {}
  BY <1>1, RowRight
<1>6. ASSUME NEW u \in DOMAIN Units, u \notin failed, NEW i \in Units[u].from .. Units[u].to,
             Text[i].kind = "prose", Text[i].term # <<>>
      PROVE  \E k \in DOMAIN rows : rows[k].term = Text[i].term
  <2>1. u \in 1..(unit - 1)
    <3>1. unit = Len(Units) + 1 /\ Len(Units) \in Nat /\ DOMAIN Units = 1..Len(Units)
      BY InputFacts DEF Extraction, InPlace, ExtractTypeOK
    <3>. QED  BY <3>1
  <2>2. Contains(items, Item(Text[i]))
    BY <1>6, <2>1 DEF Found
  <2>3. PICK j \in DOMAIN items : items[j] = Item(Text[i])
    BY <1>1, <2>2 DEF Contains
  <2>4. items[j].term = Text[i].term
    BY <2>3 DEF Item
  <2>. QED  BY <1>1, <1>6, <2>4 DEF RowsMade
<1>. QED  BY <1>3, <1>4, <1>5, <1>6

\* Whatever the text, the dictionary, the settings and the answers of the LLM,
\* placeholders among them, each term found has one row in the end; the row has the
\* meaning of the first source that knows one, if any does; and it is noted as
\* translated or as put together only if every source asked before knew nothing
\* (pipeline.py:60-71, 252-321).  The note's own offer is the longest text there.
THEOREM RowsAsExpectedHolds == Spec => []RowsAsExpected
<1>1. Extraction /\ Found /\ (RowsInv /\ LinksInv) => RowsAsExpected
  BY RowsRight
<1>. QED  BY <1>1, ExtractionHolds, FoundHolds, RowsHold, PTL

LEMMA MatchesFit ==
    ASSUME RowsMade, LinksInv, IsInput(input)
    PROVE  SentencesFit
<1>1. rows \in Seq(Row) /\ links \in Seq(Link)
  BY DEF RowsMade, LinksInv
<1>2. ProperTerms(AllTerms)
  BY <1>1, TermsProper
<1>3. ASSUME NEW s \in ToSet(DialogueSentences(Text)), NEW kept, kept = DominantMatches(s, AllTerms)
      PROVE  /\ \A m, n \in kept : m # n => ~Overlapping(m, n)
             /\ \A m \in AllMatches(s, AllTerms) \ kept :
                   \E n \in kept : /\ Overlapping(m, n)
                                   /\ \/ n.start < m.start
                                      \/ n.start = m.start /\ n.end > m.end
  <2>1. s \in Seq(Nat)
    <3>1. PICK T, D : T = Seq(Nat) /\ D = DialogueSentences(Text)
      OBVIOUS
    <3>2. D \in Seq(T)
      BY <3>1, DialogueTyped
    <3>3. s \in T
      BY <1>3, <3>1, <3>2 DEF ToSet
    <3>. QED  BY <3>1, <3>3
  <2>2. Dominates(s, AllTerms, 1)
    BY <1>2, <2>1, DominantFacts
  <2>3. kept = DominantFrom(s, AllTerms)[1]
    BY <1>3 DEF DominantMatches
  <2>4. \A m, n \in kept : m # n => ~Overlapping(m, n)
    BY <2>2, <2>3 DEF Dominates, Overlaps, Overlapping
  <2>5. ASSUME NEW m \in AllMatches(s, AllTerms), m \notin kept
        PROVE  \E n \in kept : /\ Overlapping(m, n)
                               /\ \/ n.start < m.start
                                  \/ n.start = m.start /\ n.end > m.end
    <3>1. 1 <= m.start
      BY <1>2, <2>1, MatchFacts
    <3>2. \E n \in kept : Overlaps(m, n) /\ Leads(n, m)
      BY <2>2, <2>3, <2>5, <3>1 DEF Dominates
    <3>. QED  BY <3>2 DEF Overlaps, Overlapping, Leads
  <2>. QED  BY <2>4, <2>5
<1>4. ASSUME pc = "done", input.prior = {}, NEW k \in DOMAIN rows, NEW s \in ToSet(rows[k].sentences)
      PROVE  AllMatches(s, {rows[k].term}) # {}
  <2>1. PICK i \in DOMAIN links : links[i].key = k /\ links[i].sentence = s
    BY <1>4 DEF LinksInv
  <2>2. PICK l, m : l = links[i] /\ m = l.match
    OBVIOUS
  <2>3. LinkSound(l)
    BY <2>2 DEF LinksInv
  <2>4. /\ m \in AllMatches(s, AllTerms)
        /\ KeysFor(m.term) # {} /\ k = Min(KeysFor(m.term))
    BY <2>1, <2>2, <2>3 DEF LinkSound
  <2>5. KeysFor(m.term) = {j \in DOMAIN rows : rows[j].term = m.term}
    BY <1>4 DEF KeysFor
  <2>6. KeysFor(m.term) \subseteq Nat
    BY <1>1, <2>5
  <2>7. k \in KeysFor(m.term)
    BY <2>4, <2>6, MinLeast
  <2>8. rows[k].term = m.term
    BY <2>5, <2>7
  <2>9. m \in AllMatches(s, {m.term})
    BY <2>4 DEF AllMatches
  <2>. QED  BY <2>8, <2>9
<1>. QED  BY <1>3, <1>4 DEF SentencesFit

\* Of the terms in a sentence those are kept that the scan from left to right comes to
\* first, the longest at each place, and a row gets only sentences its term occurs in,
\* whatever the terms and the sentences (sentence_assign.py:30-61, pipeline.py:323-371).
THEOREM SentencesFitHolds == Spec => []SentencesFit
<1>1. ASSUME Extraction, RowsInv /\ LinksInv PROVE SentencesFit
  <2>1. CASE pc = "done"
    <3>1. RowsMade /\ IsInput(input)
      BY <1>1, <2>1 DEF RowsInv, After, Extraction, ExtractTypeOK
    <3>. QED  BY <1>1, <3>1, MatchesFit
  <2>2. CASE pc # "done"
    BY <2>2 DEF SentencesFit
  <2>. QED  BY <2>1, <2>2
<1>2. Extraction /\ (RowsInv /\ LinksInv) => SentencesFit
  BY <1>1
<1>. QED  BY <1>2, ExtractionHolds, RowsHold, PTL

----------------------------------------------------------------------------
(* Dialogues *)

LEMMA AllHeard ==
    ASSUME IsInput(input)
    PROVE  SpeakersHeard
<1>1. PICK text : text = Text
  OBVIOUS
<1>2. /\ text \in Seq(Line) /\ \A x \in Line : x.says \in Seq(Nat)
      /\ Len(text) \in Nat /\ DOMAIN text = 1..Len(text)
  BY <1>1, InputFacts, LineFacts
<1>3. PICK headers : headers = {h \in DOMAIN text : text[h].kind = "header"}
  OBVIOUS
<1>4. ASSUME Cardinality(headers) = 1
      PROVE  \E h : headers = {h} /\ h = Min(headers) /\ OneHeader(text, h)
  <2>1. IsFiniteSet(1..Len(text))
    BY <1>2, FS_Interval
  <2>2. IsFiniteSet(headers)
    BY <1>2, <1>3, <2>1, FS_Subset
  <2>3. PICK h : headers = {h}
    BY <1>4, <2>2, FS_Singleton
  <2>4. headers \subseteq Nat /\ headers # {}
    <3>1. headers \subseteq 1..Len(text) /\ headers # {}
      BY <1>2, <1>3, <2>3
    <3>. QED  BY <3>1
  <2>5. Min(headers) = h
    BY <2>3, <2>4, MinLeast
  <2>6. OneHeader(text, h)
    <3>1. h \in 1..Len(text)
      BY <1>2, <1>3, <2>3
    <3>2. \A i \in 1..Len(text) : text[i].kind = "header" <=> i \in headers
      BY <1>2, <1>3
    <3>. QED  BY <2>3, <3>1, <3>2 DEF OneHeader
  <2>. QED  BY <2>3, <2>5, <2>6
<1>. DEFINE Said(h, i) == IF /\ Speaks(text[i])
                             /\ h < i
                             /\ \A c \in (h + 1)..(i - 1) : ~Ends(h, c)
                          THEN Sentences(text[i].says) ELSE <<>>
<1>5. ASSUME Cardinality(headers) = 1, NEW h, h = Min(headers)
      PROVE  DialogueSentences(text) = FlattenSeq([i \in DOMAIN text |-> Said(h, i)])
  <2>1. OneHeader(text, h)
    BY <1>4, <1>5
  <2>2. DialogueSentences(text) = FlattenSeq([i \in DOMAIN text |-> SaidAt(text, h, i)])
    BY <1>2, <2>1, HeardWhole
  <2>3. \A i : Said(h, i) = SaidAt(text, h, i)
    BY <1>1 DEF SaidAt, Ends, EndsAt
  <2>. QED  BY <2>2, <2>3
<1>. QED  BY <1>1, <1>3, <1>5 DEF SpeakersHeard

\* In a text with one dialogue exactly what its speakers say is taken, whatever lines
\* stand in between, however many (sentences.py:60-106).
THEOREM SpeakersHeardHolds == Spec => []SpeakersHeard
<1>1. ASSUME Extraction PROVE SpeakersHeard
  BY <1>1, AllHeard DEF Extraction, ExtractTypeOK
<1>2. Extraction => SpeakersHeard
  BY <1>1
<1>. QED  BY <1>2, ExtractionHolds, PTL
=============================================================================
