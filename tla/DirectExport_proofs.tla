------------------------- MODULE DirectExport_proofs -------------------------
(***************************************************************************)
(* Theorems about DirectExport, for every finite set of cards, every set   *)
(* of exporters and faults, every policy and every bound.                  *)
(***************************************************************************)
EXTENDS DirectExport, SequenceTheorems, FiniteSetTheorems, TLAPS

ExporterState ==
    [pc : {"idle", "preflight", "find", "inspect", "update", "create", "add", "persist"},
     late : BOOLEAN, cards : [Cards -> CardRecord], todo : SUBSET Cards,
     pending : SUBSET Cards, key : Cards \cup {Absent}, note : Nat,
     fields : Fields \cup {NoBase}]

Notes == Seq(Note \cup {Absent})
Holdings == [Cards -> SUBSET Fields]

\* The notes s, and the fields h their cards' notes have held: a note that a run
\* added bears the tag of the card it is about, holds what that card's notes
\* have held, and is the only one of the card; any other note is the user's own.
NotesInv(s, h) ==
    /\ \A n \in DOMAIN s : s[n] # Absent =>
           IF s[n].tag = Absent THEN s[n] = OwnNote(s[n].front)
           ELSE s[n].tag = s[n].front /\ s[n].fields \in h[s[n].tag]
    /\ \A m, n \in DOMAIN s :
           s[m] # Absent /\ s[n] # Absent /\ s[m].tag # Absent /\ s[m].tag = s[n].tag
               => m = n

\* What no step takes back: a deleted note stays deleted, no note moves to
\* another card, and what a card's notes have held stays on record.
Forward(s, h, t, k) ==
    /\ DOMAIN s \subseteq DOMAIN t
    /\ \A n \in DOMAIN s : t[n] # Absent => s[n] # Absent /\ t[n].tag = s[n].tag
    /\ \A c \in Cards : h[c] \subseteq k[c]

\* The note id n is on record for card c.
OfCard(n, c, s) == n \in DOMAIN s /\ (s[n] # Absent => s[n].tag = c)

CardsInv(k, s, h) ==
    \A c \in Cards :
        /\ k[c].note # 0 => OfCard(k[c].note, c, s)
        /\ k[c].base # NoBase => k[c].base \in h[c]

\* The local variables of a run: the note it works on is one of its card, and
\* what it is about to persist is what such a note has held.
RunInv(E, s, h) ==
    /\ E.pc \in {"inspect", "update", "persist"} =>
           E.key \in Cards /\ OfCard(E.note, E.key, s)
    /\ E.pc = "add" => E.key \in Cards
    /\ E.pc = "update" => E.fields \in Fields
    /\ E.pc = "persist" => E.fields \in Fields /\ E.fields \in h[E.key]

TypeInv ==
    /\ card \in [Cards -> CardRecord]
    /\ note \in Notes
    /\ exporter \in [Exporters -> ExporterState]
    /\ held \in Holdings
    /\ used \in [ingests : 0..MaxIngests, edits : 0..MaxEdits, faults : 0..MaxFaults]

ExportInv ==
    /\ NotesInv(note, held)
    /\ CardsInv(card, note, held)
    /\ \A e \in Exporters : RunInv(exporter[e], note, held)

IInv == TypeInv /\ ExportInv

----------------------------------------------------------------------------
(* What keeps the parts of the invariant *)

LEMMA NotesDomain ==
    ASSUME NEW s \in Notes
    PROVE  /\ Len(s) \in Nat /\ DOMAIN s = 1..Len(s)
           /\ \A n \in DOMAIN s : s[n] # Absent => s[n] \in Note
<1>1. Len(s) \in Nat /\ s \in [1..Len(s) -> Note \cup {Absent}] /\ DOMAIN s = 1..Len(s)
  BY LenProperties DEF Notes
<1>. QED  BY <1>1

\* Changing no note and forgetting nothing is a step forward.
LEMMA ForwardSame == \A s, h : Forward(s, h, s, h)
  BY DEF Forward

LEMMA OfCardForward ==
    ASSUME NEW n, NEW c, NEW s, NEW h, NEW t, NEW k, OfCard(n, c, s), Forward(s, h, t, k)
    PROVE  OfCard(n, c, t)
  BY DEF OfCard, Forward

LEMMA CardsForward ==
    ASSUME NEW r, NEW s, NEW h, NEW t, NEW k, CardsInv(r, s, h), Forward(s, h, t, k)
    PROVE  CardsInv(r, t, k)
<1> SUFFICES ASSUME NEW c \in Cards
             PROVE  /\ r[c].note # 0 => OfCard(r[c].note, c, t)
                    /\ r[c].base # NoBase => r[c].base \in k[c]
  BY DEF CardsInv
<1>1. r[c].note # 0 => OfCard(r[c].note, c, t)
  BY OfCardForward DEF CardsInv
<1>2. h[c] \subseteq k[c]
  BY DEF Forward
<1>. QED  BY <1>1, <1>2 DEF CardsInv

LEMMA RunForward ==
    ASSUME NEW E, NEW s, NEW h, NEW t, NEW k, RunInv(E, s, h), Forward(s, h, t, k)
    PROVE  RunInv(E, t, k)
<1>1. E.pc \in {"inspect", "update", "persist"} => OfCard(E.note, E.key, t)
  BY OfCardForward DEF RunInv
<1>2. E.key \in Cards => h[E.key] \subseteq k[E.key]
  BY DEF Forward
<1>. QED  BY <1>1, <1>2 DEF RunInv

\* A note appended for a card that no note is about.
LEMMA AppendKeeps ==
    ASSUME NEW s \in Notes, NEW h \in Holdings, NotesInv(s, h), NEW x \in Note,
           x.tag \in Cards, x.tag = x.front,
           \A n \in DOMAIN s : s[n] # Absent => s[n].front # x.front
    PROVE  LET t == Append(s, x)
               k == [h EXCEPT ![x.tag] = @ \cup {x.fields}]
           IN  /\ t \in Notes /\ k \in Holdings
               /\ NotesInv(t, k) /\ Forward(s, h, t, k)
               /\ OfCard(Len(t), x.tag, t) /\ x.fields \in k[x.tag]
<1>. DEFINE t == Append(s, x)
            k == [h EXCEPT ![x.tag] = @ \cup {x.fields}]
<1>1. Len(s) \in Nat /\ DOMAIN s = 1..Len(s)
  BY NotesDomain
<1>2. /\ t \in Notes /\ Len(t) = Len(s) + 1
      /\ \A i \in DOMAIN s : t[i] = s[i]
      /\ t[Len(s) + 1] = x
  BY <1>1, AppendProperties DEF Notes
<1>3. DOMAIN t = DOMAIN s \cup {Len(s) + 1} /\ Len(s) + 1 \notin DOMAIN s
  BY <1>1, <1>2, NotesDomain
<1>4. x.fields \in Fields /\ x.tag # Absent
  BY NamesType DEF Note
<1>5. /\ k \in Holdings /\ x.fields \in k[x.tag]
      /\ \A c \in Cards : h[c] \subseteq k[c]
  BY <1>4 DEF Holdings
<1>. HIDE DEF t, k
<1>6. Forward(s, h, t, k)
  BY <1>2, <1>3, <1>5 DEF Forward
<1>7. \A n \in DOMAIN s : s[n] # Absent => s[n].tag # x.tag
  BY <1>4 DEF NotesInv
<1>8. ASSUME NEW n \in DOMAIN t, t[n] # Absent
      PROVE  IF t[n].tag = Absent THEN t[n] = OwnNote(t[n].front)
             ELSE t[n].tag = t[n].front /\ t[n].fields \in k[t[n].tag]
  <2>1. CASE n \in DOMAIN s
    <3>1. t[n] = s[n]
      BY <1>2, <2>1
    <3>2. s[n].tag # Absent => s[n].tag \in Cards
      BY <1>8, <3>1, <2>1, NotesDomain DEF Note
    <3>. QED  BY <1>5, <1>8, <2>1, <3>1, <3>2 DEF NotesInv
  <2>2. CASE n = Len(s) + 1
    BY <1>2, <1>4, <1>5, <2>2
  <2>. QED  BY <1>3, <2>1, <2>2
<1>9. ASSUME NEW m \in DOMAIN t, NEW n \in DOMAIN t, t[m] # Absent, t[n] # Absent,
             t[m].tag # Absent, t[m].tag = t[n].tag
      PROVE  m = n
  BY <1>2, <1>3, <1>7, <1>9 DEF NotesInv
<1>10. OfCard(Len(t), x.tag, t)
  BY <1>2, <1>3 DEF OfCard
<1>. QED  BY <1>2, <1>5, <1>6, <1>8, <1>9, <1>10 DEF t, k, NotesInv

\* A note whose fields change, to some that are on record, or its req tag.
LEMMA ChangeKeeps ==
    ASSUME NEW s \in Notes, NEW h \in Holdings, NotesInv(s, h),
           NEW n \in DOMAIN s, s[n] # Absent, NEW x \in Note,
           x.tag = s[n].tag, x.front = s[n].front,
           NEW k \in Holdings, \A c \in Cards : h[c] \subseteq k[c],
           IF x.tag = Absent THEN x = s[n] ELSE x.fields \in k[x.tag]
    PROVE  LET t == [s EXCEPT ![n] = x]
           IN  t \in Notes /\ NotesInv(t, k) /\ Forward(s, h, t, k)
<1>. DEFINE t == [s EXCEPT ![n] = x]
<1>1. n \in 1..Len(s) /\ DOMAIN s = 1..Len(s)
  BY NotesDomain
<1>2. /\ t \in Notes /\ DOMAIN t = DOMAIN s
      /\ \A m \in DOMAIN s : t[m] = IF m = n THEN x ELSE s[m]
  BY <1>1, ExceptSeq DEF Notes
<1>. HIDE DEF t
<1>3. Forward(s, h, t, k)
  BY <1>2 DEF Forward
<1>4. ASSUME NEW m \in DOMAIN t, t[m] # Absent
      PROVE  IF t[m].tag = Absent THEN t[m] = OwnNote(t[m].front)
             ELSE t[m].tag = t[m].front /\ t[m].fields \in k[t[m].tag]
  <2>1. CASE m = n
    BY <1>2, <2>1 DEF NotesInv
  <2>2. CASE m # n
    <3>1. t[m] = s[m] /\ m \in DOMAIN s
      BY <1>2, <2>2
    <3>2. s[m].tag # Absent => s[m].tag \in Cards
      BY <1>4, <3>1, NotesDomain DEF Note
    <3>. QED  BY <1>4, <3>1, <3>2 DEF NotesInv
  <2>. QED  BY <2>1, <2>2
<1>5. ASSUME NEW l \in DOMAIN t, NEW m \in DOMAIN t, t[l] # Absent, t[m] # Absent,
             t[l].tag # Absent, t[l].tag = t[m].tag
      PROVE  l = m
  BY <1>2, <1>5 DEF NotesInv
<1>. QED  BY <1>2, <1>3, <1>4, <1>5 DEF t, NotesInv

\* A note that is deleted.
LEMMA DeleteKeeps ==
    ASSUME NEW s \in Notes, NEW h \in Holdings, NotesInv(s, h), NEW n \in DOMAIN s
    PROVE  LET t == [s EXCEPT ![n] = Absent]
           IN  t \in Notes /\ NotesInv(t, h) /\ Forward(s, h, t, h)
<1>. DEFINE t == [s EXCEPT ![n] = Absent]
<1>1. n \in 1..Len(s) /\ DOMAIN s = 1..Len(s)
  BY NotesDomain
<1>2. /\ t \in Notes /\ DOMAIN t = DOMAIN s
      /\ \A m \in DOMAIN s : t[m] = IF m = n THEN Absent ELSE s[m]
  BY <1>1, ExceptSeq DEF Notes
<1>. HIDE DEF t
<1>. QED  BY <1>2 DEF t, NotesInv, Forward

\* Notes that lose a req tag that a run has set.
LEMMA ResetKeeps ==
    ASSUME NEW s \in Notes, NEW h \in Holdings, NotesInv(s, h), NEW e \in Exporters
    PROVE  LET t == [n \in DOMAIN s |->
                        IF s[n] # Absent /\ s[n].req = e THEN [s[n] EXCEPT !.req = Absent]
                        ELSE s[n]]
           IN  t \in Notes /\ NotesInv(t, h) /\ Forward(s, h, t, h)
<1>. DEFINE t == [n \in DOMAIN s |->
                     IF s[n] # Absent /\ s[n].req = e THEN [s[n] EXCEPT !.req = Absent]
                     ELSE s[n]]
<1>1. Len(s) \in Nat /\ DOMAIN s = 1..Len(s)
  BY NotesDomain
<1>2. ASSUME NEW n \in DOMAIN s
      PROVE  /\ t[n] \in Note \cup {Absent}
             /\ t[n] # Absent =>
                    /\ s[n] # Absent /\ t[n].tag = s[n].tag /\ t[n].front = s[n].front
                    /\ t[n].fields = s[n].fields
                    /\ s[n] = OwnNote(s[n].front) => t[n] = s[n]
  <2>1. CASE s[n] # Absent /\ s[n].req = e
    <3>1. s[n] \in Note /\ t[n] = [s[n] EXCEPT !.req = Absent]
      BY <2>1, NotesDomain
    <3>2. s[n] # OwnNote(s[n].front)
      BY <2>1, NamesType DEF OwnNote
    <3>. QED  BY <2>1, <3>1, <3>2 DEF Note
  <2>2. CASE ~(s[n] # Absent /\ s[n].req = e)
    <3>1. t[n] = s[n]
      BY <2>2
    <3>. QED  BY <3>1, NotesDomain
  <2>. QED  BY <2>1, <2>2
<1>3. DOMAIN t = DOMAIN s
  OBVIOUS
<1>4. t \in Notes
  <2>1. t \in [1..Len(s) -> Note \cup {Absent}]
    BY <1>1, <1>2
  <2>. HIDE DEF t
  <2>. QED  BY <1>1, <2>1, SeqDef DEF Notes
<1>. HIDE DEF t
<1>. QED  BY <1>2, <1>3, <1>4 DEF t, NotesInv, Forward

\* A step keeps the invariants of all runs if it does so for the one it changes.
LEMMA RunsKeep ==
    ASSUME IInv, Forward(note, held, note', held'), NEW e \in Exporters,
           NEW E \in ExporterState, RunInv(E, note', held'),
           exporter' = [exporter EXCEPT ![e] = E]
    PROVE  /\ exporter' \in [Exporters -> ExporterState]
           /\ \A q \in Exporters : RunInv(exporter'[q], note', held')
<1>1. exporter \in [Exporters -> ExporterState]
  BY DEF IInv, TypeInv
<1>2. ASSUME NEW q \in Exporters PROVE RunInv(exporter'[q], note', held')
  <2>1. CASE q = e
    BY <1>1, <2>1
  <2>2. CASE q # e
    <3>1. exporter'[q] = exporter[q] /\ RunInv(exporter[q], note, held)
      BY <1>1, <2>2 DEF IInv, ExportInv
    <3>. QED  BY <3>1, RunForward
  <2>. QED  BY <2>1, <2>2
<1>. QED  BY <1>1, <1>2

\* A step that changes the local variables of one run and nothing else.
LEMMA LocalStep ==
    ASSUME IInv, NEW e \in Exporters, NEW E \in ExporterState, RunInv(E, note, held),
           exporter' = [exporter EXCEPT ![e] = E], UNCHANGED <<card, note, held>>,
           used' \in [ingests : 0..MaxIngests, edits : 0..MaxEdits, faults : 0..MaxFaults]
    PROVE  IInv'
<1>1. Forward(note, held, note', held')
  BY ForwardSame
<1>2. RunInv(E, note', held')
  OBVIOUS
<1>3. /\ exporter' \in [Exporters -> ExporterState]
      /\ \A q \in Exporters : RunInv(exporter'[q], note', held')
  BY <1>1, <1>2, RunsKeep
<1>. QED  BY <1>3 DEF IInv, TypeInv, ExportInv

\* The resolution of a note finds one of the card, or none.
LEMMA ResolveFinds ==
    ASSUME IInv, NEW c \in Cards, NEW rec
    PROVE  /\ Resolve(rec, c) \in Nat
           /\ Resolve(rec, c) # 0 => OfCard(Resolve(rec, c), c, note)
<1>1. DOMAIN note \subseteq Nat \ {0}
  BY NotesDomain DEF IInv, TypeInv
<1>2. ASSUME NEW n \in Tagged(c) PROVE n \in Nat \ {0} /\ OfCard(n, c, note)
  BY <1>1 DEF Tagged, Live, OfCard
<1>3. ASSUME NEW n \in Tagged(c)
      PROVE  (CHOOSE i \in Tagged(c) : \A m \in Tagged(c) : i <= m) \in Tagged(c)
  <2>1. \A m \in Tagged(c) : m = n
    BY NamesType DEF IInv, ExportInv, NotesInv, Tagged, Live
  <2>2. \A m \in Tagged(c) : n <= m
    BY <1>2, <2>1
  <2>. QED  BY <2>2
<1>. QED  BY <1>2, <1>3 DEF Resolve

LEMMA IdleTypes ==
    ASSUME NEW s, NEW h PROVE IdleExporter \in ExporterState /\ RunInv(IdleExporter, s, h)
<1>1. NoCard \in CardRecord
  BY DEF NoCard, CardRecord
<1>. QED  BY <1>1 DEF IdleExporter, ExporterState, RunInv

LEMMA DoneTypes ==
    ASSUME NEW E \in ExporterState, NEW s, NEW h
    PROVE  Done(E) \in ExporterState /\ RunInv(Done(E), s, h)
<1>1. /\ Done(E) \in ExporterState
      /\ Done(E).pc = IF E.late THEN "create" ELSE "find"
  BY DEF Done, ExporterState
<1>. QED  BY <1>1 DEF RunInv

LEMMA RefusalTypes ==
    ASSUME IInv, NEW E \in ExporterState, NEW c \in Cards
    PROVE  AfterRefusal(E, c) \in ExporterState /\ RunInv(AfterRefusal(E, c), note, held)
<1>. DEFINE n == Resolve(E.cards[c], c)
<1>1. n \in Nat /\ (n # 0 => OfCard(n, c, note))
  BY ResolveFinds
<1>. HIDE DEF n
<1>2. CASE n = 0
  <2>1. [E EXCEPT !.key = c] \in ExporterState
    BY DEF ExporterState
  <2>2. AfterRefusal(E, c) = Done([E EXCEPT !.key = c])
    BY <1>2 DEF AfterRefusal, n
  <2>. QED  BY <2>1, <2>2, DoneTypes
<1>3. CASE n # 0
  <2>. DEFINE F == [E EXCEPT !.pc = "inspect", !.key = c, !.note = n]
  <2>1. AfterRefusal(E, c) = F
    BY <1>3 DEF AfterRefusal, n
  <2>2. F \in ExporterState /\ F.pc = "inspect" /\ F.key = c /\ F.note = n
    BY <1>1 DEF ExporterState
  <2>. HIDE DEF F
  <2>. QED  BY <1>1, <1>3, <2>1, <2>2 DEF RunInv
<1>. QED  BY <1>2, <1>3

LEMMA FieldTypes ==
    /\ \A v \in Nat : LocalFields(v) \in Fields
    /\ \A base \in Fields \cup {NoBase}, remote, local \in Fields :
           MergedFields(base, remote, local, Policy) \in Fields
<1>1. \A v \in Nat : LocalFields(v) \in Fields
  BY DEF LocalFields, Fields
<1>2. ASSUME NEW base \in Fields \cup {NoBase}, NEW remote \in Fields, NEW local \in Fields
      PROVE  MergedFields(base, remote, local, Policy) \in Fields
  <2>1. [k \in FieldNames |-> MergedField(base[k], remote[k], local[k], Policy)] \in Fields
    BY DEF MergedField, Fields
  <2>. QED  BY <2>1 DEF MergedFields
<1>. QED  BY <1>1, <1>2

----------------------------------------------------------------------------
(* The steps *)

LEMMA Types ==
    ASSUME IInv
    PROVE  /\ card \in [Cards -> CardRecord] /\ note \in Notes /\ held \in Holdings
           /\ exporter \in [Exporters -> ExporterState]
           /\ used \in [ingests : 0..MaxIngests, edits : 0..MaxEdits, faults : 0..MaxFaults]
           /\ NotesInv(note, held) /\ CardsInv(card, note, held)
           /\ \A e \in Exporters : exporter[e] \in ExporterState /\ RunInv(exporter[e], note, held)
  BY DEF IInv, TypeInv, ExportInv

\* What a step shows that changes notes: the run it belongs to, if any, apart.
LEMMA NoteStep ==
    ASSUME IInv, note' \in Notes, held' \in Holdings, NotesInv(note', held'),
           Forward(note, held, note', held'), UNCHANGED card,
           exporter' \in [Exporters -> ExporterState],
           \A q \in Exporters : RunInv(exporter'[q], note', held'),
           used' \in [ingests : 0..MaxIngests, edits : 0..MaxEdits, faults : 0..MaxFaults]
    PROVE  IInv'
<1>1. CardsInv(card', note', held')
  BY Types, CardsForward
<1>. QED  BY <1>1, Types DEF IInv, TypeInv, ExportInv

\* The same for a step that is part of no run.
LEMMA UserStep ==
    ASSUME IInv, note' \in Notes, held' \in Holdings, NotesInv(note', held'),
           Forward(note, held, note', held'), UNCHANGED <<card, exporter>>,
           used' \in [ingests : 0..MaxIngests, edits : 0..MaxEdits, faults : 0..MaxFaults]
    PROVE  IInv'
<1>1. \A q \in Exporters : RunInv(exporter'[q], note', held')
  BY Types, RunForward
<1>. QED  BY <1>1, Types, NoteStep

LEMMA UsedTypes ==
    ASSUME IInv
    PROVE  /\ used.edits < MaxEdits =>
                  [used EXCEPT !.edits = @ + 1]
                      \in [ingests : 0..MaxIngests, edits : 0..MaxEdits, faults : 0..MaxFaults]
           /\ used.faults < MaxFaults =>
                  [used EXCEPT !.faults = @ + 1]
                      \in [ingests : 0..MaxIngests, edits : 0..MaxEdits, faults : 0..MaxFaults]
           /\ used.ingests < MaxIngests =>
                  [used EXCEPT !.ingests = @ + 1]
                      \in [ingests : 0..MaxIngests, edits : 0..MaxEdits, faults : 0..MaxFaults]
<1>1. /\ used.edits < MaxEdits => used.edits + 1 \in 0..MaxEdits
      /\ used.faults < MaxFaults => used.faults + 1 \in 0..MaxFaults
      /\ used.ingests < MaxIngests => used.ingests + 1 \in 0..MaxIngests
  BY Types, BoundsType
<1>. QED  BY <1>1, Types

\* A stored content starts the delivery state of the card afresh.
LEMMA StoreStep ==
    ASSUME IInv, NEW c \in Cards, NEW v \in 1..MaxVersion, StoreContent(c, v)
    PROVE  IInv'
<1>. DEFINE r == [NoCard EXCEPT !.content = v]
<1>1. v \in Nat
  BY BoundsType
<1>2. r \in CardRecord /\ r.note = 0 /\ r.base = NoBase
  BY <1>1 DEF NoCard, CardRecord
<1>3. card' = [card EXCEPT ![c] = r] /\ UNCHANGED <<note, exporter, held>>
  BY DEF StoreContent
<1>. HIDE DEF r
<1>4. card' \in [Cards -> CardRecord] /\ CardsInv(card', note, held)
  BY <1>2, <1>3, Types DEF CardsInv
<1>5. used' \in [ingests : 0..MaxIngests, edits : 0..MaxEdits, faults : 0..MaxFaults]
  BY UsedTypes DEF StoreContent
<1>. QED  BY <1>3, <1>4, <1>5, Types DEF IInv, TypeInv, ExportInv

\* A note of the user's own is as it was, whatever the user types into it.
LEMMA OwnEdited ==
    ASSUME NEW c \in Cards, NEW k \in FieldNames
    PROVE  [OwnNote(c) EXCEPT !.fields[k] = Mine, !.edited = @ \cup {k}] = OwnNote(c)
<1>1. [OwnNote(c).fields EXCEPT ![k] = Mine] = OwnNote(c).fields
  BY DEF OwnNote
<1>2. OwnNote(c).edited \cup {k} = OwnNote(c).edited
  BY DEF OwnNote
<1>. QED  BY <1>1, <1>2 DEF OwnNote

LEMMA EditStep ==
    ASSUME IInv, NEW n \in Live, NEW k \in FieldNames, EditNote(n, k)
    PROVE  IInv'
<1>. DEFINE x == [note[n] EXCEPT !.fields[k] = Mine, !.edited = @ \cup {k}]
<1>1. n \in DOMAIN note /\ note[n] # Absent /\ note[n] \in Note
  BY Types, NotesDomain DEF Live
<1>2. note' = [note EXCEPT ![n] = x]
  BY <1>1 DEF EditNote
<1>3. x \in Note /\ x.tag = note[n].tag /\ x.front = note[n].front
  BY <1>1 DEF Note, Fields
<1>4. note'[n] = x
  BY <1>1, <1>2
<1>5. UNCHANGED <<card, exporter>>
      /\ used' \in [ingests : 0..MaxIngests, edits : 0..MaxEdits, faults : 0..MaxFaults]
  BY UsedTypes DEF EditNote
<1>6. CASE note[n].tag = Absent
  <2>1. held' = held
    BY <1>6 DEF EditNote
  <2>2. note[n] = OwnNote(note[n].front) /\ note[n].front \in Cards
    BY <1>1, <1>6, Types DEF NotesInv, Note
  <2>3. x = note[n]
    BY <2>2, OwnEdited
  <2>. HIDE DEF x
  <2>4. note' \in Notes /\ NotesInv(note', held) /\ Forward(note, held, note', held)
    BY <1>1, <1>2, <1>3, <1>6, <2>3, Types, ChangeKeeps
  <2>. QED  BY <1>5, <2>1, <2>4, Types, UserStep
<1>7. CASE note[n].tag # Absent
  <2>1. held' = [held EXCEPT ![note[n].tag] = @ \cup {x.fields}]
    BY <1>4, <1>7 DEF EditNote
  <2>2. note[n].tag \in Cards /\ x.fields \in Fields
    BY <1>1, <1>3, <1>7 DEF Note
  <2>3. /\ held' \in Holdings /\ \A c \in Cards : held[c] \subseteq held'[c]
        /\ x.fields \in held'[note[n].tag]
    BY <2>1, <2>2, Types DEF Holdings
  <2>. HIDE DEF x
  <2>4. note' \in Notes /\ NotesInv(note', held') /\ Forward(note, held, note', held')
    BY <1>1, <1>2, <1>3, <1>7, <2>3, Types, ChangeKeeps
  <2>. QED  BY <1>5, <2>3, <2>4, UserStep
<1>. QED  BY <1>6, <1>7

LEMMA DeleteStep ==
    ASSUME IInv, NEW n \in Live, DeleteNote(n)
    PROVE  IInv'
<1>1. n \in DOMAIN note /\ note' = [note EXCEPT ![n] = Absent]
  BY DEF DeleteNote, Live
<1>2. note' \in Notes /\ NotesInv(note', held) /\ Forward(note, held, note', held)
  BY <1>1, Types, DeleteKeeps
<1>3. UNCHANGED <<card, exporter, held>>
      /\ used' \in [ingests : 0..MaxIngests, edits : 0..MaxEdits, faults : 0..MaxFaults]
  BY UsedTypes DEF DeleteNote
<1>. QED  BY <1>2, <1>3, Types, UserStep

LEMMA StartStep ==
    ASSUME IInv, NEW e \in Exporters, StartExport(e)
    PROVE  IInv'
<1>. DEFINE E == [IdleExporter EXCEPT !.pc = "preflight", !.cards = card,
                                      !.todo = {c \in Cards : card[c].content # 0}]
<1>1. E \in ExporterState /\ E.pc = "preflight"
  BY Types, IdleTypes DEF ExporterState
<1>2. exporter' = [exporter EXCEPT ![e] = E] /\ UNCHANGED <<card, held, used>>
  BY DEF StartExport
<1>. HIDE DEF E
<1>3. note' = [n \in DOMAIN note |->
                   IF note[n] # Absent /\ note[n].req = e THEN [note[n] EXCEPT !.req = Absent]
                   ELSE note[n]]
  BY DEF StartExport, Live
<1>4. note' \in Notes /\ NotesInv(note', held) /\ Forward(note, held, note', held)
  BY <1>3, Types, ResetKeeps
<1>5. RunInv(E, note', held')
  BY <1>1 DEF RunInv
<1>6. /\ exporter' \in [Exporters -> ExporterState]
      /\ \A q \in Exporters : RunInv(exporter'[q], note', held')
  BY <1>1, <1>2, <1>4, <1>5, RunsKeep
<1>. QED  BY <1>2, <1>4, <1>6, Types, NoteStep

\* A note is added where no note of that first field is.
LEMMA AddedKeeps ==
    ASSUME IInv, NEW e \in Exporters, exporter[e].pc = "add", NoteAdded(e)
    PROVE  LET E == exporter[e]
               fields == LocalFields(E.cards[E.key].content)
           IN  /\ note' \in Notes /\ held' \in Holdings /\ NotesInv(note', held')
               /\ Forward(note, held, note', held')
               /\ OfCard(Len(note'), E.key, note') /\ Len(note') \in Nat
               /\ fields \in Fields /\ fields \in held'[E.key]
<1>. DEFINE c == exporter[e].key
            fields == LocalFields(exporter[e].cards[c].content)
            x == [front |-> c, tag |-> c, req |-> e, fields |-> fields, edited |-> {}]
<1>1. c \in Cards /\ exporter[e].cards[c].content \in Nat
  BY Types DEF RunInv, ExporterState, CardRecord
<1>2. fields \in Fields
  BY <1>1, FieldTypes
<1>3. x \in Note /\ x.tag = c /\ x.front = c /\ x.fields = fields
  BY <1>1, <1>2 DEF Note
<1>4. /\ note' = Append(note, x)
      /\ held' = [held EXCEPT ![c] = @ \cup {fields}]
      /\ Duplicates(c) = {}
  BY DEF NoteAdded
<1>. HIDE DEF x, fields
<1>5. \A n \in DOMAIN note : note[n] # Absent => note[n].front # c
  BY <1>4 DEF Duplicates, Live
<1>6. /\ note' \in Notes /\ held' \in Holdings /\ NotesInv(note', held')
      /\ Forward(note, held, note', held')
      /\ OfCard(Len(note'), c, note') /\ fields \in held'[c]
  BY <1>1, <1>3, <1>4, <1>5, Types, AppendKeeps
<1>7. Len(note') \in Nat
  BY <1>6, NotesDomain
<1>. QED  BY <1>2, <1>6, <1>7 DEF fields

\* The note that a run updates is one of its card.
LEMMA UpdatedKeeps ==
    ASSUME IInv, NEW e \in Exporters, exporter[e].pc = "update", NoteUpdated(e)
    PROVE  /\ note' \in Notes /\ held' \in Holdings /\ NotesInv(note', held')
           /\ Forward(note, held, note', held')
           /\ exporter[e].fields \in held'[exporter[e].key]
<1>. DEFINE E == exporter[e]
            x == [note[E.note] EXCEPT !.fields = E.fields, !.req = e]
<1>1. /\ E.key \in Cards /\ E.fields \in Fields /\ OfCard(E.note, E.key, note)
      /\ E.note \in Live
  BY Types DEF RunInv, NoteUpdated
<1>2. /\ E.note \in DOMAIN note /\ note[E.note] # Absent /\ note[E.note] \in Note
      /\ note[E.note].tag = E.key
  BY <1>1, Types, NotesDomain DEF Live, OfCard
<1>3. /\ x \in Note /\ x.tag = E.key /\ x.fields = E.fields
      /\ x.front = note[E.note].front
  BY <1>1, <1>2 DEF Note
<1>4. note' = [note EXCEPT ![E.note] = x]
  BY <1>2 DEF NoteUpdated
<1>5. held' = [held EXCEPT ![E.key] = @ \cup {E.fields}]
  BY DEF NoteUpdated
<1>6. /\ held' \in Holdings /\ \A c \in Cards : held[c] \subseteq held'[c]
      /\ E.fields \in held'[E.key]
  BY <1>1, <1>5, Types DEF Holdings
<1>7. IF x.tag = Absent THEN x = note[E.note] ELSE x.fields \in held'[x.tag]
  BY <1>1, <1>3, <1>6, NamesType
<1>. HIDE DEF x, E
<1>8. note' \in Notes /\ NotesInv(note', held') /\ Forward(note, held, note', held')
  BY <1>2, <1>3, <1>4, <1>6, <1>7, Types, ChangeKeeps
<1>. QED  BY <1>6, <1>8 DEF E

LEMMA AddStep ==
    ASSUME IInv, NEW e \in Exporters, AddNote(e)
    PROVE  IInv'
<1>. DEFINE E == exporter[e]
<1>1. E \in ExporterState /\ E.pc = "add" /\ E.key \in Cards /\ UNCHANGED <<card, used>>
  BY Types DEF AddNote, RunInv
<1>2. CASE Duplicates(E.key) = {}
  <2>. DEFINE fields == LocalFields(E.cards[E.key].content)
              F == [E EXCEPT !.pc = "persist", !.note = Len(note'), !.fields = fields]
  <2>1. NoteAdded(e) /\ exporter' = [exporter EXCEPT ![e] = F]
    BY <1>2 DEF AddNote
  <2>2. /\ note' \in Notes /\ held' \in Holdings /\ NotesInv(note', held')
        /\ Forward(note, held, note', held')
        /\ OfCard(Len(note'), E.key, note') /\ Len(note') \in Nat
        /\ fields \in Fields /\ fields \in held'[E.key]
    BY <1>1, <2>1, AddedKeeps
  <2>3. /\ F \in ExporterState /\ F.pc = "persist" /\ F.key = E.key
        /\ F.note = Len(note') /\ F.fields = fields
    BY <1>1, <2>2 DEF ExporterState
  <2>. HIDE DEF F, fields
  <2>4. RunInv(F, note', held')
    BY <1>1, <2>2, <2>3 DEF RunInv
  <2>5. /\ exporter' \in [Exporters -> ExporterState]
        /\ \A q \in Exporters : RunInv(exporter'[q], note', held')
    BY <2>1, <2>2, <2>3, <2>4, RunsKeep
  <2>. QED  BY <1>1, <2>2, <2>5, Types, NoteStep
<1>3. CASE Duplicates(E.key) # {}
  <2>1. /\ exporter' = [exporter EXCEPT ![e] = AfterRefusal(E, E.key)]
        /\ UNCHANGED <<note, held>>
    BY <1>3 DEF AddNote
  <2>2. /\ AfterRefusal(E, E.key) \in ExporterState
        /\ RunInv(AfterRefusal(E, E.key), note, held)
    BY <1>1, RefusalTypes
  <2>. QED  BY <1>1, <2>1, <2>2, Types, LocalStep
<1>. QED  BY <1>2, <1>3

LEMMA InspectStep ==
    ASSUME IInv, NEW e \in Exporters, InspectNote(e)
    PROVE  IInv'
<1>. DEFINE E == exporter[e]
            rec == E.cards[E.key]
            local == LocalFields(rec.content)
            remote == note[E.note].fields
            merged == MergedFields(rec.base, remote, local, Policy)
            F == [E EXCEPT !.pc = IF merged # remote THEN "update" ELSE "persist",
                           !.fields = merged]
<1>1. /\ E \in ExporterState /\ E.pc = "inspect" /\ E.key \in Cards
      /\ OfCard(E.note, E.key, note) /\ UNCHANGED <<card, note, held, used>>
  BY Types DEF InspectNote, RunInv
<1>2. exporter' = [exporter EXCEPT ![e] =
          IF E.note \notin Live \/ note[E.note].req = e THEN Done(E)
          ELSE IF Policy = "tag-and-skip" /\ Conflicts(rec.base, remote, local) # {}
          THEN Done(E) ELSE F]
  BY DEF InspectNote
<1>3. CASE exporter' = [exporter EXCEPT ![e] = Done(E)]
  BY <1>1, <1>3, Types, DoneTypes, LocalStep
<1>4. CASE exporter' = [exporter EXCEPT ![e] = F] /\ E.note \in Live
  <2>1. note[E.note] \in Note /\ note[E.note].tag = E.key
    BY <1>1, <1>4, Types, NotesDomain DEF Live, OfCard
  <2>2. remote \in Fields /\ remote \in held[E.key]
    <3>1. E.key # Absent /\ E.note \in DOMAIN note /\ note[E.note] # Absent
      BY <1>1, <1>4, NamesType DEF Live
    <3>. QED  BY <2>1, <3>1, Types DEF NotesInv, Note
  <2>3. rec.base \in Fields \cup {NoBase} /\ local \in Fields
    BY <1>1, FieldTypes DEF ExporterState, CardRecord
  <2>4. merged \in Fields
    BY <2>2, <2>3, FieldTypes
  <2>. HIDE DEF merged, remote
  <2>5. /\ F \in ExporterState /\ F.key = E.key /\ F.note = E.note /\ F.fields = merged
        /\ F.pc = IF merged # remote THEN "update" ELSE "persist"
    BY <1>1, <2>4 DEF ExporterState
  <2>. HIDE DEF F, E
  <2>6. RunInv(F, note, held)
    BY <1>1, <2>2, <2>4, <2>5 DEF RunInv
  <2>. QED  BY <1>1, <1>4, <2>5, <2>6, Types, LocalStep
<1>. QED  BY <1>2, <1>3, <1>4

LEMMA UpdateStep ==
    ASSUME IInv, NEW e \in Exporters, UpdateNote(e)
    PROVE  IInv'
<1>. DEFINE E == exporter[e]
            F == [E EXCEPT !.pc = "persist"]
<1>1. /\ E \in ExporterState /\ E.pc = "update" /\ E.key \in Cards /\ E.fields \in Fields
      /\ OfCard(E.note, E.key, note) /\ UNCHANGED <<card, used>>
  BY Types DEF UpdateNote, RunInv
<1>2. CASE E.note \in Live
  <2>1. NoteUpdated(e) /\ exporter' = [exporter EXCEPT ![e] = F]
    BY <1>2, Types DEF UpdateNote
  <2>2. /\ note' \in Notes /\ held' \in Holdings /\ NotesInv(note', held')
        /\ Forward(note, held, note', held') /\ E.fields \in held'[E.key]
    BY <1>1, <2>1, UpdatedKeeps
  <2>3. /\ F \in ExporterState /\ F.pc = "persist" /\ F.key = E.key
        /\ F.note = E.note /\ F.fields = E.fields
    BY <1>1 DEF ExporterState
  <2>4. OfCard(E.note, E.key, note')
    BY <1>1, <2>2, OfCardForward
  <2>. HIDE DEF F
  <2>5. RunInv(F, note', held')
    BY <1>1, <2>2, <2>3, <2>4 DEF RunInv
  <2>6. /\ exporter' \in [Exporters -> ExporterState]
        /\ \A q \in Exporters : RunInv(exporter'[q], note', held')
    BY <2>1, <2>2, <2>3, <2>5, RunsKeep
  <2>. QED  BY <1>1, <2>2, <2>6, Types, NoteStep
<1>3. CASE E.note \notin Live
  BY <1>1, <1>3, Types, DoneTypes, LocalStep DEF UpdateNote
<1>. QED  BY <1>2, <1>3

LEMMA PersistStep ==
    ASSUME IInv, NEW e \in Exporters, PersistCardSync(e)
    PROVE  IInv'
<1>. DEFINE E == exporter[e]
            r == [content |-> E.cards[E.key].content, note |-> E.note, base |-> E.fields]
<1>1. /\ E \in ExporterState /\ E.key \in Cards /\ E.fields \in Fields
      /\ E.fields \in held[E.key] /\ OfCard(E.note, E.key, note)
  BY Types DEF PersistCardSync, RunInv
<1>2. /\ card' = [card EXCEPT ![E.key] = r] /\ UNCHANGED <<note, held, used>>
      /\ exporter' = [exporter EXCEPT ![e] = Done(E)]
  BY DEF PersistCardSync
<1>3. r \in CardRecord
  BY <1>1 DEF ExporterState, CardRecord
<1>4. r.note = E.note /\ r.base = E.fields
  OBVIOUS
<1>. HIDE DEF r
<1>5. card' \in [Cards -> CardRecord]
  BY <1>2, <1>3, Types
<1>6. CardsInv(card', note, held)
  BY <1>1, <1>2, <1>4, Types DEF CardsInv
<1>7. Done(E) \in ExporterState /\ RunInv(Done(E), note', held')
  BY <1>1, DoneTypes
<1>8. /\ exporter' \in [Exporters -> ExporterState]
      /\ \A q \in Exporters : RunInv(exporter'[q], note', held')
  BY <1>2, <1>7, ForwardSame, RunsKeep
<1>. QED  BY <1>2, <1>5, <1>6, <1>8, Types DEF IInv, TypeInv, ExportInv

LEMMA AnswerStep ==
    ASSUME IInv, NEW e \in Exporters, LoseAnswer(e)
    PROVE  IInv'
<1>. DEFINE E == exporter[e]
<1>1. /\ E \in ExporterState /\ UNCHANGED card
      /\ exporter' = [exporter EXCEPT ![e] = Done(E)]
      /\ used' \in [ingests : 0..MaxIngests, edits : 0..MaxEdits, faults : 0..MaxFaults]
  BY Types, UsedTypes DEF LoseAnswer, Fault
<1>2. /\ note' \in Notes /\ held' \in Holdings /\ NotesInv(note', held')
      /\ Forward(note, held, note', held')
  BY AddedKeeps, UpdatedKeeps DEF LoseAnswer
<1>3. Done(E) \in ExporterState /\ RunInv(Done(E), note', held')
  BY <1>1, DoneTypes
<1>4. /\ exporter' \in [Exporters -> ExporterState]
      /\ \A q \in Exporters : RunInv(exporter'[q], note', held')
  BY <1>1, <1>2, <1>3, RunsKeep
<1>. QED  BY <1>1, <1>2, <1>4, NoteStep

LEMMA FindStep ==
    ASSUME IInv, NEW e \in Exporters, NEW c \in Cards, FindNote(e, c)
    PROVE  IInv'
<1>. DEFINE E == exporter[e]
            n == Resolve(E.cards[c], c)
            F == [E EXCEPT !.todo = @ \ {c}, !.pending = @ \cup {c}]
            G == [E EXCEPT !.pc = "inspect", !.key = c, !.note = n]
<1>1. E \in ExporterState /\ E.pc = "find" /\ UNCHANGED <<card, note, held, used>>
  BY Types DEF FindNote
<1>2. n \in Nat /\ (n # 0 => OfCard(n, c, note))
  BY ResolveFinds
<1>3. exporter' = [exporter EXCEPT ![e] = IF n = 0 THEN F ELSE G]
  BY DEF FindNote
<1>. HIDE DEF n
<1>4. F \in ExporterState /\ F.pc = "find"
  BY <1>1 DEF ExporterState
<1>5. G \in ExporterState /\ G.pc = "inspect" /\ G.key = c /\ G.note = n
  BY <1>1, <1>2 DEF ExporterState
<1>. HIDE DEF F, G
<1>6. RunInv(F, note, held) /\ (n # 0 => RunInv(G, note, held))
  BY <1>2, <1>4, <1>5 DEF RunInv
<1>7. CASE n = 0
  BY <1>1, <1>3, <1>4, <1>6, <1>7, Types, LocalStep
<1>8. CASE n # 0
  BY <1>1, <1>3, <1>5, <1>6, <1>8, Types, LocalStep
<1>. QED  BY <1>7, <1>8

LEMMA CheckStep ==
    ASSUME IInv, NEW e \in Exporters, NEW c \in Cards, CheckAdd(e, c)
    PROVE  IInv'
<1>. DEFINE E == exporter[e]
            F == [E EXCEPT !.pc = "add", !.key = c]
<1>1. E \in ExporterState /\ UNCHANGED <<card, note, held, used>>
  BY Types DEF CheckAdd
<1>2. CASE Duplicates(c) = {}
  <2>1. exporter' = [exporter EXCEPT ![e] = F]
    BY <1>2 DEF CheckAdd
  <2>2. F \in ExporterState /\ F.pc = "add" /\ F.key = c
    BY <1>1 DEF ExporterState
  <2>. HIDE DEF F
  <2>3. RunInv(F, note, held)
    BY <2>2 DEF RunInv
  <2>. QED  BY <1>1, <2>1, <2>2, <2>3, Types, LocalStep
<1>3. CASE Duplicates(c) # {}
  <2>1. exporter' = [exporter EXCEPT ![e] = AfterRefusal(E, c)]
    BY <1>3 DEF CheckAdd
  <2>2. AfterRefusal(E, c) \in ExporterState /\ RunInv(AfterRefusal(E, c), note, held)
    BY <1>1, RefusalTypes
  <2>. QED  BY <1>1, <2>1, <2>2, Types, LocalStep
<1>. QED  BY <1>2, <1>3

\* The steps that only move a run along, or end it.
LEMMA MoveStep ==
    ASSUME IInv, NEW e \in Exporters,
           Preflight(e) \/ BeginCreating(e) \/ EndExport(e) \/ LoseCall(e) \/ Crash(e)
    PROVE  IInv'
<1>. DEFINE E == exporter[e]
            F == [E EXCEPT !.pc = "find"]
            G == [E EXCEPT !.pc = "create", !.late = TRUE, !.todo = E.pending, !.pending = {}]
            H(c) == [E EXCEPT !.todo = @ \ {c}]
<1>1. E \in ExporterState /\ UNCHANGED <<card, note, held>>
  BY Types DEF Preflight, BeginCreating, EndExport, LoseCall, Crash
<1>2. used' \in [ingests : 0..MaxIngests, edits : 0..MaxEdits, faults : 0..MaxFaults]
  BY Types, UsedTypes DEF Preflight, BeginCreating, EndExport, LoseCall, Crash, Fault
<1>3. F \in ExporterState /\ RunInv(F, note, held)
  BY <1>1 DEF ExporterState, RunInv
<1>4. G \in ExporterState /\ RunInv(G, note, held)
  BY <1>1 DEF ExporterState, RunInv
<1>5. ASSUME NEW c, E.pc = "create" PROVE H(c) \in ExporterState /\ RunInv(H(c), note, held)
  BY <1>1, <1>5 DEF ExporterState, RunInv
<1>6. CASE Preflight(e)
  <2>1. exporter' = [exporter EXCEPT ![e] = F]
    BY <1>6, Types DEF Preflight
  <2>. QED  BY <1>1, <1>2, <1>3, <2>1, LocalStep
<1>7. CASE BeginCreating(e)
  <2>1. exporter' = [exporter EXCEPT ![e] = G]
    BY <1>7, Types DEF BeginCreating
  <2>. QED  BY <1>1, <1>2, <1>4, <2>1, LocalStep
<1>8. CASE exporter' = [exporter EXCEPT ![e] = IdleExporter]
  BY <1>1, <1>2, <1>8, IdleTypes, LocalStep
<1>9. CASE exporter' = [exporter EXCEPT ![e] = Done(E)]
  BY <1>1, <1>2, <1>9, DoneTypes, LocalStep
<1>10. ASSUME NEW c, E.pc = "create", exporter' = [exporter EXCEPT ![e].todo = @ \ {c}]
       PROVE  IInv'
  <2>1. exporter' = [exporter EXCEPT ![e] = H(c)]
    BY <1>10, Types
  <2>. QED  BY <1>1, <1>2, <1>5, <1>10, <2>1, LocalStep
<1>. QED  BY <1>6, <1>7, <1>8, <1>9, <1>10 DEF Preflight, BeginCreating, EndExport, LoseCall, Crash

LEMMA Step == IInv /\ [Next]_vars => IInv'
<1> SUFFICES ASSUME IInv, [Next]_vars PROVE IInv'
  OBVIOUS
<1>1. ASSUME NEW e \in Exporters, ExporterStep(e) PROVE IInv'
  BY <1>1, MoveStep, FindStep, CheckStep, AddStep, InspectStep, UpdateStep, PersistStep
     DEF ExporterStep
<1>2. CASE UNCHANGED vars
  BY <1>2 DEF vars, IInv, TypeInv, ExportInv
<1>. QED  BY <1>1, <1>2, StoreStep, EditStep, DeleteStep, StartStep, MoveStep, AnswerStep
          DEF Next

\* A deck of the user's own notes.
LEMMA InitNotes ==
    ASSUME NEW S \in SUBSET Cards
    PROVE  LET s == SetToSeq({OwnNote(c) : c \in S})
               h == [c \in Cards |-> {}]
           IN  s \in Notes /\ NotesInv(s, h)
<1>. DEFINE T == {OwnNote(c) : c \in S}
            s == SetToSeq(T)
            h == [c \in Cards |-> {}]
<1>1. \A c \in Cards : OwnNote(c) \in Note /\ OwnNote(c).tag = Absent /\ OwnNote(c).front = c
  BY DEF OwnNote, Note, Fields
<1>2. IsFiniteSet(T)
  <2>1. IsFiniteSet(S)
    BY NamesType, FS_Subset
  <2>2. [c \in S |-> OwnNote(c)] \in Surjection(S, T)
    BY DEF Surjection
  <2>. QED  BY <2>1, <2>2, FS_Surjection
<1>3. s \in [1..Cardinality(T) -> T] /\ Cardinality(T) \in Nat
  <2>1. Cardinality(T) \in Nat /\ ExistsBijection(1..Cardinality(T), T)
    BY <1>2, FS_CardinalityType
  <2>. HIDE DEF T
  <2>2. PICK f \in [1..Cardinality(T) -> T] : IsInjective(f)
    BY <2>1 DEF ExistsBijection, Bijection, Injection
  <2>. QED  BY <2>1, <2>2 DEF SetToSeq
<1>4. \A x \in T : x \in Note /\ x.tag = Absent /\ x = OwnNote(x.front)
  BY <1>1
<1>. HIDE DEF T, s
<1>5. s \in Notes
  <2>1. s \in [1..Cardinality(T) -> Note \cup {Absent}]
    BY <1>3, <1>4
  <2>. QED  BY <1>3, <2>1, SeqDef DEF Notes
<1>6. NotesInv(s, h)
  BY <1>3, <1>4 DEF NotesInv
<1>. QED  BY <1>5, <1>6 DEF s, T

LEMMA Start == Init => IInv
<1> SUFFICES ASSUME Init PROVE IInv
  OBVIOUS
<1>1. PICK S \in SUBSET Cards : note = SetToSeq({OwnNote(c) : c \in S})
  BY DEF Init
<1>2. held = [c \in Cards |-> {}]
  BY DEF Init
<1>3. note \in Notes /\ NotesInv(note, held)
  BY <1>1, <1>2, InitNotes
<1>4. NoCard \in CardRecord /\ NoCard.note = 0 /\ NoCard.base = NoBase
  BY DEF NoCard, CardRecord
<1>5. card \in [Cards -> CardRecord] /\ CardsInv(card, note, held)
  BY <1>4 DEF Init, CardsInv
<1>6. /\ exporter \in [Exporters -> ExporterState]
      /\ \A e \in Exporters : RunInv(exporter[e], note, held)
  BY IdleTypes DEF Init
<1>7. held \in Holdings
  BY <1>2 DEF Holdings
<1>8. used \in [ingests : 0..MaxIngests, edits : 0..MaxEdits, faults : 0..MaxFaults]
  BY BoundsType DEF Init
<1>. QED  BY <1>3, <1>5, <1>6, <1>7, <1>8 DEF IInv, TypeInv, ExportInv

LEMMA Invariant == Spec => []IInv
  BY Start, Step, PTL DEF Spec

----------------------------------------------------------------------------
(* The theorems *)

\* Every reachable state is well typed.
THEOREM TypeCorrect == Spec => []TypeOK
<1>1. IInv => TypeOK
  BY DEF IInv, TypeInv, TypeOK, ExporterState, Notes, Holdings
<1>. QED  BY <1>1, Invariant, PTL

\* However many runs overlap, die or lose answers, and whatever the user does, a
\* card has one note at most, and the id on record for it is that of its note.
THEOREM OneNotePerCardHolds == Spec => []OneNotePerCard
<1>1. IInv => OneNotePerCard
  <2> SUFFICES ASSUME IInv, NEW c \in Cards
               PROVE  /\ Cardinality(Tagged(c)) <= 1
                      /\ card[c].note \in Live => note[card[c].note].tag = c
    BY DEF OneNotePerCard
  <2>1. 0 \notin DOMAIN note
    BY Types, NotesDomain
  <2>2. card[c].note \in Live => note[card[c].note].tag = c
    BY <2>1, Types DEF CardsInv, OfCard, Live
  <2>3. CASE Tagged(c) = {}
    BY <2>2, <2>3, FS_EmptySet
  <2>4. CASE Tagged(c) # {}
    <3>. PICK n \in Tagged(c) : TRUE
      BY <2>4
    <3>1. c # Absent
      BY NamesType
    <3>2. \A m \in Tagged(c) : m = n
      BY <3>1, Types DEF NotesInv, Tagged, Live
    <3>3. Tagged(c) = {n}
      BY <3>2
    <3>4. Cardinality(Tagged(c)) = 1
      BY <3>3, FS_Singleton
    <3>. QED  BY <2>2, <3>4
  <2>. QED  BY <2>2, <2>3, <2>4
<1>. QED  BY <1>1, Invariant, PTL

\* The base of a card's next merge is a state some note of the card was in,
\* whichever calls and answers were lost on the way.
THEOREM BaseWasHeldHolds == Spec => []BaseWasHeld
<1>1. IInv => BaseWasHeld
  BY DEF IInv, ExportInv, CardsInv, BaseWasHeld
<1>. QED  BY <1>1, Invariant, PTL

\* A step of the user or of a run that changes a note of the user's own.
LEMMA OwnKept == IInv /\ IInv' /\ [Next]_vars =>
    [\A n \in Live : note[n].tag = Absent => note'[n] = Absent \/ note'[n] = note[n]]_vars
<1> SUFFICES ASSUME IInv, IInv', [Next]_vars, NEW n \in Live, note[n].tag = Absent
             PROVE  note'[n] = Absent \/ note'[n] = note[n]
  OBVIOUS
<1>1. /\ n \in DOMAIN note /\ note[n] # Absent /\ note[n] \in Note
      /\ note[n] = OwnNote(note[n].front)
  BY Types, NotesDomain DEF Live, NotesInv
<1>2. CASE UNCHANGED note
  BY <1>2
<1>3. ASSUME NEW m \in Live, DeleteNote(m) PROVE note'[n] = Absent \/ note'[n] = note[n]
  BY <1>1, <1>3 DEF DeleteNote
<1>4. ASSUME NEW m \in Live, NEW k \in FieldNames, EditNote(m, k)
      PROVE  note'[n] = Absent \/ note'[n] = note[n]
  <2>. DEFINE x == [note[n] EXCEPT !.fields[k] = Mine, !.edited = @ \cup {k}]
  <2>1. x = note[n]
    BY <1>1, OwnEdited DEF Note
  <2>2. note'[n] = IF n = m THEN x ELSE note[n]
    BY <1>1, <1>4 DEF EditNote
  <2>. HIDE DEF x
  <2>. QED  BY <2>1, <2>2
<1>5. ASSUME NEW e \in Exporters, StartExport(e)
      PROVE  note'[n] = Absent \/ note'[n] = note[n]
  <2>1. note[n].req # e
    BY <1>1, NamesType DEF OwnNote
  <2>. QED  BY <1>1, <1>5, <2>1 DEF StartExport
<1>6. ASSUME NEW e \in Exporters, exporter[e].pc = "add", NoteAdded(e)
      PROVE  note'[n] = Absent \/ note'[n] = note[n]
  <2>1. /\ exporter[e].key \in Cards
        /\ LocalFields(exporter[e].cards[exporter[e].key].content) \in Fields
    BY <1>6, Types, AddedKeeps DEF RunInv
  <2>2. PICK x \in Note : note' = Append(note, x)
    BY <1>6, <2>1 DEF NoteAdded, Note
  <2>3. n \in 1..Len(note)
    BY <1>1, Types, NotesDomain
  <2>. QED  BY <2>2, <2>3, Types, AppendProperties DEF Notes
<1>7. ASSUME NEW e \in Exporters, exporter[e].pc = "update", NoteUpdated(e)
      PROVE  note'[n] = Absent \/ note'[n] = note[n]
  <2>1. exporter[e].key \in Cards /\ note[exporter[e].note].tag = exporter[e].key
    BY <1>7, Types DEF RunInv, OfCard, NoteUpdated, Live
  <2>2. exporter[e].note # n
    BY <2>1, NamesType
  <2>. QED  BY <1>1, <1>7, <2>2 DEF NoteUpdated
<1>8. ASSUME NEW e \in Exporters,
             ExporterStep(e) \/ LoseCall(e) \/ LoseAnswer(e) \/ Crash(e)
      PROVE  \/ UNCHANGED note
             \/ exporter[e].pc = "add" /\ NoteAdded(e)
             \/ exporter[e].pc = "update" /\ NoteUpdated(e)
  BY <1>8 DEF ExporterStep, Preflight, FindNote, CheckAdd, BeginCreating, AddNote,
     InspectNote, UpdateNote, PersistCardSync, EndExport, LoseCall, LoseAnswer, Crash
<1>9. CASE UNCHANGED vars
  BY <1>2, <1>9 DEF vars
<1>10. ASSUME NEW c \in Cards, NEW v \in 1..MaxVersion, StoreContent(c, v)
       PROVE  UNCHANGED note
  BY <1>10 DEF StoreContent
<1>. QED  BY <1>2, <1>3, <1>4, <1>5, <1>6, <1>7, <1>8, <1>9, <1>10 DEF Next

\* No run ever writes to a note of the user's own, not even to one that keeps a
\* card from getting a note.
THEOREM OwnNotesKeptAlways == Spec => OwnNotesKept
  BY OwnKept, Invariant, PTL DEF Spec, OwnNotesKept
=============================================================================
