---------------------------- MODULE DirectExport ----------------------------
(***************************************************************************)
(* export/ankiweb/exporter.py: export_to_ankiweb, which brings the stored  *)
(* cards to a desktop Anki over AnkiConnect.  A run reads all the cards    *)
(* once; it first works on those whose note it finds, then on the others.  *)
(* Meanwhile cards are stored, the user edits and deletes notes, another   *)
(* run may be at work, a call or its answer may be lost and a run may die. *)
(*                                                                         *)
(* A call of AnkiConnect and a write of the store are single steps; so is  *)
(* the resolution of a note, whose two calls only read.  A content is a    *)
(* version number and stands for every field of the card but the first,    *)
(* which is the card's key.                                                *)
(***************************************************************************)
EXTENDS ThreeWayMerge, Naturals, Sequences, FiniteSets, SequencesExt

CONSTANTS
    Cards,       \* natural keys, and first fields, of the cards
    Exporters,   \* processes that export
    Absent,      \* no note; no tag
    Mine,        \* what the user types into a field
    Policy,      \* conflict_policy
    Edits,       \* what the user may do to a note
    Faults,      \* kinds of faults that may happen
    MaxVersion,  \* bound: contents of a card
    MaxIngests,  \* bound: cards stored
    MaxEdits,    \* bound: notes edited or deleted by the user
    MaxFaults    \* bound: faults

ASSUME NamesType ==
    /\ Policy \in Policies
    /\ IsFiniteSet(Cards) /\ Absent \notin Cards \cup Exporters
    /\ Mine \notin Nat
    /\ Edits \subseteq {"edit", "delete"}
    /\ Faults \subseteq {"call", "answer", "crash"}
ASSUME BoundsType == /\ MaxVersion \in Nat
                     /\ MaxIngests \in Nat
                     /\ MaxEdits \in Nat
                     /\ MaxFaults \in Nat

VARIABLES
    card,      \* card[c]: content, ankiweb_note_id, ankiweb_last_synced_fields
    note,      \* the notes of the deck, by note id
    exporter,  \* local variables of export_to_ankiweb
    held,      \* history: the fields notes of a card have held
    used       \* how much of each bound is used up

vars == <<card, note, exporter, held, used>>

Fields == [FieldNames -> Nat \cup {Mine}]
\* content 0: no row; note 0: no ankiweb_note_id.
CardRecord == [content : Nat, note : Nat, base : Fields \cup {NoBase}]
\* front: the first field; tag: the card of its ext_id tag; req: the run of its
\* req tag; edited: history, the fields the user has typed in.
Note == [front : Cards, tag : Cards \cup {Absent}, req : Exporters \cup {Absent},
         fields : Fields, edited : SUBSET FieldNames]

NoCard == [content |-> 0, note |-> 0, base |-> NoBase]
LocalFields(content) == [k \in FieldNames |-> content]
OwnNote(c) == [front |-> c, tag |-> Absent, req |-> Absent, edited |-> FieldNames,
               fields |-> [k \in FieldNames |-> Mine]]

Live == {n \in DOMAIN note : note[n] # Absent}
Tagged(c) == {n \in Live : note[n].tag = c}
\* Mutant: allowDuplicate is set.
NoDuplicates(c) == {}

Duplicates(c) == {n \in Live : note[n].front = c}

\* todo: the cards of the present loop; pending: those of the second one.
IdleExporter == [pc |-> "idle", late |-> FALSE, cards |-> [c \in Cards |-> NoCard], todo |-> {},
                 pending |-> {}, key |-> Absent, note |-> 0, fields |-> NoBase]

\* The deck may hold notes the user has made.
Init ==
    /\ card = [c \in Cards |-> NoCard]
    /\ \E S \in SUBSET Cards : note = SetToSeq({OwnNote(c) : c \in S})
    /\ exporter = [e \in Exporters |-> IdleExporter]
    /\ held = [c \in Cards |-> {}]
    /\ used = [ingests |-> 0, edits |-> 0, faults |-> 0]

Fault(kind) ==
    /\ kind \in Faults
    /\ used.faults < MaxFaults
    /\ used' = [used EXCEPT !.faults = @ + 1]

----------------------------------------------------------------------------
(* The pipeline and the user *)

\* vocabulary_row_to_card_record carries no delivery state, whatever the row has.
StoreContent(c, v) ==
    /\ used.ingests < MaxIngests
    /\ card' = [card EXCEPT ![c] = [NoCard EXCEPT !.content = v]]
    /\ used' = [used EXCEPT !.ingests = @ + 1]
    /\ UNCHANGED <<note, exporter, held>>

EditNote(n, k) ==
    /\ "edit" \in Edits
    /\ used.edits < MaxEdits
    /\ note' = [note EXCEPT ![n].fields[k] = Mine, ![n].edited = @ \cup {k}]
    /\ held' = IF note[n].tag = Absent THEN held
               ELSE [held EXCEPT ![note[n].tag] = @ \cup {note'[n].fields}]
    /\ used' = [used EXCEPT !.edits = @ + 1]
    /\ UNCHANGED <<card, exporter>>

DeleteNote(n) ==
    /\ "delete" \in Edits
    /\ used.edits < MaxEdits
    /\ note' = [note EXCEPT ![n] = Absent]
    /\ used' = [used EXCEPT !.edits = @ + 1]
    /\ UNCHANGED <<card, exporter, held>>

----------------------------------------------------------------------------
(* A run *)

\* Each run has a req_id of its own: no note bears it yet.
StartExport(e) ==
    /\ exporter[e].pc = "idle"
    /\ note' = [n \in DOMAIN note |->
           IF n \in Live /\ note[n].req = e THEN [note[n] EXCEPT !.req = Absent]
           ELSE note[n]]
    /\ exporter' = [exporter EXCEPT ![e] =
           [IdleExporter EXCEPT !.pc = "preflight", !.cards = card,
                                !.todo = {c \in Cards : card[c].content # 0}]]
    /\ UNCHANGED <<card, held, used>>

\* Version, permission, deck and note type are in order, or the run is over.
Preflight(e) ==
    /\ exporter[e].pc = "preflight"
    /\ exporter' = [exporter EXCEPT ![e].pc = "find"]
    /\ UNCHANGED <<card, note, held, used>>

\* Mutant: any note with the same first field will do.
ResolveByFront(rec, c) ==
    IF Duplicates(c) = {} THEN 0
    ELSE CHOOSE n \in Duplicates(c) : \A m \in Duplicates(c) : n <= m

\* Mutant: the stored note or none; no search by tag.
ResolveStored(rec, c) == IF rec.note \in Tagged(c) THEN rec.note ELSE 0

\* _resolve_note_id: the stored note if it still bears the card's tag, else the
\* earliest note that does; 0 is None.
Resolve(rec, c) ==
    IF rec.note \in Tagged(c) THEN rec.note
    ELSE IF Tagged(c) = {} THEN 0
    ELSE CHOOSE n \in Tagged(c) : \A m \in Tagged(c) : n <= m

\* To the next card of the loop.
Done(E) == [E EXCEPT !.pc = IF E.late THEN "create" ELSE "find", !.key = Absent,
                     !.todo = @ \ {E.key}, !.note = 0, !.fields = NoBase]

\* The cards whose note is found are worked on at once, the others put off.
FindNote(e, c) ==
    /\ exporter[e].pc = "find"
    /\ c \in exporter[e].todo
    /\ LET E == exporter[e]
           n == Resolve(E.cards[c], c)
       IN  exporter' = [exporter EXCEPT ![e] =
               IF n = 0 THEN [E EXCEPT !.todo = @ \ {c}, !.pending = @ \cup {c}]
               ELSE [E EXCEPT !.pc = "inspect", !.key = c, !.note = n]]
    /\ UNCHANGED <<card, note, held, used>>

BeginCreating(e) ==
    /\ exporter[e].pc = "find"
    /\ exporter[e].todo = {}
    /\ exporter' = [exporter EXCEPT ![e] =
           [@ EXCEPT !.pc = "create", !.late = TRUE, !.todo = exporter[e].pending, !.pending = {}]]
    /\ UNCHANGED <<card, note, held, used>>

\* The note cannot be added: work on the card's own note, if that is what is in
\* the way, or record an error.
AfterRefusal(E, c) ==
    LET n == Resolve(E.cards[c], c) IN
    IF n = 0 THEN Done([E EXCEPT !.key = c])
    ELSE [E EXCEPT !.pc = "inspect", !.key = c, !.note = n]

\* canAddNotesWithErrorDetail
CheckAdd(e, c) ==
    /\ exporter[e].pc = "create"
    /\ c \in exporter[e].todo
    /\ exporter' = [exporter EXCEPT ![e] =
           IF Duplicates(c) = {} THEN [@ EXCEPT !.pc = "add", !.key = c]
           ELSE AfterRefusal(@, c)]
    /\ UNCHANGED <<card, note, held, used>>

\* The state of Anki after addNotes, which adds no duplicate.
NoteAdded(e) ==
    LET c == exporter[e].key
        fields == LocalFields(exporter[e].cards[c].content)
    IN  /\ Duplicates(c) = {}
        /\ note' = Append(note, [front |-> c, tag |-> c, req |-> e,
                                 fields |-> fields, edited |-> {}])
        /\ held' = [held EXCEPT ![c] = @ \cup {fields}]

AddNote(e) ==
    LET E == exporter[e] IN
    /\ E.pc = "add"
    /\ IF Duplicates(E.key) = {}
       THEN /\ NoteAdded(e)
            /\ exporter' = [exporter EXCEPT ![e] =
                   [E EXCEPT !.pc = "persist", !.note = Len(note'),
                             !.fields = LocalFields(E.cards[E.key].content)]]
       ELSE /\ exporter' = [exporter EXCEPT ![e] = AfterRefusal(E, E.key)]
            /\ UNCHANGED <<note, held>>
    /\ UNCHANGED <<card, used>>

\* Mutant: the base is recorded before the note is written.
RecordThenWrite(e) ==
    LET E == exporter[e]
        rec == E.cards[E.key]
        merged == MergedFields(rec.base, note[E.note].fields,
                               LocalFields(rec.content), Policy)
    IN
    /\ E.pc = "inspect"
    /\ E.note \in Live
    /\ card' = [card EXCEPT ![E.key] =
           [content |-> rec.content, note |-> E.note, base |-> merged]]
    /\ exporter' = [exporter EXCEPT ![e] =
           IF merged = note[E.note].fields THEN Done(E)
           ELSE [E EXCEPT !.pc = "update", !.fields = merged]]
    /\ UNCHANGED <<note, held, used>>

\* notesInfo and the merge.  Whatever the note holds becomes the next base when
\* there is nothing to write.
InspectNote(e) ==
    LET E == exporter[e]
        rec == E.cards[E.key]
        local == LocalFields(rec.content)
        remote == note[E.note].fields
        merged == MergedFields(rec.base, remote, local, Policy)
    IN
    /\ E.pc = "inspect"
    /\ exporter' = [exporter EXCEPT ![e] =
           IF E.note \notin Live \/ note[E.note].req = e THEN Done(E)
           ELSE IF Policy = "tag-and-skip" /\ Conflicts(rec.base, remote, local) # {}
           THEN Done(E)
           ELSE [E EXCEPT !.pc = IF merged # remote THEN "update" ELSE "persist",
                          !.fields = merged]]
    /\ UNCHANGED <<card, note, held, used>>

\* The state of Anki after updateNote.
NoteUpdated(e) ==
    LET E == exporter[e] IN
    /\ E.note \in Live
    /\ note' = [note EXCEPT ![E.note].fields = E.fields, ![E.note].req = e]
    /\ held' = [held EXCEPT ![E.key] = @ \cup {E.fields}]

UpdateNote(e) ==
    LET E == exporter[e] IN
    /\ E.pc = "update"
    /\ IF E.note \in Live
       THEN /\ NoteUpdated(e)
            /\ exporter' = [exporter EXCEPT ![e].pc = "persist"]
       ELSE /\ exporter' = [exporter EXCEPT ![e] = Done(E)]
            /\ UNCHANGED <<note, held>>
    /\ UNCHANGED <<card, used>>

\* Mutant: the entry of notesInfo is recorded, not its fields.
PersistEntry(e) ==
    LET E == exporter[e] IN
    /\ E.pc = "persist"
    /\ card' = [card EXCEPT ![E.key] =
           [content |-> E.cards[E.key].content, note |-> E.note, base |-> note[E.note]]]
    /\ exporter' = [exporter EXCEPT ![e] = Done(E)]
    /\ UNCHANGED <<note, held, used>>

\* _persist_card_sync writes the record as it was read at the start of the run.
PersistCardSync(e) ==
    LET E == exporter[e] IN
    /\ E.pc = "persist"
    /\ card' = [card EXCEPT ![E.key] =
           [content |-> E.cards[E.key].content, note |-> E.note, base |-> E.fields]]
    /\ exporter' = [exporter EXCEPT ![e] = Done(E)]
    /\ UNCHANGED <<note, held, used>>

EndExport(e) ==
    /\ exporter[e].pc = "create"
    /\ exporter[e].todo = {}
    /\ exporter' = [exporter EXCEPT ![e] = IdleExporter]
    /\ UNCHANGED <<card, note, held, used>>

----------------------------------------------------------------------------
(* Faults *)

\* An AnkiConnectError ends the work on the card, but the whole run outside of
\* the two try blocks.
LoseCall(e) ==
    /\ Fault("call")
    /\ \/ /\ exporter[e].pc \in {"preflight", "find"}
          /\ exporter' = [exporter EXCEPT ![e] = IdleExporter]
       \/ /\ exporter[e].pc \in {"inspect", "update", "add"}
          /\ exporter' = [exporter EXCEPT ![e] = Done(@)]
       \/ /\ exporter[e].pc = "create"
          /\ \E c \in exporter[e].todo :
                exporter' = [exporter EXCEPT ![e].todo = @ \ {c}]
    /\ UNCHANGED <<card, note, held>>

\* Anki has done what was asked, and the run does not learn of it.
LoseAnswer(e) ==
    /\ Fault("answer")
    /\ \/ exporter[e].pc = "add" /\ NoteAdded(e)
       \/ exporter[e].pc = "update" /\ NoteUpdated(e)
    /\ exporter' = [exporter EXCEPT ![e] = Done(@)]
    /\ UNCHANGED card

Crash(e) ==
    /\ Fault("crash")
    /\ exporter[e].pc # "idle"
    /\ exporter' = [exporter EXCEPT ![e] = IdleExporter]
    /\ UNCHANGED <<card, note, held>>

ExporterStep(e) ==
    \/ Preflight(e)
    \/ \E c \in Cards : FindNote(e, c) \/ CheckAdd(e, c)
    \/ BeginCreating(e)
    \/ AddNote(e)
    \/ InspectNote(e)
    \/ UpdateNote(e)
    \/ PersistCardSync(e)
    \/ EndExport(e)

Next ==
    \/ \E c \in Cards, v \in 1..MaxVersion : StoreContent(c, v)
    \/ \E n \in Live : DeleteNote(n) \/ \E k \in FieldNames : EditNote(n, k)
    \/ \E e \in Exporters : \/ StartExport(e)
                            \/ ExporterStep(e)
                            \/ LoseCall(e)
                            \/ LoseAnswer(e)
                            \/ Crash(e)

\* A timer starts one run after the other, and a run that is not killed goes on.
Fairness == \A e \in Exporters : WF_vars(StartExport(e)) /\ WF_vars(ExporterStep(e))

Spec == Init /\ [][Next]_vars /\ Fairness

----------------------------------------------------------------------------
(* Properties *)

TypeOK ==
    /\ card \in [Cards -> CardRecord]
    /\ note \in Seq(Note \cup {Absent})
    /\ exporter \in [Exporters ->
           [pc : {"idle", "preflight", "find", "inspect", "update", "create", "add",
                  "persist"},
            late : BOOLEAN, cards : [Cards -> CardRecord], todo : SUBSET Cards,
            pending : SUBSET Cards, key : Cards \cup {Absent}, note : Nat,
            fields : Fields \cup {NoBase}]]
    /\ held \in [Cards -> SUBSET Fields]
    /\ used \in [ingests : 0..MaxIngests, edits : 0..MaxEdits, faults : 0..MaxFaults]

\* However runs overlap, die or lose answers, a card has one note at most, and
\* the note id on record is that of a note of this card (exporter.py:188-209,
\* 301-376).
OneNotePerCard ==
    \A c \in Cards :
        /\ Cardinality(Tagged(c)) <= 1
        /\ card[c].note \in Live => note[card[c].note].tag = c

\* A note of the user's own is never written to, even where it keeps a card
\* from getting a note (exporter.py:348-362).
OwnNotesKept ==
    [][\A n \in Live : note[n].tag = Absent =>
           note'[n] = Absent \/ note'[n] = note[n]]_vars

\* The base of the next merge is a state some note of the card was in: neither
\* ahead of what a lost call wrote, nor a text nobody has seen in Anki
\* (exporter.py:283-298).
BaseWasHeld == \A c \in Cards : card[c].base # NoBase => card[c].base \in held[c]

\* The content that stays in the store reaches the card's note in the end, in
\* every field the user left alone, unless a note of the user's own stands in its
\* place: a run that did not learn that its note was added is made good by a later
\* one.  A content that a run writes over with the older record it read is not
\* meant: the older one stays, and is what arrives (cards read at exporter.py:397,
\* written back at :224).
Delivered ==
    \A c \in Cards, v \in 1..MaxVersion :
        <>[](card[c].content = v /\ \A n \in Duplicates(c) : note[n].tag = c) =>
            <>[](\E n \in Tagged(c) : \A k \in FieldNames :
                     note[n].fields[k] = v \/ k \in note[n].edited)

\* Under prefer-remote a run does not overwrite what the user has typed
\* (docs/change-detection.md:112).
UserEditKept ==
    [][\A n \in Live : note'[n] # Absent =>
           \A k \in FieldNames :
               note[n].fields[k] = Mine => note'[n].fields[k] = Mine]_vars
=============================================================================
