-------------------------- MODULE IncrementalSync --------------------------
(***************************************************************************)
(* sync/orchestrator.py, source_resolution.py, change_detection.py,        *)
(* cards_bridge.py and upload_persistence.py over the tables sources,      *)
(* chunks and cards of the state store: what a run ingests, what it skips  *)
(* because a hash has not changed, and in which order it records what it   *)
(* has done.                                                               *)
(*                                                                         *)
(* A document is the sequence of its LLM units, and a hash is the thing    *)
(* hashed.  A card's content is its meaning, a number that is also the     *)
(* meaning's length; 0 is no meaning at all.                               *)
(***************************************************************************)
EXTENDS Naturals, FiniteSets, Sequences, Functions

CONSTANTS
    Runs,        \* callers of run_incremental_sync
    Uploads,     \* HTTP requests in persist_api_upload
    Local,       \* local files of the source set
    Drive,       \* Google Drive files of the source set
    Docs,        \* those that are native Google documents
    Units,       \* texts of LLM units
    Terms,       \* headwords
    Vocabulary,  \* Vocabulary[u][t]: the meaning of t the LLM finds in u
    Documents,   \* what a file may hold: non-empty sequences of units
    Absent,      \* no row
    MaxUnits,    \* the longest document
    MaxEdits,    \* bound: edits of files
    MaxFaults,   \* bound: LLM calls that fail for good, runs that die
    MaxUploads   \* bound: uploads

Sources == Local \cup Drive

ASSUME SourcesDistinct == Local \cap Drive = {} /\ Docs \subseteq Drive
ASSUME VocabularyType == Vocabulary \in [Units -> [Terms -> Nat]]
ASSUME DocumentsType ==
    /\ MaxUnits \in Nat \ {0}
    /\ Documents \subseteq {d \in Seq(Units) : d # <<>> /\ Len(d) <= MaxUnits}
ASSUME AbsentDistinct == Absent \notin Units \cup Sources
ASSUME BoundsType == /\ MaxEdits \in Nat
                     /\ MaxFaults \in Nat
                     /\ MaxUploads \in Nat

VARIABLES
    file,    \* file[s]: the document and its Drive revision
    source,  \* table sources
    chunk,   \* table chunks: chunk[s][i]
    card,    \* table cards: the meaning of each headword, 0 without a row
    sheet,   \* the exported file: headword to meaning
    run,     \* local variables of run_incremental_sync
    upload,  \* local variables of persist_api_upload
    failed,  \* history: the units whose LLM call failed for good
    used     \* how much of each bound is used up

store == <<source, chunk, card>>
vars == <<file, store, sheet, run, upload, failed, used>>

NoItems == [t \in Terms |-> 0]
Headwords(items) == {t \in Terms : items[t] # 0}
TermsOf(u) == Headwords(Vocabulary[u])
Positions == 1..MaxUnits

NoRevision == [f \in Drive |-> 0]

IdleRun == [pc |-> "idle", todo |-> {}, listed |-> FALSE, metas |-> NoRevision,
            source |-> Absent, prev |-> Absent, doc |-> <<>>, rev |-> 0,
            unit |-> 1, items |-> <<>>, left |-> {}]
IdleUpload == [pc |-> "idle", items |-> NoItems, left |-> {}]

Init ==
    /\ file \in [Sources -> [doc : Documents, rev : {1}]]
    /\ source = [s \in Sources |-> Absent]
    /\ chunk = [s \in Sources |-> [i \in Positions |-> Absent]]
    /\ card = NoItems
    /\ sheet = NoItems
    /\ run = [r \in Runs |-> IdleRun]
    /\ upload = [k \in Uploads |-> IdleUpload]
    /\ failed = {}
    /\ used = [edits |-> 0, faults |-> 0, uploads |-> 0]

\* dedupe_llm_items: of several meanings of a headword the longest wins.
LongestOf(many, t) == CHOOSE m \in {many[i][t] : i \in DOMAIN many} :
                          \A i \in DOMAIN many : many[i][t] <= m
Longest(many) == [t \in Terms |-> LongestOf(many, t)]

----------------------------------------------------------------------------
(* The choice of the next document *)

\* Every source, or those of only_file_ids, which names Drive files that changed.
StartRun(r, S) ==
    /\ run[r].pc = "idle"
    /\ S # {}
    /\ run' = [run EXCEPT ![r] = [IdleRun EXCEPT !.pc = "next", !.todo = S]]
    /\ UNCHANGED <<file, store, sheet, upload, failed, used>>

\* A native Google document has no headRevisionId.
HeadRevision(f) == IF f \in Docs THEN 0 ELSE file[f].rev

\* _collect_google_drive_metas, for all files at once.
CollectMetas(r) ==
    /\ run[r].pc = "next"
    /\ run[r].todo \cap Drive # {}
    /\ ~run[r].listed
    /\ run' = [run EXCEPT ![r].listed = TRUE,
                          ![r].metas = [f \in Drive |-> HeadRevision(f)]]
    /\ UNCHANGED <<file, store, sheet, upload, failed, used>>

Done(R) == [R EXCEPT !.pc = "next", !.todo = @ \ {R.source}, !.source = Absent,
                     !.prev = Absent, !.doc = <<>>, !.rev = 0, !.unit = 1,
                     !.items = <<>>]

Begin(R, s, doc, rev) ==
    [R EXCEPT !.pc = "check", !.source = s, !.doc = doc, !.rev = rev]

\* Mutant: a document that was ingested once is skipped.
SkipAnyKnown(previous, doc) == previous # Absent

\* should_skip_document_by_stored_hash
SkipByHash(previous, doc) == previous # Absent /\ previous.doc = doc

\* resolve_local_file_source
ReadLocal(r, s) ==
    /\ run[r].pc = "next"
    /\ s \in run[r].todo \cap Local
    /\ run' = [run EXCEPT ![r] =
           IF SkipByHash(source[s], file[s].doc)
           THEN Done([@ EXCEPT !.source = s])
           ELSE Begin(@, s, file[s].doc, 0)]
    /\ UNCHANGED <<file, store, sheet, upload, failed, used>>

\* _drive_revision_unchanged; Drive's API has no etag of a file to compare.
RevisionUnchanged(previous, rev) ==
    previous # Absent /\ rev # 0 /\ previous.rev = rev

\* A file whose revision has changed is downloaded next.
CheckRevision(r, f) ==
    /\ run[r].pc = "next"
    /\ f \in run[r].todo \cap Drive
    /\ run[r].listed
    /\ run' = [run EXCEPT ![r] =
           IF RevisionUnchanged(source[f], run[r].metas[f])
           THEN Done([@ EXCEPT !.source = f])
           ELSE [@ EXCEPT !.pc = "fetch", !.source = f, !.prev = source[f]]]
    /\ UNCHANGED <<file, store, sheet, upload, failed, used>>

\* import_documents asks for the metadata again, and then for the bytes.
FetchMeta(r) ==
    /\ run[r].pc = "fetch"
    /\ run' = [run EXCEPT ![r] =
           [@ EXCEPT !.pc = "bytes", !.rev = HeadRevision(run[r].source)]]
    /\ UNCHANGED <<file, store, sheet, upload, failed, used>>

\* The hash is compared with the source record read before the download.
FetchBytes(r) ==
    /\ run[r].pc = "bytes"
    /\ LET f == run[r].source IN
       run' = [run EXCEPT ![r] =
           IF SkipByHash(run[r].prev, file[f].doc) THEN Done(@)
           ELSE Begin(@, f, file[f].doc, run[r].rev)]
    /\ UNCHANGED <<file, store, sheet, upload, failed, used>>

----------------------------------------------------------------------------
(* extract_llm_vocabulary_items: one unit after the other *)

CurrentUnit(r) == run[r].doc[run[r].unit]
StoredChunk(r) == chunk[run[r].source][run[r].unit]

\* Mutant: a unit that was processed once is not read again.
NeedsLlmOnce(previous, unit) == previous = Absent

\* chunk_needs_llm
ChunkNeedsLlm(previous, unit) == previous = Absent \/ previous.sha # unit

CheckUnit(r) ==
    /\ run[r].pc = "check"
    /\ run' = [run EXCEPT ![r].pc =
           IF ChunkNeedsLlm(StoredChunk(r), CurrentUnit(r)) THEN "llm" ELSE "cached"]
    /\ UNCHANGED <<file, store, sheet, upload, failed, used>>

\* on_chunk_processed; after the last unit finish_pipeline_after_llm merges the
\* items of all units into the rows to store.
Processed(R, items) ==
    LET all == Append(R.items, items) IN
    IF R.unit < Len(R.doc)
    THEN [R EXCEPT !.pc = "check", !.unit = @ + 1, !.items = all]
    ELSE [R EXCEPT !.pc = "cards", !.unit = 1, !.items = all,
                   !.left = Headwords(Longest(all))]

Extract(r) ==
    /\ run[r].pc = "llm"
    /\ run' = [run EXCEPT ![r] = Processed(@, Vocabulary[CurrentUnit(r)])]
    /\ UNCHANGED <<file, store, sheet, upload, failed, used>>

\* The retries are used up, or the answer is not JSON: the unit has no items
\* and the run goes on.
ExtractFails(r) ==
    /\ run[r].pc = "llm"
    /\ used.faults < MaxFaults
    /\ run' = [run EXCEPT ![r] = Processed(@, NoItems)]
    /\ failed' = failed \cup {CurrentUnit(r)}
    /\ used' = [used EXCEPT !.faults = @ + 1]
    /\ UNCHANGED <<file, store, sheet, upload>>

\* _load_cached reads the chunk row a second time, and the cards it names as
\* they are now.
LoadCached(r) ==
    /\ run[r].pc = "cached"
    /\ LET rec == StoredChunk(r)
           ids == IF rec = Absent THEN {} ELSE rec.ids
       IN  run' = [run EXCEPT ![r] = Processed(@,
                      [t \in Terms |-> IF t \in ids THEN card[t] ELSE 0])]
    /\ UNCHANGED <<file, store, sheet, upload, failed, used>>

----------------------------------------------------------------------------
(* What a run records: the cards, then the source, then the chunks *)

\* One upsert per row.  The record is made of the row alone as far as the
\* content goes, and an upsert of the same content changes nothing.
StoreCard(r, t) ==
    /\ run[r].pc = "cards"
    /\ t \in run[r].left
    /\ card' = [card EXCEPT ![t] = Longest(run[r].items)[t]]
    /\ run' = [run EXCEPT ![r].left = @ \ {t}]
    /\ UNCHANGED <<file, source, chunk, sheet, upload, failed, used>>

StoreSource(r) ==
    /\ run[r].pc = "cards"
    /\ run[r].left = {}
    /\ source' = [source EXCEPT ![run[r].source] =
                      [doc |-> run[r].doc, rev |-> run[r].rev]]
    /\ run' = [run EXCEPT ![r].pc = "chunks"]
    /\ UNCHANGED <<file, chunk, card, sheet, upload, failed, used>>

\* Mutant: the ids of the whole document so far, not of the unit.
IdsSoFar(r) == {t \in Terms : \E i \in 1..run[r].unit : run[r].items[i][t] # 0}

\* Mutant: what the cards hold, not their ids.
ChunkMeanings(r) == {card[t] : t \in Headwords(run[r].items[run[r].unit])}

\* _persist_chunk_records: the cards found under the unit's headwords.
ChunkIds(r) == {t \in Headwords(run[r].items[run[r].unit]) : card[t] # 0}

StoreChunk(r) ==
    /\ run[r].pc = "chunks"
    /\ chunk' = [chunk EXCEPT ![run[r].source][run[r].unit] =
                     [sha |-> CurrentUnit(r), ids |-> ChunkIds(r)]]
    /\ run' = [run EXCEPT ![r] =
           IF run[r].unit < Len(run[r].doc)
           THEN [@ EXCEPT !.unit = run[r].unit + 1]
           ELSE Done(@)]
    /\ UNCHANGED <<file, source, card, sheet, upload, failed, used>>

\* After the last source every file exporter writes all the cards anew.
EndRun(r) ==
    /\ run[r].pc = "next"
    /\ run[r].todo = {}
    /\ sheet' = card
    /\ run' = [run EXCEPT ![r] = IdleRun]
    /\ UNCHANGED <<file, store, upload, failed, used>>

\* An exception in any step, or the death of the process.
CrashRun(r) ==
    /\ run[r].pc # "idle"
    /\ used.faults < MaxFaults
    /\ run' = [run EXCEPT ![r] = IdleRun]
    /\ used' = [used EXCEPT !.faults = @ + 1]
    /\ UNCHANGED <<file, store, sheet, upload, failed>>

----------------------------------------------------------------------------
(* persist_api_upload, after the upload went through the whole pipeline *)

BeginUpload(k, u) ==
    /\ upload[k].pc = "idle"
    /\ used.uploads < MaxUploads
    /\ upload' = [upload EXCEPT ![k] =
           [IdleUpload EXCEPT !.pc = "cards", !.items = Vocabulary[u],
                              !.left = TermsOf(u)]]
    /\ used' = [used EXCEPT !.uploads = @ + 1]
    /\ UNCHANGED <<file, store, sheet, run, failed>>

StoreUploadedCard(k, t) ==
    /\ t \in upload[k].left
    /\ card' = [card EXCEPT ![t] = upload[k].items[t]]
    /\ upload' = [upload EXCEPT ![k].left = @ \ {t}]
    /\ UNCHANGED <<file, source, chunk, sheet, run, failed, used>>

\* The source record of an upload is never read again.
EndUpload(k) ==
    /\ upload[k].pc = "cards"
    /\ upload[k].left = {}
    /\ upload' = [upload EXCEPT ![k] = IdleUpload]
    /\ UNCHANGED <<file, store, sheet, run, failed, used>>

----------------------------------------------------------------------------
(* Whoever writes the files *)

EditFile(s, doc) ==
    /\ used.edits < MaxEdits
    /\ doc # file[s].doc
    /\ file' = [file EXCEPT ![s] = [doc |-> doc, rev |-> @.rev + 1]]
    /\ used' = [used EXCEPT !.edits = @ + 1]
    /\ UNCHANGED <<store, sheet, run, upload, failed>>

RunStep(r) ==
    \/ CollectMetas(r)
    \/ \E s \in Local : ReadLocal(r, s)
    \/ \E f \in Drive : CheckRevision(r, f)
    \/ FetchMeta(r)
    \/ FetchBytes(r)
    \/ CheckUnit(r)
    \/ Extract(r)
    \/ LoadCached(r)
    \/ \E t \in Terms : StoreCard(r, t)
    \/ StoreSource(r)
    \/ StoreChunk(r)
    \/ EndRun(r)

UploadStep(k) ==
    \/ \E t \in Terms : StoreUploadedCard(k, t)
    \/ EndUpload(k)

Next ==
    \/ \E r \in Runs : \/ \E S \in {Sources} \cup SUBSET Drive : StartRun(r, S)
                       \/ RunStep(r)
                       \/ ExtractFails(r)
                       \/ CrashRun(r)
    \/ \E k \in Uploads : UploadStep(k) \/ \E u \in Units : BeginUpload(k, u)
    \/ \E s \in Sources, doc \in Documents : EditFile(s, doc)

\* The timer starts a run of the whole source set again and again, whatever runs
\* of single files are started in between, and a run that is not killed goes on.
Fairness ==
    \A r \in Runs : SF_vars(StartRun(r, Sources)) /\ WF_vars(RunStep(r))

Spec == Init /\ [][Next]_vars /\ Fairness

----------------------------------------------------------------------------
(* Properties *)

Rows == {Absent} \cup [sha : Units, ids : SUBSET Terms]
Meanings == [Terms -> Nat]

TypeOK ==
    /\ file \in [Sources -> [doc : Documents, rev : Nat]]
    /\ source \in [Sources -> {Absent} \cup [doc : Documents, rev : Nat]]
    /\ chunk \in [Sources -> [Positions -> Rows]]
    /\ card \in Meanings
    /\ sheet \in Meanings
    /\ run \in [Runs ->
           [pc : {"idle", "next", "fetch", "bytes", "check", "llm", "cached", "cards",
                 "chunks"},
            todo : SUBSET Sources, listed : BOOLEAN, metas : [Drive -> Nat],
            source : {Absent} \cup Sources,
            prev : {Absent} \cup [doc : Documents, rev : Nat],
            doc : Documents \cup {<<>>}, rev : Nat, unit : Positions,
            items : Seq(Meanings), left : SUBSET Terms]]
    /\ upload \in [Uploads -> [pc : {"idle", "cards"}, items : Meanings,
                               left : SUBSET Terms]]
    /\ failed \subseteq Units
    /\ used \in [edits : 0..MaxEdits, faults : 0..MaxFaults,
                 uploads : 0..MaxUploads]

\* A document whose hash is recorded is skipped from then on, so every headword
\* of its units has a card, except in a unit the LLM failed on.  Cards, source
\* record and chunk records are written one after the other, and the run may
\* die between any two (orchestrator.py:176-209).
NoTermLost ==
    \A s \in Sources : source[s] # Absent =>
        \A i \in DOMAIN source[s].doc :
            \/ \A t \in TermsOf(source[s].doc[i]) : card[t] # 0
            \/ source[s].doc[i] \in failed

\* What the chunk table offers in place of an LLM call is what the LLM found in
\* a text of that hash: all of its cards and no others, or none where the call
\* failed (orchestrator.py:129-141 and 88-104).
CacheSound ==
    \A s \in Sources, i \in Positions : chunk[s][i] # Absent =>
        \/ chunk[s][i].ids = TermsOf(chunk[s][i].sha)
        \/ chunk[s][i].ids = {} /\ chunk[s][i].sha \in failed

\* A unit that stays in its file reaches the exported file in the end, whatever
\* runs died on the way and whichever sources the other runs were restricted
\* to, unless the LLM failed on it (docs/change-detection.md, layers 1 to 3).
Exported ==
    \A s \in Sources, u \in Units :
        <>[](\E i \in DOMAIN file[s].doc : file[s].doc[i] = u) =>
            <>[]((\A t \in TermsOf(u) : sheet[t] # 0) \/ u \in failed)
=============================================================================
