# Verification of the Mandarin Anki deck creator

TLA+ specifications of `src/anki_deck_generator`, checked with TLC and, but for
liveness, proved with TLAPS. Paths below are relative to `src/anki_deck_generator/` unless
they start with `docs/` or `tests/`.

## 1. The system

The program reads study notes (local files or Google Drive documents), extracts
vocabulary with an LLM, enriches it from a dictionary, and keeps one card per
word in a state store. Cards leave it as CSV/XLSX files, straight into a local
Anki (AnkiConnect), or through an agent on the user's desktop that pulls batches
from the web server. Changes on Drive arrive as push notifications.

| Component | State it keeps | Operations | Hard behaviour | Module |
|---|---|---|---|---|
| Drive push events (`sync/drive_events.py`, `web/routes/drive_webhook.py`) | in-memory queue of channel ids | `enqueue_mode_a`, `drain_mode_a_queue`, `pull_changes` (Mode A), `process_pending` (Mode B) | one thread per notification, overlapping timer runs, lost and repeated notifications, process death | `DriveEvents` |
| State store (`state/sqlite_store.py`) | cards, sources, chunks, runs, `drive_channels`, `pending_edits`, `issued_batches`, `agent_cursors` | one write transaction per method | every caller spans several transactions | each table with its callers |
| DynamoDB store (`state/dynamo_store.py`) | the same | get followed by put or update, conditional updates, an index that lags | not atomic where SQLite is | `DynamoStore` |
| Incremental sync (`sync/orchestrator.py`, `change_detection.py`, `source_resolution.py`), card storage (`cards_bridge.py`, `upload_persistence.py`) | none of its own | skip by revision or hash, fetch, extract with a chunk cache, store cards, source, chunks | partial failures, crash windows, stale metadata | `IncrementalSync` |
| Drive watch channels (`sync/drive_watch.py`) | `drive_channels` | register, unregister, renew | the watch and its record are two steps | `DriveWatch` |
| AnkiWeb agent service (`sync/ankiweb_agent_service.py`, `web/routes/ankiweb_agent.py`) | batches, cursor, delivery fields of cards | `issue_pending_batch`, `ack_batch` | overlapping requests, cards changing under a batch | `PullAgent` |
| Pull agent (`agent/loop.py`) | staged ack and cursor on disk | `run_once`, `apply_batch_item`, `replay_inflight` | crash between any two steps, lost answers, refused items | `PullAgent` |
| Direct export (`export/ankiweb/exporter.py`) | delivery fields of cards | create, merge, duplicate handling | the merge's base must be what Anki had; lost answers, overlapping runs | `DirectExport` |
| Three-way merge (`export/ankiweb/merge.py`) | none | `three_way_merge` | the policies | `ThreeWayMerge` |
| Pipeline, LLM extraction (`pipeline.py`, `llm/bedrock_chain.py`) | none | extract, merge, enrich, translate, decompose, link | units enumerated twice, partial LLM failures | `Pipeline` |
| Preprocessing (`preprocess/`) | none | blocks, tables, chunks, dialogues | boundaries | `NoteText` |
| Dictionary and linking (`dictionary/enrich.py`, `linking/`) | none | decomposition, matches, winner | overlaps, ties | `Linking` |
| File exports, CLI, configuration, web and Lambda wiring | none | | a runner called without its source set | |

How they interact: a notification makes the web server queue a channel id, if
the channel is on record; a thread reads Drive's change log from the channel's
page token and writes one debounced row per file in `pending_edits`; a timer runs
Mode B, which calls the incremental sync for the files whose rows are ready and
then clears the rows. The sync runs the pipeline and writes cards. The agent
service cuts batches of the cards whose `last_updated_at` is later than
`ankiweb_last_synced_at`; the agent applies them to Anki and acknowledges. The
direct exporter reads all cards and writes to Anki itself. Threads and processes
share nothing but the store.

What makes each correct: no change may fall between two watch channels (watch);
no edit that the page token is past may be forgotten (drive events); a document
recorded as ingested has its cards, and a cache answers as the LLM did
(incremental sync); a term has one row with the right meaning (pipeline); a
headword has one card (stores); a queued card reaches Anki, has one note there,
is not skipped and not taken for delivered when it was not (agent, direct
export); what the user typed in Anki survives (merge and both exports).

## 2. Modules

| Module | Models |
|---|---|
| `DriveEvents` | Mode A and Mode B, the `pending_edits` and `drive_channels` transactions, the path of one Drive file through `run_incremental_sync` |
| `DriveEvents_proofs` | theorems about `DriveEvents` |
| `DriveWatch` | registration, renewal and unregistration of watch channels |
| `DriveWatch_proofs` | theorems about `DriveWatch` |
| `IncrementalSync` | `run_incremental_sync` and `persist_api_upload` over sources, chunks and cards |
| `IncrementalSync_proofs` | theorems about `IncrementalSync` |
| `Pipeline` | `run_pipeline` on one note; uses `NoteText` and `Linking` |
| `Pipeline_proofs` | theorems about `Pipeline` |
| `NoteText`, `Linking`, `ThreeWayMerge` | pure algorithms, as constant operators |
| `Text_proofs` | what the operators of `NoteText` and `Linking` compute: lemmas for `Pipeline_proofs` |
| `PullAgent` | agent service and agent, the writers of cards, the user; uses `ThreeWayMerge` |
| `PullAgent_proofs` | theorems about `PullAgent` |
| `DirectExport` | `export_to_ankiweb`; uses `ThreeWayMerge` |
| `DirectExport_proofs` | theorems about `DirectExport` |
| `DynamoStore` | the calls of the DynamoDB store that are not one request |
| `DynamoStore_proofs` | theorems about `DynamoStore`, the refinements among them |
| `PendingEdits`, `CardTable` | what a store promises of two of its tables: abstract specifications |
| `MCDriveEvents`, `MCIncrementalSync`, `MCPipeline` | symmetry sets and inputs for TLC |

`DriveEvents` and `DynamoStore` both implement `PendingEdits`; `DynamoStore`
also implements `CardTable`.

### DriveEvents

A revision of a file is the position of its edit in Drive's change log, a page
token is a position in the log. `token`, `pending`, `source` are tables of the
store; `queue` is `_pending_mode_a_jobs`; `worker[w]` and `runner[r]` are the
local variables of a thread in `pull_changes` and of a call of
`process_pending`.

One action is one write transaction, one Drive request or one reading of the
clock; two readings of the clock are never equal. `TakeJob`, `ListChanges`,
`StampSighting`, `UpsertFound`, `AdvancePageToken` are the steps of
`pull_changes` in their order; `StartRun`, `CollectMetas`, `SkipByRevision`,
`FetchMeta`, `FetchBytes`, `StoreSource`, `ClearRow` those of a run. `FailPull`
is an exception (the job is dropped), `CrashServer` the death of the web server
(the queue is lost), `FailRun` an exception or death anywhere in a run.

Choices that matter:
- `StartRun` reads the clock and lists the ready rows in one step. Any row
  written between the two has a later `last_seen_at` than the clock that was
  read, so the guard keeps it; other steps in between commute with the listing.
- The source record of a file is read together with `FetchMeta`; the bytes may
  be of a later revision than the one recorded.
- A listing without changes ends at the token it began with, so there is nothing
  to write and nothing to advance.
- `FailPull` may come at any step, the advance included; that `UpsertPendingEdit`
  finds its row gone when it reads it again, after a run cleared it, is one of
  its cases.
- `Unconfigured` runners are calls without a `source_set`: the `if` around
  `run_incremental_sync` is not entered, the rows are cleared.

Left out: files restored to earlier bytes, deleted files, unknown channels and
the channel token, documents without a revision id, failures of the LLM for
part of a document (`IncrementalSync`), clocks that differ between hosts,
registration and renewal of channels (`DriveWatch`).

### PullAgent

`card[c]` is the row of a card, its content a version number that stands for
all its fields. `batch` is `issued_batches` with the position as the id;
`inflight` and `saved` are the agent's files; `handler[h]` holds the local
variables of a server thread in the middle of a request. A poll is
`FindOpenBatch`, `SelectCards`, `PutBatch`; an acknowledgement is `BeginAck` (or
`RefuseAck`), then `ReadCard` and `WriteCard` per applied item, `MarkAcked`,
`SetCursor`. The agent is `FetchPending`, `ReceiveBatch`, `ApplyItem` per item,
`StageInflight`, `PostAck`, `ReceiveAck`, `SaveCursor`; after a restart
`PostAck` replays the staged file. A writer makes a record (`MakeRecord`, which
stamps it) and stores it later (`StoreCard`).

The faults are named so that a run can choose them: `request` (never arrives),
`timeout` (the agent gives up, the server goes on), `server` and `agent`
(death), `acking` (death of the agent after it posted an ack), `apply` (Anki
refuses one item, or writes the note and its answer is lost: the item is
reported as failed either way).

Choices that matter: one user and one agent; a note is found by its `ext_id`
tag, so the two operations `create` and `update` do the same; applying one item
is one step; stamps are distinct, so the tie-break by card id disappears; the
first field of a note, which is the card's key, is not edited; Anki not running
is a poll that does not happen. Left out: AnkiWeb's own sync, authentication,
`touch_agent_poll`, the export report, the results of acked items that name
unknown cards.

### DriveWatch

Time is counted in days, since the renewal runs once a day. `drive[c]` is the
last day of channel `c` at Drive, `channel[c]` its record, `client[p]` the local
variables of the operator's command and of the renewal, `notices[c]` the
notifications under way. `GetStartPageToken`, `WatchChanges`, `RecordChannel` are
the steps of `register_watch_channel`; `BeginRenewal`, `RenewChannel`, the same
three and `StopOld` those of `renew_expiring_channels`; `BeginUnregister`,
`Unwatch`, `Deactivate` those of `unregister_watch_channel`. A pull is one step
here (`Webhook`); `DriveEvents` has its details.

Choices that matter: the renewal is run every day before the day ends, since a
schedule that stops protects nothing; a failed renewal is made good by the next
day's (`RetryMargin`); the record of a replaced channel keeps its expiration, as
in the code, so that later renewals renew it again and the number of channels
grows. `MaxChannels` bounds that growth; nothing in the code does. Drive's answer to a
watch is assumed to carry an expiration: without one the record has none, and the
renewal takes the channel for a stopped one. Left out: the channel token, and
several source sets.

### IncrementalSync

A document is the sequence of its LLM units, a hash is the thing hashed, a card
is the meaning of its headword. `source`, `chunk`, `card` are tables, `sheet` the
exported file, `run[r]` and `upload[k]` local variables. The steps of a run in
their order: `StartRun`, `CollectMetas`, then per source `ReadLocal` or
`CheckRevision`, `FetchMeta` and `FetchBytes`; per unit `CheckUnit` and `Extract`,
`ExtractFails` or `LoadCached`; `StoreCard` per row, `StoreSource`, `StoreChunk`
per unit; at last `EndRun`, which writes the files. `CrashRun` ends a run
anywhere.

Choices that matter: the hash of a Drive file is compared with the record read
before the download, as in the code; a failed LLM call leaves an empty list of
items and a chunk record all the same; `_load_cached` reads the chunk row a
second time; the order of the sources is left open; the revision recorded may be
older than the bytes. Left out: trashed files (and with them the answer of
`import_documents` without a document), etags, which Drive's API does not give,
the dry run, the cap on LLM calls, the report, the list of a card's sources.

### Pipeline, NoteText, Linking

A text is a sequence of lines, each of a kind (an entry of a table, a speaker's
line, a header, a blank one, ...), a line of prose counts for one character,
characters are numbers. `Pipeline` goes through `extract_llm_vocabulary_items`
(`ExtractTable`, `ExtractText`, `NextChunk`, and `Answer`, `RetryAnswer` or
`FailAnswer` per unit) and `finish_pipeline_after_llm` (`MakeRows`, `Enrich`,
`Translate`, `Decompose`, `LinkSentence`, `FillSentences`). `NoteText` has the
functions of `preprocess/`, `Linking` those of `linking/` and the segmentation
of `dictionary/enrich.py`.

Choices that matter: the units are computed once by `LlmUnits` and met a second
time by the extraction, as in the code, so that their agreement is checked; the
translation may answer for any subset of the terms. A meaning is one of a few
texts: empty, a placeholder (`is_unknown_translation` takes both for missing),
or known. Placeholders may come from a note, from the glosses of a headword,
which may also have none, and from the LLM; `Joined` says when joined glosses are
still a placeholder. A headword without a known meaning is asked about again by
the translation, and a placeholder answer is written, noted, and followed by the
decomposition, as in the code. Left out: pinyin and the traditional form, which
are filled in as the meaning is (every entry has a traditional form, so a
decomposition always makes its note), notes that are neither of a translation
nor of a decomposition, and reading of files.

### DirectExport

`card[c]` is the row of a card with the delivery fields, `note` the notes of the
deck by id, `exporter[e]` the local variables of a run; a content stands for all
fields but the first. A run is `StartExport` (all cards are read), `Preflight`,
the first loop (`FindNote`), the second (`BeginCreating`, `CheckAdd`, `AddNote`),
for a note that exists `InspectNote` (notesInfo and the merge) and `UpdateNote`,
and `PersistCardSync`. `LoseCall` fails a call before it is carried out,
`LoseAnswer` after; `Crash` is the death of the process. The user edits and
deletes notes between any two steps, and may have notes of the same first field.

Choices that matter: the two reading calls of `_resolve_note_id` are one step;
the user does not edit the first field or the tags; a `req` tag belongs to one
run, so a new run finds no note that bears its own.

### DynamoStore

`row`, `item`, `token`, `acked` are items of the table, `index` the lagging index
`card_by_key`, `call[p]` the local variables of the call a client is in. A
sighting is `BeginSighting`, `GetRow`, `PutRow` or `UpdateRow`, `ReturnRow`; an
upsert of a card `BeginUpsertCard`, `QueryIndex`, `PutCard`; the conditional
updates are read (`GetDriveChannel`, `GetIssuedBatch`) and made (`AdvanceToken`,
`MarkBatchAcked`) in separate steps. `CutShort` ends a call anywhere.
`Exclusive` says that calls about one file or headword do not overlap, that the
row read by a sighting is up to date (the code asks for no consistent read) and
that the index has caught up; nothing in the code sees to it. Left out: calls
that are one get or put of a whole item, and scans.

### Code and model

`PROJECT.json` gives, for each definition, the file and the lines it stands for.

## 3. What is checked

Every bound is a constant. Small instances suffice where the code treats
files, cards and channels alike and each row on its own; two of a kind are
present wherever two can disturb each other, or the table below says that they
do not. Covered by proofs only: several channels of one source set
(`NoEditLost`); several server threads, batches of several cards and faults in
any number (`SyncedHasNote`, `AppliedWhileOpen`).

| Run | Instance | Shows |
|---|---|---|
| `drive_serial` | 2 files, 1 channel, 1 thread, 1 run at a time, 2 edits, 1 push fault, 1 run fault | `NoEditLost`, `EditIngested`, `SightedIngested`, `RecoveredIngested`, `TypeOK` |
| `drive_threads` | 2 files, 2 threads, 1 run at a time, 2 edits, 1 duplicate notification or forced row | `NoStarvation`, `RevisionNotAhead`, `TokenNeverMovesBack`, `ImplementsPendingEdits` |
| `watch` | channels that live 4 days and are renewed 2 days ahead, 5 days, 5 channels, 1 edit, 2 orders of the operator, 1 fault | `Covered`, `OrphansAreFaults`, `ChangeSeen`, `TypeOK` |
| `sync` | 1 run at a time, 1 upload, 1 local and 1 Drive file, 3 documents of 1 or 2 units that share a headword, 1 edit, 1 fault | `NoTermLost`, `CacheSound`, `Exported`, `TypeOK` |
| `notes` | all texts of four families: up to 5 lines cut into windows of 3 that overlap by 1; two terms with meanings, placeholders or nothing in the notes, in the dictionary and in the LLM's answers, under every setting; dialogues of up to 4 lines; sentences of up to 4 characters over three terms | `UnitIsOwn`, `NothingCut`, `RowsAsExpected`, `SentencesFit`, `SpeakersHeard`, `TypeOK` |
| `pull_queue` | 2 cards, 3 stores, 1 server thread, batches of 1, 1 user edit, 1 fault of any kind | `SyncedHasNote`, `AppliedWhileOpen`, `NoCardSkipped`, `OneOpenBatch`, `Delivered`, `TypeOK` |
| `export` | 1 card, 2 runs at once, 2 fields, 2 contents, `prefer-remote`, 1 edit or deletion by the user, 1 fault of any kind | `OneNotePerCard`, `BaseWasHeld`, `OwnNotesKept`, `Delivered`, `TypeOK` |
| `dynamo` | 2 clients, 1 file, 2 headwords, 2 contents, 2 card ids, 1 token, 1 batch, 1 call cut short; `Exclusive` | `OneWinner`, `OneCardPerKey`, `ImplementsPendingEdits`, `ImplementsCardTable`, `TypeOK` |

Two edits are the shortest history in which an edit arrives during the handling
of another one; three stores of two cards let a card be stored again behind and
ahead of the cursor. In `watch`, five days and five channels are enough for the
first channel to be replaced, and its replacement too, with one renewal failing;
a second fault in a row would go past the margin of two days. One card is enough
in `export`, where the work on one card reads and writes nothing of another; two
contents and two stores let a run write back a record that is out of date. In
`sync` an edit puts one unit in the place of another, or keeps it there and adds
one, and both give a common headword a meaning of their own. In `dynamo` two headwords compete for
ids and one may be updated while the other is created. The runs of a protocol
that stops when its bounds are used up do not check deadlock; `sync` and
`export` do, as runs are started for ever.

### Disagreements with the documentation

Four runs show what the code does where a comment or a document says
otherwise; `PROJECT.json` quotes the lines.

| Run | What happens |
|---|---|
| `drive_stale_sighting` | Two threads pull one channel. The one that read the clock first writes last, `last_seen_at` goes back, and the guarded clear deletes a row whose newer edit the run had not read. |
| `pull_stuck` | The answer to an ack is lost. The replay gets 409, so the file stays and the agent never polls again. |
| `export_useredit` | The user edits a note whose card has not changed. A run of the direct export has nothing to write and records the user's text as the base; the very next run takes the note for unedited, since its fields are the base, and writes the card's fields over the text. |
| `notes_placeholder` | A term stands in two units, with the meaning "be" and with "n/a". The longer text wins, and the row ends without a meaning. |

More of the kind were met and follow from the models, without a run of their
own:

- A Mode B run without a source set (`Unconfigured` in `DriveEvents`) ingests
  nothing and clears the rows; `NoEditLost` fails with one.
- An item that fails in Anki (fault `apply` of `PullAgent`) stays pending and the
  cursor moves past its card, which is not offered again. This (`Passed`) and an
  ack refused for ever (`Refused`) are the two cases `Delivered` leaves open; it
  shows that nothing else keeps a card from its note.
- A card stored again loses its last synced fields, so that the pull agent's
  merge has no base and overwrites the user's edit.
- A translation that is a placeholder is noted in the row, which is then
  decomposed and noted again; `RowsAsExpected` allows both notes, as long as no
  source asked before knew a meaning.
- A unit on which the LLM failed for good is recorded as processed, so no later
  run asks about it again; `NoTermLost`, `CacheSound` and `Exported` except it.
- A card stored while its batch is out counts as synced when the batch is
  acknowledged; `SyncedHasNote` says that it has a note, not which content.

### What holds under an assumption only

No document states these assumptions; the passing runs make them visible in
their constants, and the property fails without them.

- `NoEditLost` needs one Mode B run at a time. With two, the slower one
  overwrites newer content with the older content it fetched, after the row of
  the newer edit is gone.
- `NoCardSkipped` needs one writer of cards. With two, a card stamped first and
  committed last is behind a cursor that has moved past its stamp.
- `NoCardSkipped` and `OneOpenBatch` need requests served one at a time. An
  abandoned request that is still served while the next one runs (faults
  `timeout`, `agent` with a second handler) can cut a second batch, and its late
  `WriteCard` can put an older record back.
- `NoTermLost` and `CacheSound` need one run of a source set at a time. With
  two, a run may take from the cache what the other one recorded for another
  text after the first judged the row.
- `ImplementsPendingEdits` and `OneCardPerKey` need `Exclusive` callers of the
  DynamoDB store. Otherwise a clear between get and update, or an old row read
  by the get, leaves a row no scan lists, and two upserts make two cards of one
  headword. For the SQLite store (`DriveEvents`) `ImplementsPendingEdits` holds
  with threads overlapping.
- `SentencesFit` says what row a sentence goes to only without a prior export:
  the keys of the prior CSV and those of the rows are the same numbers.
- `SpeakersHeard` is about texts with one `Dialogues:` header: a second one ends
  the first dialogue and begins none.
- `Delivered` of `DirectExport` is about the content that stays in the store. A
  run writes back the record it read at its start, so that of two contents the
  older one may be the one that stays.
- `Covered` has a bound on the channels registered. As the record of a replaced
  channel keeps its expiration, each renewal registers one more channel for it.

### Fairness

In `DriveEvents`, `Webhook`, `Tick`, the steps of a thread (`PullStep`) and of
the timer's runs (`RunStep`) are weakly fair: Drive delivers what it does not
lose, threads are scheduled by the operating system and the timer fires for
ever. In `DriveWatch` only `Webhook` is. The pull agent's `AgentStep` is weakly
fair because `run_loop` never ends and the login service restarts it; a server
thread finishes a request it has begun; a writer stores a record it has made.
In `DirectExport` and `IncrementalSync` the steps of a run are weakly fair, and
so is the start of an export. `StartRun(r, Sources)` is strongly fair: the timer
calls for a run of the whole source set for ever, and is not enabled while a run
of single files, started in between, is at work. Edits, faults, lost messages,
operators and new records have no fairness.

## 4. What is proved

A theorem holds for every value of the constants that satisfies the assumptions
of its module: sets of any size where a run of section 3 has one or two, and any
number of edits, faults and steps. A hypothesis (`Serial`, `Exclusive`, ...) is
an assumption of section 3 under which alone the property holds; the hypotheses
are satisfied by the instances of the runs.

Every proof has the same shape: types, an inductive invariant that implies the
property, one lemma that each step of `Next` keeps it, and the temporal theorem.
The invariants were first given to TLC.

| Module | Theorem | Hypothesis |
|---|---|---|
| `DriveEvents_proofs` | `TypeCorrect`, `DeadlineHolds`, `TokenMonotone`, `RevisionHonest`, `PendingEditsImplemented` | none |
| | `NoEditLostSerially` | `Serial`: one thread, one run at a time, none without a source set |
| `DriveWatch_proofs` | `TypeCorrect`, `OrphansAreFaultsAlways`, `CoveredAlways` | none |
| `IncrementalSync_proofs` | `TypeCorrect` | none |
| | `NoTermLostSerially`, `CacheSoundSerially` | `Serial`: one run at a time, any number of uploads |
| `Pipeline_proofs` | `TypeCorrect`, `UnitIsOwnHolds`, `NothingCutHolds`, `RowsAsExpectedHolds`, `SentencesFitHolds`, `SpeakersHeardHolds` | none |
| `PullAgent_proofs` | `TypeCorrect`, `SyncedNoted`, `AppliedOpen` | none |
| | `OneOpenBatchSerially` | `SerialServer`: one request at a time |
| | `NoCardSkippedSerially` | `SerialServer` and `SerialIngester`: one writer of cards |
| `DirectExport_proofs` | `TypeCorrect`, `OneNotePerCardHolds`, `BaseWasHeldHolds`, `OwnNotesKeptAlways` | none |
| `DynamoStore_proofs` | `TypeCorrect`, `OneWinnerAlways` | none |
| | `OneCardPerKeyExclusively`, `CardTableImplemented`, `PendingEditsImplemented` | `Exclusive` |

### DriveEvents

Assumptions: distinct names, `0 < Quiet <= MaxDelay`, natural bounds.

- `DeadlineHolds`: `Spec => []NoStarvation`. A row keeps `hard = first +
  MaxDelay` through every step (`DeadlineInv`); readiness at the hard deadline
  follows.
- `PendingEditsImplemented`: `Spec => ImplementsPendingEdits`. Each transaction
  on the table is a step of the abstract table, every other step a stutter; the
  invariant needed is `DeadlineInv` alone.
- `TokenMonotone`: `Spec => TokenNeverMovesBack`. A thread between the listing
  and the advance holds a `new` position not behind the `from` it read
  (`PullForward`), and the conditional UPDATE makes the token `new` only when it
  still is `from`.
- `RevisionHonest`: `Spec => []RevisionNotAhead`. In every run the revision read
  is not later than the content read after it (`RevisionInv`), because a file's
  revision only grows.
- `NoEditLostSerially`: `NoEditLost` is not inductive: that a row may be cleared
  depends on what the run has already read. The inductive invariant (`EditInv`)
  therefore says more. `Recorded`: a change is ingested or its file has a row
  last seen after the change happened, which is what the guard compares.
  `PullInv` follows a change through a pull: everything between `from` and `new`
  is recorded or still in `found`, and the thread's clock reading is later than
  all of it. `RunInv` follows it through a run: what happened before the run's
  clock reading is in the metadata it collected, in the bytes it holds, and is
  ingested for the files it is done with. `LogInv` orders changes, clock and
  revisions. The hypotheses are needed: `drive_stale_sighting` violates the
  property with a second thread, and `drive_serial` would with a second runner
  or with one that has no source set.

### DriveWatch

Assumptions: a channel lives longer than the margin within which it is renewed
(`Ahead < Life`), fewer faults than days in that margin (`RetryMargin`), natural
bounds. The first was met in the proof: with `Life = Ahead` a channel is due
again on the day it is made, one fault leaves none alive, and TLC shows it. The
code has 7 and 2 days.

- `OrphansAreFaultsAlways`: `Spec => []OrphansAreFaults`, by an invariant that
  counts: the live channels without a record, other than those a client is about
  to record, are no more than the faults (`OrphanInv`). Two clients are never
  about to record one channel (`ChannelsInv`).
- `CoveredAlways`: `Spec => []Covered`. That some live channel is on record is
  not inductive, since the one that is may expire tonight. `CoverInv` says of
  one recorded channel that its days and the faults so far together reach to the
  end of the margin, and beyond it once the day's renewal is done with the
  channel (`Lasting`). A day that passes takes one from the first after the
  second has been reached; a fault gives one back; a renewal that succeeds starts
  afresh with `Life` days.

### IncrementalSync

Assumptions: local and Drive sources are distinct, a document has at least one
and at most `MaxUnits` units, a vocabulary is a function on units and terms.

- `NoTermLostSerially` and `CacheSoundSerially`. The invariant (`SyncInv`)
  follows the headwords of a document from the LLM's answer to the three tables:
  what a run holds for a unit is all that the LLM finds in it or, where the call
  failed, nothing (`Answered`); a chunk row answers for the text of its hash and
  names only cards that exist (`RowSound`); while the cards are stored, every
  headword has its card or is still to be stored; the source record is written
  when all are there (`RunFacts`, `SourceSound`). A run that finds the row of a
  unit up to date reads it again later (`cached`), and between the two nobody
  else may write it: this is what `Serial` is for. Uploads write cards only, and
  cards are never deleted (`CardsStay`), so that they may overlap with anything.

### PullAgent

Assumptions: finitely many cards, distinct names, a batch size above 0, `Absent`
is neither an item of a batch nor the fields of a note, natural bounds.

- `TypeCorrect` needs two things more than types (`TypeInv`): every stamp was
  read from the clock (`StampInv`), and a process about to use a batch, a card
  or a result has one (`ShapeInv`).
- `SyncedNoted`: `Spec => []SyncedHasNote`, with threads overlapping and any
  fault. The inductive `NoteInv` follows the promise "this card has a note" from
  the agent's results through the staged file, the request and the cards a
  thread still has to stamp into the row.
- `AppliedOpen`: `Spec => []AppliedWhileOpen`. A thread that handles an ack works
  on an acknowledged batch or on the one staged (`HandlerAcks`), and the agent
  polls and applies only with nothing staged (`AgentAcks`); so while it applies
  no abandoned request can acknowledge an open batch (`OpenStays`).
- `OneOpenBatchSerially`: a poll goes on to cut a batch only while none is open
  (`OpenInv`); a second thread can pass the same test in between.
- `NoCardSkippedSerially`: a card behind the cursor that still waits was in a
  batch with its present content. The invariant (`SkipInv`) says it not of the
  cursor alone but of every position a batch may be cut after (`MarkInv`): the
  server's cursor, the agent's saved one, that of a batch being applied, of the
  staged ack and of each request and answer under way. A position comes into
  being only as the end of a batch (`MarkOrigin`), and the cards of a batch are
  the first that wait after its start (`SelectedFirst`), so a card between start
  and end is in the batch or is stored later with a later stamp. `CutInv` says
  this of a batch under construction, `BackInv` of a card a late acknowledgement
  writes back, `NewInv` of the record a writer has stamped and not yet stored:
  its stamp is later than any mark. With two writers `NewInv` fails, with two
  threads `BackInv` does.

### DirectExport

Assumptions: finitely many cards, distinct names, natural bounds.

- `OneNotePerCardHolds`, `BaseWasHeldHolds`. The note ids on record, the one a
  run works with and the tags in Anki belong together: a note that bears a
  card's tag is the only one, and a note id held by a run or a row is that note
  or a deleted one (`NotesInv`, `CardsInv`, `RunInv`). It is stable under what no
  step takes back (`Forward`): a deleted note stays deleted, no note moves to
  another card, what a card's notes have held stays held. So a run that wakes
  after any number of steps of others, or dies with a note made and not
  recorded, finds it still true.
- `OwnNotesKeptAlways`: `Spec => OwnNotesKept`, an action property, from the
  same invariant.

### DynamoStore

Assumptions: `Absent` is no item, key or content, natural bounds.

- `OneWinnerAlways`: for any number of clients and calls cut short anywhere, a
  token value has been passed by one successful advance, and none above the
  present token (`WinnerInv`); the same for batches.
- `OneCardPerKeyExclusively`, `CardTableImplemented`: a client about to put a
  card knows the one id its headword may have, because the index had caught up
  when it was queried and nobody else puts that headword (`UpsertInv`).
- `PendingEditsImplemented`: between get and write of a sighting the row is as
  the client read it, so the write is the abstract store's one step.

### Pipeline, NoteText, Linking

Assumptions: the input is typed (`InputsType`: lines of the known kinds, terms of
an earlier export not empty), the overlap is smaller than the chunk size, which
`chunk_text` demands, natural limits. There is no bound on the text, the
dictionary, the chunk size or the number of terms.

The operators are recursive functions over a text, a sentence or a list, so what
one computes for every input needs induction. The library states induction and
recursion for operators, which the provers at hand cannot instantiate.
`Text_proofs` states both anew for sets and functions (`Upward`, `Downward`,
`UpRecursion`, `DownRecursion`), from the one fact of the library that needs no
operator: `<` on the naturals is well-founded. Each recursive function is first
shown to satisfy its equation (`PickedDef`, `BlocksDef`, `ChunksDef`, `UnitsDef`,
`DominantDef`, `HeardDef`, `DedupeDef`); what it computes then follows by
induction on the position:

- blocks are ordered and disjoint; a line is in a block of its kind according to
  the run of lines around it (`TextDivided`, `BlocksFacts`);
- the windows of a block cover each of its passages up to one character longer
  than the overlap (`ChunksCover`);
- the units of some blocks are the first units of all (`UnitsPrefix`);
- the matches kept dominate the others (`DominantFacts`);
- what is known of a dialogue after a line is told by the lines before it
  (`HeardAt`, `HeardNext`), hence what is taken of it (`HeardWhole`);
- the items kept after each card are the best of their terms so far (`Deduped`).

`Pipeline_proofs` uses them in three inductive invariants.

- `UnitIsOwnHolds`: `Extraction` says where the extraction stands. The units done,
  the one asked about and the chunks to come are the units of the blocks begun, in
  the order of the list; so no step can find the list exhausted, and it is used up
  at the end.
- `NothingCutHolds`: `Found` says that entries of the tables begun and the lines of
  the units answered for are among the items. What is in some unit or table is a
  matter of the text alone (`TextDivided`, `ChunksCover`).
- `RowsAsExpectedHolds`, `TypeCorrect`: `RowsInv` gives each row's meaning and
  notes as of each step (`Meaning`, `Notes`), in terms of the items, of the
  glosses and of what the LLM answered, placeholders included; terms and order of
  the rows do not change once they are made (`RowsChanged`). At the end the
  meaning is that of the first of four sources that knows one (`FirstKnown`,
  `RowRight`). That a note's own known meaning may lose to a longer placeholder
  is in the source itself (`BestItem`); `notes_placeholder` is about that.
- `SentencesFitHolds`: `LinksInv` says that each link is to the first key of a term
  that occurs in the sentence, whatever order sentences are linked in, and that
  rows have sentences from their own links only.
- `SpeakersHeardHolds`: from `HeardWhole`; the automaton of
  `extract_dialogue_sentences` is compared with a statement about lines.

### Only model-checked

Liveness (`Delivered`, `EditIngested`, `SightedIngested`, `RecoveredIngested`,
`Exported`, `ChangeSeen`): the prover does not reason about fairness here. The
operators of `ThreeWayMerge` are used in the models of both exports and have no
lemmas of their own; the segmentation of a term into headwords (`Decomposable`)
is taken in `RowsAsExpectedHolds` as it is defined.

## 5. Plan

1. Done: `DriveEvents` and `PullAgent`, `ThreeWayMerge`.
2. Done: `DriveWatch`, `IncrementalSync`, `DirectExport`, `DynamoStore`,
   `Pipeline` with `NoteText` and `Linking`; `PendingEdits` and `CardTable` as
   abstract specifications.
3. Done: every safety property, action property and refinement that a run checks,
   as theorems (section 4).
4. Next: the merge's algebra as lemmas: what each policy does to a field that
   only one side has changed; what `Decomposable` accepts.

## 6. Not modelled

- File exports (`export/csv_writer.py`, `xlsx_writer.py`, ...) format rows and
  write a file in one go; `IncrementalSync` has them as the copy of all cards at
  the end of a run. The application factory and the routes `sync` and
  `sync_runs` call other components and keep nothing.
- Reading docx, pdf and markdown files, the CEDICT parser, pinyin spelling,
  prompts and the recovery of JSON from an LLM's answer transform text character
  by character and have no state.
- Configuration, authentication and agent tokens decide whether a request is
  served at all.
- `sync_runs` and the export report an ack appends to the latest run are read by
  nobody but the user; two acks at once may lose a line of it.
- A staged file half written when the agent dies (`agent/loop.py:105`) blocks the
  agent as `pull_stuck` shows for a lost answer; the write is one step here. The
  Lambda webhook queues its job in the memory of an invocation that nobody
  drains, which the line itself shows.
