----------------------------- MODULE PullAgent -----------------------------
(***************************************************************************)
(* The AnkiWeb pull agent: from a stored card to the note in Anki.         *)
(*                                                                         *)
(* The server (sync/ankiweb_agent_service.py) cuts the cards that need     *)
(* delivery into batches along a cursor; an open batch is served again     *)
(* until it is acknowledged.  The desktop agent (agent/loop.py) fetches a  *)
(* batch, applies it to Anki, stages the acknowledgement on disk and posts *)
(* it.  Meanwhile the pipeline stores new contents of the cards and the    *)
(* user edits notes.  Either side may die, and a request or its answer may *)
(* be lost; a request the agent gave up on is still served.                *)
(*                                                                         *)
(* A transaction of the store, a request, an answer, one item applied to   *)
(* Anki and one file written by the agent are single steps.  A content is  *)
(* a version number, which stands for every field of the card.  The cards  *)
(* are those of one user, who has one agent.                               *)
(***************************************************************************)
EXTENDS ThreeWayMerge, Integers, Sequences, FiniteSets

CONSTANTS
    Cards,       \* natural keys of the cards of one user
    Ingesters,   \* pipeline runs and uploads that may store cards at once
    Handlers,    \* server threads that may serve the agent's requests
    Absent,      \* no note; no file
    Mine,        \* what the user types into a field
    Limit,       \* ankiweb_pending_batch_size
    Policy,      \* conflict_policy of the agent
    Faults,      \* kinds of faults that may happen
    MaxVersion,  \* bound: contents of a card
    MaxIngests,  \* bound: cards stored
    MaxFaults,   \* bound: faults
    MaxEdits     \* bound: notes edited by the user

ASSUME NamesAssumption ==
    /\ Policy \in Policies /\ Limit \in Nat \ {0} /\ IsFiniteSet(Cards)
    /\ Absent \notin Handlers \cup Cards /\ Mine \notin Nat
    /\ Absent \notin [FieldNames -> Nat \cup {Mine}]
    /\ Faults \subseteq {"request", "timeout", "server", "agent", "acking", "apply"}
ASSUME BoundsAssumption ==
    MaxVersion \in Nat /\ MaxIngests \in Nat /\ MaxFaults \in Nat /\ MaxEdits \in Nat

VARIABLES
    card,      \* card[c]: the row of the cards table
    batch,     \* issued_batches, in the order they were issued
    cursor,    \* agent_cursors: the cursor of the last batch acknowledged
    handler,   \* server threads
    agent,     \* the agent's process
    inflight,  \* the agent's file under inflight_batches
    saved,     \* the agent's file last_cursor
    note,      \* note[c]: the fields of the note tagged with c, or Absent
    ingester,  \* pipeline runs
    clock,     \* what datetime.now reads
    used       \* how much of each bound is used up

server == <<card, batch, cursor>>
desktop == <<agent, inflight, saved, note>>
vars == <<card, batch, cursor, handler, agent, inflight, saved, note,
          ingester, clock, used>>

Fields == [FieldNames -> Nat \cup {Mine}]
\* content 0: no row; synced 0: ankiweb_last_synced_at is NULL.
CardRecord == [content : Nat, updated : Nat, synced : Nat,
               base : Fields \cup {NoBase}]
Item == [content : Nat, base : Fields \cup {NoBase}]
Result == [status : {"applied", "unchanged", "conflict", "error"},
           fields : Fields \cup {NoBase}]
\* The items of a batch and the results of an ack, by card.
Items == [Cards -> Item \cup {Absent}]
Results == [Cards -> Result \cup {Absent}]

ASSUME AbsentDistinct == Absent \notin Item

Listed(f) == {c \in Cards : f[c] # Absent}

NoCard == [content |-> 0, updated |-> 0, synced |-> 0, base |-> NoBase]
Nothing == [c \in Cards |-> Absent]

\* A handler answers with a batch (id, items, to), or with ok for an ack.
IdleHandler == [pc |-> "idle", id |-> 0, from |-> 0, to |-> 0,
                items |-> Nothing, results |-> Nothing, todo |-> {},
                key |-> Absent, rec |-> NoCard, now |-> 0, ok |-> FALSE]
IdleAgent == [pc |-> "idle", via |-> Absent, id |-> 0, to |-> 0,
              items |-> Nothing, results |-> Nothing]
IdleIngester == [pc |-> "idle", key |-> Absent, rec |-> NoCard]

Init ==
    /\ card = [c \in Cards |-> NoCard]
    /\ batch = <<>>
    /\ cursor = 0
    /\ handler = [h \in Handlers |-> IdleHandler]
    /\ agent = IdleAgent
    /\ inflight = Absent
    /\ saved = 0
    /\ note = [c \in Cards |-> Absent]
    /\ ingester = [k \in Ingesters |-> IdleIngester]
    /\ clock = 0
    /\ used = [ingests |-> 0, faults |-> 0, edits |-> 0]

Fault(kind) ==
    /\ kind \in Faults
    /\ used.faults < MaxFaults
    /\ used' = [used EXCEPT !.faults = @ + 1]

ReadClock == clock' = clock + 1

----------------------------------------------------------------------------
(* The state store, and the pipeline that fills it *)

LocalFields(content) == [k \in FieldNames |-> content]

\* The row is rewritten as a whole unless its content and its delivery state
\* are already those of the record; last_updated_at is the record's.
UpsertCard(c, rec) ==
    card' = IF /\ card[c].content = rec.content
               /\ card[c].synced = rec.synced
               /\ card[c].base = rec.base
            THEN card ELSE [card EXCEPT ![c] = rec]

\* vocabulary_row_to_card_record: the record is stamped when it is made, and
\* carries no delivery state, whatever the row has.
MakeRecord(k, c, v) ==
    /\ ingester[k].pc = "idle"
    /\ used.ingests < MaxIngests
    /\ ReadClock
    /\ ingester' = [ingester EXCEPT ![k] =
           [pc |-> "store", key |-> c,
            rec |-> [NoCard EXCEPT !.content = v, !.updated = clock']]]
    /\ used' = [used EXCEPT !.ingests = @ + 1]
    /\ UNCHANGED <<server, handler, desktop>>

StoreCard(k) ==
    /\ ingester[k].pc = "store"
    /\ UpsertCard(ingester[k].key, ingester[k].rec)
    /\ ingester' = [ingester EXCEPT ![k] = IdleIngester]
    /\ UNCHANGED <<batch, cursor, handler, desktop, clock, used>>

NeedsSync(c) == /\ card[c].content # 0
                /\ card[c].synced = 0 \/ card[c].synced < card[c].updated

----------------------------------------------------------------------------
(* GET /api/ankiweb/pending *)

OpenBatches == {i \in DOMAIN batch : ~batch[i].acked}

\* Mutant: every poll cuts a new batch.
FindNoBatch(h) ==
    /\ handler[h].pc = "open"
    /\ handler' = [handler EXCEPT ![h].pc = "select"]
    /\ UNCHANGED <<server, desktop, ingester, clock, used>>

\* Mutant: the newest batch is served again, whether it is open or not.
FindLastBatch(h) ==
    /\ handler[h].pc = "open"
    /\ handler' = [handler EXCEPT ![h] =
           IF batch = <<>> THEN [@ EXCEPT !.pc = "select"]
           ELSE LET i == Len(batch)
                IN  [@ EXCEPT !.pc = "reply", !.id = i,
                              !.items = batch[i].items, !.to = batch[i].cursor]]
    /\ UNCHANGED <<server, desktop, ingester, clock, used>>

\* The newest open batch is served again as it was issued.
FindOpenBatch(h) ==
    /\ handler[h].pc = "open"
    /\ handler' = [handler EXCEPT ![h] =
           IF OpenBatches = {} THEN [@ EXCEPT !.pc = "select"]
           ELSE LET i == CHOOSE j \in OpenBatches : \A n \in OpenBatches : n <= j
                IN  [@ EXCEPT !.pc = "reply", !.id = i,
                              !.items = batch[i].items, !.to = batch[i].cursor]]
    /\ UNCHANGED <<server, desktop, ingester, clock, used>>

\* The agent's own cursor wins over the stored one.
Position(from) == IF from # 0 THEN from ELSE cursor

\* The first cards after the cursor that need delivery, in stamp order.
Selected(from) ==
    LET pending == {c \in Cards : NeedsSync(c) /\ card[c].updated > Position(from)}
    IN  {c \in pending :
            Cardinality({d \in pending : card[d].updated < card[c].updated}) < Limit}

\* Mutant: the cursor is that of the last pending card, not of the last selected.
LastPending(S) ==
    CHOOSE t \in {card[c].updated : c \in Cards} :
        \A c \in Cards : NeedsSync(c) => card[c].updated <= t

\* The cursor of a batch is the stamp of its last card.
LastStamp(S) ==
    CHOOSE t \in {card[c].updated : c \in S} : \A c \in S : card[c].updated <= t

SelectCards(h) ==
    /\ handler[h].pc = "select"
    /\ LET S == Selected(handler[h].from) IN
       handler' = [handler EXCEPT ![h] =
           IF S = {} THEN [@ EXCEPT !.pc = "reply"]
           ELSE [@ EXCEPT
                   !.pc = "put",
                   !.items = [c \in Cards |->
                       IF c \in S THEN [content |-> card[c].content,
                                        base |-> card[c].base]
                                  ELSE Absent],
                   !.to = LastStamp(S)]]
    /\ UNCHANGED <<server, desktop, ingester, clock, used>>

\* Mutant: the batch is stored without its items.
PutBatchEmpty(h) ==
    /\ handler[h].pc = "put"
    /\ batch' = Append(batch, [items |-> Nothing, acked |-> FALSE,
                               cursor |-> handler[h].to])
    /\ handler' = [handler EXCEPT ![h].pc = "reply", ![h].id = Len(batch) + 1]
    /\ UNCHANGED <<card, cursor, desktop, ingester, clock, used>>

PutBatch(h) ==
    /\ handler[h].pc = "put"
    /\ batch' = Append(batch, [items |-> handler[h].items, acked |-> FALSE,
                               cursor |-> handler[h].to])
    /\ handler' = [handler EXCEPT ![h].pc = "reply", ![h].id = Len(batch) + 1]
    /\ UNCHANGED <<card, cursor, desktop, ingester, clock, used>>

----------------------------------------------------------------------------
(* POST /api/ankiweb/ack *)

\* Mutant: every item acknowledged is stamped, whatever its status.
AnyStatus(results) == Listed(results)

Applied(results) == {c \in Listed(results) : results[c].status = "applied"}

\* An acknowledged batch is refused with 409.
RefuseAck(h) ==
    /\ handler[h].pc = "check"
    /\ batch[handler[h].id].acked
    /\ handler' = [handler EXCEPT ![h].pc = "reply"]
    /\ UNCHANGED <<server, desktop, ingester, clock, used>>

BeginAck(h) ==
    /\ handler[h].pc = "check"
    /\ ~batch[handler[h].id].acked
    /\ ReadClock
    /\ handler' = [handler EXCEPT ![h] =
           [@ EXCEPT !.pc = "stamp", !.now = clock',
                     !.todo = Applied(handler[h].results)]]
    /\ UNCHANGED <<server, desktop, ingester, used>>

ReadCard(h, c) ==
    /\ handler[h].pc = "stamp"
    /\ c \in handler[h].todo
    /\ handler' = [handler EXCEPT ![h] =
           [@ EXCEPT !.pc = "write", !.key = c, !.rec = card[c]]]
    /\ UNCHANGED <<server, desktop, ingester, clock, used>>

\* The record read is written back whole, with the delivery state of the ack.
WriteCard(h) ==
    /\ handler[h].pc = "write"
    /\ LET c == handler[h].key IN
       /\ UpsertCard(c, [handler[h].rec EXCEPT
                             !.synced = handler[h].now,
                             !.base = handler[h].results[c].fields])
       /\ handler' = [handler EXCEPT ![h] =
              [@ EXCEPT !.pc = "stamp", !.todo = handler[h].todo \ {c},
                        !.key = Absent, !.rec = NoCard]]
    /\ UNCHANGED <<batch, cursor, desktop, ingester, clock, used>>

\* The conditional UPDATE: of two acks of one batch the later one fails.
MarkAcked(h) ==
    /\ handler[h].pc = "stamp"
    /\ handler[h].todo = {}
    /\ batch' = [batch EXCEPT ![handler[h].id].acked = TRUE]
    /\ handler' = [handler EXCEPT ![h].pc =
           IF batch[handler[h].id].acked THEN "reply" ELSE "cursor"]
    /\ UNCHANGED <<card, cursor, desktop, ingester, clock, used>>

SetCursor(h) ==
    /\ handler[h].pc = "cursor"
    /\ cursor' = batch[handler[h].id].cursor
    /\ handler' = [handler EXCEPT ![h].pc = "reply", ![h].ok = TRUE]
    /\ UNCHANGED <<card, batch, desktop, ingester, clock, used>>

\* Nobody waits for the answer any more.
DropAnswer(h) ==
    /\ handler[h].pc = "reply"
    /\ agent.via # h
    /\ handler' = [handler EXCEPT ![h] = IdleHandler]
    /\ UNCHANGED <<server, desktop, ingester, clock, used>>

----------------------------------------------------------------------------
(* The agent *)

\* run_once with nothing staged: poll for a batch.
FetchPending(h) ==
    /\ agent.pc = "idle"
    /\ inflight = Absent
    /\ handler[h].pc = "idle"
    /\ handler' = [handler EXCEPT ![h] =
           [IdleHandler EXCEPT !.pc = "open", !.from = saved]]
    /\ agent' = [IdleAgent EXCEPT !.pc = "fetch", !.via = h]
    /\ UNCHANGED <<server, inflight, saved, note, ingester, clock, used>>

ReceiveBatch(h) ==
    /\ agent.pc = "fetch"
    /\ agent.via = h
    /\ handler[h].pc = "reply"
    /\ agent' = IF handler[h].items = Nothing THEN IdleAgent
                ELSE [IdleAgent EXCEPT !.pc = "apply", !.id = handler[h].id,
                                       !.items = handler[h].items,
                                       !.to = handler[h].to]
    /\ handler' = [handler EXCEPT ![h] = IdleHandler]
    /\ UNCHANGED <<server, inflight, saved, note, ingester, clock, used>>

Finish(c, status, fields) ==
    agent' = [agent EXCEPT
        !.results = [agent.results EXCEPT
                        ![c] = [status |-> status, fields |-> fields]],
        !.pc = IF Listed(agent.items) = Listed(agent.results) \cup {c}
               THEN "stage" ELSE "apply"]

\* The note as the item makes it: its own fields, or their merge into the note
\* that carries the card's tag.
Written(c) ==
    LET item == agent.items[c]
        local == LocalFields(item.content)
    IN  IF note[c] = Absent THEN local
        ELSE MergedFields(item.base, note[c], local, Policy)

\* Mutant: a created note is reported with a status of its own.
AddNoteCreated(c) ==
    /\ note[c] = Absent
    /\ note' = [note EXCEPT ![c] = Written(c)]
    /\ Finish(c, "created", Written(c))

\* No note carries the card's tag: add one.
AddNote(c) ==
    /\ note[c] = Absent
    /\ note' = [note EXCEPT ![c] = Written(c)]
    /\ Finish(c, "applied", Written(c))

\* Otherwise merge into the note there is.
MergeNote(c) ==
    LET item == agent.items[c] IN
    /\ note[c] # Absent
    /\ note' = [note EXCEPT ![c] = Written(c)]
    /\ IF /\ Policy = "tag-and-skip"
          /\ Conflicts(item.base, note[c], LocalFields(item.content)) # {}
       THEN Finish(c, "conflict", NoBase)
       ELSE IF Written(c) = note[c] THEN Finish(c, "unchanged", NoBase)
       ELSE Finish(c, "applied", Written(c))

ApplyItem(c) ==
    /\ agent.pc = "apply"
    /\ c \in Listed(agent.items) \ Listed(agent.results)
    /\ AddNote(c) \/ MergeNote(c)
    /\ UNCHANGED <<server, handler, inflight, saved, ingester, clock, used>>

\* AnkiConnect refuses the item or its answer is lost, before or after Anki
\* wrote the note: the item is reported as failed and the batch goes on.
FailItem(c) ==
    /\ agent.pc = "apply"
    /\ c \in Listed(agent.items) \ Listed(agent.results)
    /\ Fault("apply")
    /\ \/ note' = note
       \/ note' = [note EXCEPT ![c] = Written(c)]
    /\ Finish(c, "error", NoBase)
    /\ UNCHANGED <<server, handler, inflight, saved, ingester, clock>>

StageInflight ==
    /\ agent.pc = "stage"
    /\ inflight' = [id |-> agent.id, to |-> agent.to, results |-> agent.results]
    /\ agent' = [agent EXCEPT !.pc = "post"]
    /\ UNCHANGED <<server, handler, saved, note, ingester, clock, used>>

\* The ack just staged, or at the next run_once the one found on disk.
PostAck(h) ==
    /\ agent.pc \in {"idle", "post"}
    /\ inflight # Absent
    /\ handler[h].pc = "idle"
    /\ handler' = [handler EXCEPT ![h] =
           [IdleHandler EXCEPT !.pc = "check", !.id = inflight.id,
                               !.results = inflight.results]]
    /\ agent' = [IdleAgent EXCEPT !.pc = "ack", !.via = h, !.to = inflight.to]
    /\ UNCHANGED <<server, inflight, saved, note, ingester, clock, used>>

\* Only an answer of success clears the staged file; the cursor is saved next.
ReceiveAck(h) ==
    /\ agent.pc = "ack"
    /\ agent.via = h
    /\ handler[h].pc = "reply"
    /\ IF handler[h].ok
       THEN /\ inflight' = Absent
            /\ agent' = [IdleAgent EXCEPT !.pc = "save", !.to = agent.to]
       ELSE /\ inflight' = inflight
            /\ agent' = IdleAgent
    /\ handler' = [handler EXCEPT ![h] = IdleHandler]
    /\ UNCHANGED <<server, saved, note, ingester, clock, used>>

SaveCursor ==
    /\ agent.pc = "save"
    /\ saved' = agent.to
    /\ agent' = IdleAgent
    /\ UNCHANGED <<server, handler, inflight, note, ingester, clock, used>>

----------------------------------------------------------------------------
(* The user, and what may go wrong *)

EditNote(c, k) ==
    /\ note[c] # Absent
    /\ used.edits < MaxEdits
    /\ note' = [note EXCEPT ![c][k] = Mine]
    /\ used' = [used EXCEPT !.edits = @ + 1]
    /\ UNCHANGED <<server, handler, agent, inflight, saved, ingester, clock>>

\* The request never reaches the server.
LoseRequest(h) ==
    /\ agent.via = h
    /\ handler[h].pc \in {"open", "check"}
    /\ Fault("request")
    /\ handler' = [handler EXCEPT ![h] = IdleHandler]
    /\ agent' = IdleAgent
    /\ UNCHANGED <<server, inflight, saved, note, ingester, clock>>

\* The answer is lost or late; the server goes on serving the request.
GiveUp ==
    /\ agent.via # Absent
    /\ Fault("timeout")
    /\ agent' = IdleAgent
    /\ UNCHANGED <<server, handler, inflight, saved, note, ingester, clock>>

CrashAgent ==
    /\ agent.pc # "idle"
    /\ Fault(IF agent.pc \in {"ack", "save"} THEN "acking" ELSE "agent")
    /\ agent' = IdleAgent
    /\ UNCHANGED <<server, handler, inflight, saved, note, ingester, clock>>

CrashServer ==
    /\ \E h \in Handlers : handler[h].pc # "idle"
    /\ Fault("server")
    /\ handler' = [h \in Handlers |-> IdleHandler]
    /\ agent' = IF agent.via = Absent THEN agent ELSE IdleAgent
    /\ UNCHANGED <<server, inflight, saved, note, ingester, clock>>

----------------------------------------------------------------------------

HandlerStep(h) ==
    \/ FindOpenBatch(h) \/ SelectCards(h) \/ PutBatch(h)
    \/ RefuseAck(h) \/ BeginAck(h)
    \/ \E c \in Cards : ReadCard(h, c)
    \/ WriteCard(h) \/ MarkAcked(h) \/ SetCursor(h) \/ DropAnswer(h)

AgentStep ==
    \/ \E h \in Handlers : FetchPending(h) \/ ReceiveBatch(h)
                           \/ PostAck(h) \/ ReceiveAck(h)
    \/ \E c \in Cards : ApplyItem(c)
    \/ StageInflight \/ SaveCursor

Next ==
    \/ \E k \in Ingesters : \/ \E c \in Cards, v \in 1..MaxVersion : MakeRecord(k, c, v)
                            \/ StoreCard(k)
    \/ \E h \in Handlers : HandlerStep(h) \/ LoseRequest(h)
    \/ AgentStep
    \/ \E c \in Cards : FailItem(c) \/ \E k \in FieldNames : EditNote(c, k)
    \/ GiveUp \/ CrashAgent \/ CrashServer

Spec == Init /\ [][Next]_vars

\* Server threads are scheduled and the agent polls for ever, restarted by the
\* login service; a record made is stored.
Fairness ==
    /\ \A h \in Handlers : WF_vars(HandlerStep(h))
    /\ WF_vars(AgentStep)
    /\ \A k \in Ingesters : WF_vars(StoreCard(k))

FairSpec == Spec /\ Fairness

----------------------------------------------------------------------------
(* Properties *)

HandlerState ==
    [pc : {"idle", "open", "select", "put", "check", "stamp", "write", "cursor",
           "reply"},
     id : Nat, from : Nat, to : Nat, items : Items,
     results : Results, todo : SUBSET Cards, key : Cards \cup {Absent},
     rec : CardRecord, now : Nat, ok : BOOLEAN]
AgentState ==
    [pc : {"idle", "fetch", "apply", "stage", "post", "ack", "save"},
     via : Handlers \cup {Absent}, id : Nat, to : Nat, items : Items,
     results : Results]

TypeOK ==
    /\ card \in [Cards -> CardRecord]
    /\ batch \in Seq([items : Items, acked : BOOLEAN, cursor : Nat])
    /\ cursor \in Nat
    /\ handler \in [Handlers -> HandlerState]
    /\ agent \in AgentState
    /\ inflight \in [id : Nat, to : Nat, results : Results] \cup {Absent}
    /\ saved \in Nat
    /\ note \in [Cards -> Fields \cup {Absent}]
    /\ ingester \in [Ingesters -> [pc : {"idle", "store"}, rec : CardRecord,
                                   key : Cards \cup {Absent}]]
    /\ clock \in Nat
    /\ used \in [ingests : Nat, faults : Nat, edits : Nat]

\* The cursor skips no card: one that needs delivery and is behind the position
\* from which the next batch is cut was offered with its present content.
NoCardSkipped ==
    \A c \in Cards : NeedsSync(c) =>
        \/ card[c].updated > Position(saved)
        \/ \E i \in DOMAIN batch : /\ batch[i].items[c] # Absent
                                   /\ batch[i].items[c].content = card[c].content

\* A card leaves the queue only when Anki has a note of it.
SyncedHasNote ==
    \A c \in Cards : card[c].content # 0 /\ ~NeedsSync(c) => note[c] # Absent

\* The agent never applies a batch the server takes for done: an item applied
\* again is one whose ack was not handled.
AppliedWhileOpen ==
    agent.pc \in {"apply", "stage"} => ~batch[agent.id].acked

\* Requests that follow one another never leave the agent two open batches.
OneOpenBatch == Cardinality(OpenBatches) <= 1

\* The staged ack is of a batch already acknowledged: every replay is refused.
Refused == inflight # Absent /\ batch[inflight.id].acked

\* The card needs delivery and the cursor is past it: no later batch has it.
Passed(c) == NeedsSync(c) /\ card[c].updated <= Position(saved)

\* Every card stored gets its note in the end, whatever is lost, given up on or
\* killed, but in two cases: an ack was recorded and its answer not received, so
\* that the agent never polls again, or the item of the card failed and the cursor
\* moved past it (ankiweb_agent_service.py:281, 314; loop.py:252-300).
Delivered ==
    \A c \in Cards :
        card[c].content # 0 ~> note[c] # Absent \/ [](Refused \/ Passed(c))

\* A staged acknowledgement is not stuck: it is replayed until it is cleared.
InflightCleared == inflight # Absent ~> inflight = Absent

=============================================================================
