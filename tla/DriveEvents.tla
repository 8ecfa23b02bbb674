---------------------------- MODULE DriveEvents ----------------------------
(***************************************************************************)
(* Google Drive push events: from an edit on Drive to the ingested file.   *)
(*                                                                         *)
(* Mode A (drive_events.pull_changes, run by webhook threads) reads the    *)
(* Drive change log from the page token of a watch channel, records every  *)
(* changed file as a debounced row of pending_edits and then advances the  *)
(* token.  Mode B (drive_events.process_pending, run by a timer) ingests   *)
(* the files whose rows have settled and clears the rows under a guard.    *)
(* The two run in different threads or processes and share only the state  *)
(* store (state/sqlite_store.py).  One write transaction of the store, one *)
(* Drive request and one reading of the clock are single steps here;       *)
(* everything between two of them can be interleaved.                      *)
(*                                                                         *)
(* A revision of a file is the position in the change log of the edit that *)
(* made it; a page token is the position up to which the log was read.     *)
(***************************************************************************)
EXTENDS Integers, Sequences

CONSTANTS
    Files,          \* Drive files of the one source set modelled
    Channels,       \* registered watch channels of that source set
    Workers,        \* threads that may run drain_mode_a_queue
    Runners,        \* invocations of process_pending that may overlap
    Unconfigured,   \* the runners called without a source_set
    None,           \* no channel, no file
    Quiet,          \* quiet_seconds
    MaxDelay,       \* max_delay_seconds
    MaxEdits,       \* bound: edits made on Drive
    MaxDuplicates,  \* bound: notifications Drive repeats, rows forced
    MaxPushFaults,  \* bound: lost notifications, failed pulls, crashes
    MaxRunFaults    \* bound: failed or killed Mode B runs

ASSUME NamesAssumption ==
    Unconfigured \subseteq Runners /\ None \notin Files /\ None \notin Channels
ASSUME SettlingAssumption ==
    Quiet \in Nat \ {0} /\ MaxDelay \in Nat /\ MaxDelay >= Quiet
ASSUME BoundsAssumption ==
    /\ MaxEdits \in Nat /\ MaxDuplicates \in Nat
    /\ MaxPushFaults \in Nat /\ MaxRunFaults \in Nat

VARIABLES
    log,      \* Drive's change log: which file, and when
    head,     \* head[f]: Drive's current revision of f, 0 before any edit
    notices,  \* notices[c]: push notifications under way to channel c
    token,    \* token[c]: page_token of channel c
    pending,  \* the pending_edits table: a function on the files with a row
    source,   \* source[f]: revision recorded for f and content ingested
    queue,    \* _pending_mode_a_jobs, in the memory of the web server
    worker,   \* Mode A threads
    runner,   \* Mode B invocations
    clock,    \* what datetime.now reads
    used      \* how much of each bound on the environment is used up

drive == <<log, head, notices>>
store == <<token, pending, source>>
vars  == <<log, head, notices, token, pending, source, queue, worker, runner,
           clock, used>>

Row == [first : Nat, last : Nat, ready : Nat, hard : Nat, force : BOOLEAN]

WorkerState ==
    [pc : {"idle", "list", "now", "upsert", "advance"},
     chan : Channels \cup {None}, from : Nat, new : Nat,
     found : SUBSET Files, now : Nat]
RunnerState ==
    [pc : {"idle", "metas", "sync", "bytes", "store", "clear"},
     now : Nat, files : SUBSET Files, todo : SUBSET Files,
     metas : [Files -> Nat], cur : Files \cup {None}, rev : Nat, content : Nat]

IdleWorker == [pc |-> "idle", chan |-> None, from |-> 0, new |-> 0,
               found |-> {}, now |-> 0]
IdleRunner == [pc |-> "idle", now |-> 0, files |-> {}, todo |-> {},
               metas |-> [f \in Files |-> 0], cur |-> None, rev |-> 0,
               content |-> 0]

Init ==
    /\ log = <<>>
    /\ head = [f \in Files |-> 0]
    /\ notices = [c \in Channels |-> 0]
    /\ token = [c \in Channels |-> 0]
    /\ pending = [f \in {} |-> 0]
    /\ source = [f \in Files |-> [rev |-> 0, content |-> 0]]
    /\ queue = <<>>
    /\ worker = [w \in Workers |-> IdleWorker]
    /\ runner = [r \in Runners |-> IdleRunner]
    /\ clock = 0
    /\ used = [dup |-> 0, push |-> 0, run |-> 0]

----------------------------------------------------------------------------
(* The state store *)

\* A row is listed when it was forced, its quiet window has elapsed, or its
\* hard deadline has passed.
ReadyRows(now) ==
    {f \in DOMAIN pending : \/ pending[f].force
                            \/ pending[f].ready <= now
                            \/ pending[f].hard <= now}

\* Mutant: every sighting postpones the hard deadline.
DebouncedSliding(f, now) ==
    IF f \in DOMAIN pending
    THEN [pending[f] EXCEPT !.last = now, !.ready = now + Quiet,
                            !.hard = now + MaxDelay]
    ELSE [first |-> now, last |-> now, ready |-> now + Quiet,
          hard |-> now + MaxDelay, force |-> FALSE]

\* A new row starts the quiet window and fixes the hard deadline; a row that
\* is seen again only slides last_seen_at and ready_at to the caller's now.
Debounced(f, now) ==
    IF f \in DOMAIN pending
    THEN [pending[f] EXCEPT !.last = now, !.ready = now + Quiet]
    ELSE [first |-> now, last |-> now, ready |-> now + Quiet,
          hard |-> now + MaxDelay, force |-> FALSE]

UpsertPendingEdit(f, now) ==
    pending' = [g \in DOMAIN pending \cup {f} |->
                    IF g = f THEN Debounced(f, now) ELSE pending[g]]

\* Mutant: the guard on last_seen_at is missing.
ClearUnguarded(f, seenBefore) ==
    pending' = [g \in DOMAIN pending \ {f} |-> pending[g]]

\* Deletes the row only if it was not seen after the moment given.
ClearPendingEdit(f, seenBefore) ==
    LET keep == {g \in DOMAIN pending : g = f => pending[g].last > seenBefore}
    IN  pending' = [g \in keep |-> pending[g]]

\* Mutant: the UPDATE is not conditional.
AdvanceUnconditionally(c, expected, new) ==
    token' = [token EXCEPT ![c] = new]

\* The conditional UPDATE: a stale expectation changes nothing.
AdvanceToken(c, expected, new) ==
    token' = IF token[c] = expected THEN [token EXCEPT ![c] = new] ELSE token

----------------------------------------------------------------------------
(* The environment: Drive, its users, the passing of time *)

\* A user edits a file; Drive logs the change and notifies every channel.
Edit(f) ==
    /\ Len(log) < MaxEdits
    /\ log' = Append(log, [file |-> f, at |-> clock])
    /\ head' = [head EXCEPT ![f] = Len(log) + 1]
    /\ notices' = [c \in Channels |-> notices[c] + 1]
    /\ UNCHANGED <<store, queue, worker, runner, clock, used>>

DuplicateNotice(c) ==
    /\ used.dup < MaxDuplicates
    /\ notices' = [notices EXCEPT ![c] = @ + 1]
    /\ used' = [used EXCEPT !.dup = @ + 1]
    /\ UNCHANGED <<log, head, store, queue, worker, runner, clock>>

LoseNotice(c) ==
    /\ notices[c] > 0
    /\ used.push < MaxPushFaults
    /\ notices' = [notices EXCEPT ![c] = @ - 1]
    /\ used' = [used EXCEPT !.push = @ + 1]
    /\ UNCHANGED <<log, head, store, queue, worker, runner, clock>>

\* Time passes.  Only its passing a deadline of some row matters, so it stands
\* still when every row is past its hard deadline; the clock readings below
\* also advance it.
Tick ==
    /\ \E f \in DOMAIN pending : clock < pending[f].hard
    /\ clock' = clock + 1
    /\ UNCHANGED <<drive, store, queue, worker, runner, used>>

\* datetime.now: two readings are a Drive request or a transaction apart, so
\* no two of them are equal.
ReadClock == clock' = clock + 1

\* An operator forces the file through, instead of waiting for it to settle.
ForcePendingEdit(f) ==
    /\ f \in DOMAIN pending
    /\ used.dup < MaxDuplicates
    /\ pending' = [pending EXCEPT ![f].force = TRUE]
    /\ used' = [used EXCEPT !.dup = @ + 1]
    /\ UNCHANGED <<drive, token, source, queue, worker, runner, clock>>

----------------------------------------------------------------------------
(* Mode A *)

\* Mutant: a notification is dropped while a pull of its channel runs.
WebhookUnlessBusy(c) ==
    /\ notices[c] > 0
    /\ notices' = [notices EXCEPT ![c] = @ - 1]
    /\ queue' = IF \E w \in Workers : worker[w].chan = c THEN queue
                ELSE Append(queue, c)
    /\ UNCHANGED <<log, head, store, worker, runner, clock, used>>

\* POST /api/drive/notifications: answer at once, leave the work to a thread.
Webhook(c) ==
    /\ notices[c] > 0
    /\ notices' = [notices EXCEPT ![c] = @ - 1]
    /\ queue' = Append(queue, c)
    /\ UNCHANGED <<log, head, store, worker, runner, clock, used>>

\* A thread takes the next job and loads the record of its channel.
TakeJob(w) ==
    /\ worker[w].pc = "idle"
    /\ queue # <<>>
    /\ worker' = [worker EXCEPT ![w] =
           [IdleWorker EXCEPT !.pc = "list", !.chan = Head(queue),
                              !.from = token[Head(queue)]]]
    /\ queue' = Tail(queue)
    /\ UNCHANGED <<drive, store, runner, clock, used>>

\* Mutant: the ids of the changes instead of those of the files.
ChangeIdsSince(position) == {j \in DOMAIN log : j > position}

\* changes.list, paginated to its end.
ChangedSince(position) ==
    {log[i].file : i \in {j \in DOMAIN log : j > position}}

ListChanges(w) ==
    /\ worker[w].pc = "list"
    /\ worker' = [worker EXCEPT ![w] =
           [@ EXCEPT !.pc = "now", !.new = Len(log),
                     !.found = ChangedSince(worker[w].from)]]
    /\ UNCHANGED <<drive, store, queue, runner, clock, used>>

\* now is read once, after the listing and before the first row is written.
\* A listing with nothing in it ends where it began: there is no row to write,
\* and the token, compared with the one the job began with, stays.
StampSighting(w) ==
    /\ worker[w].pc = "now"
    /\ ReadClock
    /\ worker' = [worker EXCEPT ![w] =
           IF @.found = {} THEN IdleWorker
           ELSE [@ EXCEPT !.pc = "upsert", !.now = clock']]
    /\ UNCHANGED <<drive, store, queue, runner, used>>

UpsertFound(w, f) ==
    /\ worker[w].pc = "upsert"
    /\ f \in worker[w].found
    /\ UpsertPendingEdit(f, worker[w].now)
    /\ worker' = [worker EXCEPT ![w] =
           [@ EXCEPT !.found = worker[w].found \ {f},
                     !.pc = IF worker[w].found = {f} THEN "advance"
                                                     ELSE "upsert"]]
    /\ UNCHANGED <<drive, token, source, queue, runner, clock, used>>

\* The token moves only after every row is written, and only if no other
\* thread has moved it; a failed advance is logged and the job still ends.
AdvancePageToken(w) ==
    /\ worker[w].pc = "advance"
    /\ AdvanceToken(worker[w].chan, worker[w].from, worker[w].new)
    /\ worker' = [worker EXCEPT ![w] = IdleWorker]
    /\ UNCHANGED <<drive, pending, source, queue, runner, clock, used>>

\* Mutant: the token is advanced in a finally clause.
FailPullAdvancing(w) ==
    /\ worker[w].pc \in {"list", "now", "upsert", "advance"}
    /\ used.push < MaxPushFaults
    /\ worker' = [worker EXCEPT ![w] = IdleWorker]
    /\ token' = [token EXCEPT ![worker[w].chan] = Len(log)]
    /\ used' = [used EXCEPT !.push = @ + 1]
    /\ UNCHANGED <<drive, pending, source, queue, runner, clock>>

\* An exception in pull_changes: drain_mode_a_queue logs it and drops the job.
\* After the last row too: the upsert reads its row again when it is written, and
\* raises if a run has cleared it by then.
FailPull(w) ==
    /\ worker[w].pc \in {"list", "now", "upsert", "advance"}
    /\ used.push < MaxPushFaults
    /\ worker' = [worker EXCEPT ![w] = IdleWorker]
    /\ used' = [used EXCEPT !.push = @ + 1]
    /\ UNCHANGED <<drive, store, queue, runner, clock>>

\* The web server dies, and with it the queue and every thread.
CrashServer ==
    /\ used.push < MaxPushFaults
    /\ queue # <<>> \/ \E w \in Workers : worker[w].pc # "idle"
    /\ queue' = <<>>
    /\ worker' = [w \in Workers |-> IdleWorker]
    /\ used' = [used EXCEPT !.push = @ + 1]
    /\ UNCHANGED <<drive, store, runner, clock>>

----------------------------------------------------------------------------
(* Mode B *)

\* The run starts: one reading of the clock selects the ready rows and later
\* guards the clears.  Without a source_set nothing is ingested.
StartRun(r) ==
    /\ runner[r].pc = "idle"
    /\ ReadyRows(clock + 1) # {}
    /\ ReadClock
    /\ runner' = [runner EXCEPT ![r] =
           [IdleRunner EXCEPT
               !.pc = IF r \in Unconfigured THEN "clear" ELSE "metas",
               !.now = clock', !.files = ReadyRows(clock'),
               !.todo = IF r \in Unconfigured THEN {} ELSE ReadyRows(clock')]]
    /\ UNCHANGED <<drive, store, queue, worker, used>>

\* run_incremental_sync reads the metadata of every file first ...
CollectMetas(r) ==
    /\ runner[r].pc = "metas"
    /\ runner' = [runner EXCEPT ![r] =
           [@ EXCEPT !.pc = "sync", !.metas = head]]
    /\ UNCHANGED <<drive, store, queue, worker, clock, used>>

AfterFile(r, f) ==
    [runner[r] EXCEPT !.todo = @ \ {f}, !.cur = None, !.rev = 0, !.content = 0,
                      !.pc = IF runner[r].todo = {f} THEN "clear" ELSE "sync"]

\* ... skips a file whose recorded revision is the current one ...
SkipByRevision(r, f) ==
    /\ runner[r].pc = "sync"
    /\ f \in runner[r].todo
    /\ source[f].rev = runner[r].metas[f]
    /\ runner' = [runner EXCEPT ![r] = AfterFile(r, f)]
    /\ UNCHANGED <<drive, store, queue, worker, clock, used>>

\* ... and of the others reads the metadata once more, which names the
\* revision to record, and then the bytes, which may be of a later one.
\* The source record is read before the first of the two.
FetchMeta(r, f) ==
    /\ runner[r].pc = "sync"
    /\ f \in runner[r].todo
    /\ source[f].rev # runner[r].metas[f]
    /\ runner' = [runner EXCEPT ![r] =
           [@ EXCEPT !.pc = "bytes", !.cur = f, !.rev = head[f],
                     !.content = source[f].content]]
    /\ UNCHANGED <<drive, store, queue, worker, clock, used>>

\* Bytes already ingested end the file without a new record.
FetchBytes(r, f) ==
    /\ runner[r].pc = "bytes"
    /\ runner[r].cur = f
    /\ runner' = [runner EXCEPT ![r] =
           IF @.content = head[f] THEN AfterFile(r, f)
           ELSE [@ EXCEPT !.pc = "store", !.content = head[f]]]
    /\ UNCHANGED <<drive, store, queue, worker, clock, used>>

\* Mutant: the revision to record is read after the bytes.
StoreLateRevision(r, f) ==
    /\ runner[r].pc = "store"
    /\ runner[r].cur = f
    /\ source' = [source EXCEPT ![f] =
           [rev |-> head[f], content |-> runner[r].content]]
    /\ runner' = [runner EXCEPT ![r] = AfterFile(r, f)]
    /\ UNCHANGED <<drive, token, pending, queue, worker, clock, used>>

\* The cards and the source record of the bytes fetched are written; the LLM
\* calls lie between the fetch and this step.
StoreSource(r, f) ==
    /\ runner[r].pc = "store"
    /\ runner[r].cur = f
    /\ source' = [source EXCEPT ![f] =
           [rev |-> runner[r].rev, content |-> runner[r].content]]
    /\ runner' = [runner EXCEPT ![r] = AfterFile(r, f)]
    /\ UNCHANGED <<drive, token, pending, queue, worker, clock, used>>

\* Every file the run selected is cleared, under the guard.
ClearRow(r, f) ==
    /\ runner[r].pc = "clear"
    /\ f \in runner[r].files
    /\ ClearPendingEdit(f, runner[r].now)
    /\ runner' = [runner EXCEPT ![r] =
           IF @.files = {f} THEN IdleRunner
           ELSE [@ EXCEPT !.files = runner[r].files \ {f}]]
    /\ UNCHANGED <<drive, token, source, queue, worker, clock, used>>

\* Mutant: the rows are cleared in a finally clause.
FailRunClearing(r) ==
    /\ runner[r].pc # "idle"
    /\ used.run < MaxRunFaults
    /\ pending' = [g \in DOMAIN pending \ runner[r].files |-> pending[g]]
    /\ runner' = [runner EXCEPT ![r] = IdleRunner]
    /\ used' = [used EXCEPT !.run = @ + 1]
    /\ UNCHANGED <<drive, token, source, queue, worker, clock>>

\* An exception anywhere in the run, or the death of its process: the rows
\* not yet cleared stay.
FailRun(r) ==
    /\ runner[r].pc # "idle"
    /\ used.run < MaxRunFaults
    /\ runner' = [runner EXCEPT ![r] = IdleRunner]
    /\ used' = [used EXCEPT !.run = @ + 1]
    /\ UNCHANGED <<drive, store, queue, worker, clock>>

----------------------------------------------------------------------------

PullStep(w) ==
    \/ TakeJob(w)
    \/ ListChanges(w)
    \/ StampSighting(w)
    \/ \E f \in Files : UpsertFound(w, f)
    \/ AdvancePageToken(w)

RunStep(r) ==
    \/ StartRun(r)
    \/ CollectMetas(r)
    \/ \E f \in Files : \/ SkipByRevision(r, f)
                         \/ FetchMeta(r, f)
                         \/ FetchBytes(r, f)
                         \/ StoreSource(r, f)
                         \/ ClearRow(r, f)

Next ==
    \/ \E f \in Files : Edit(f) \/ ForcePendingEdit(f)
    \/ \E c \in Channels : DuplicateNotice(c) \/ LoseNotice(c) \/ Webhook(c)
    \/ Tick
    \/ \E w \in Workers : PullStep(w) \/ FailPull(w)
    \/ CrashServer
    \/ \E r \in Runners : RunStep(r) \/ FailRun(r)

Spec == Init /\ [][Next]_vars

\* Drive delivers the notifications it does not lose, time passes, threads
\* are scheduled, and the timer calls process_pending again and again.
Fairness ==
    /\ \A c \in Channels : WF_vars(Webhook(c))
    /\ WF_vars(Tick)
    /\ \A w \in Workers : WF_vars(PullStep(w))
    /\ \A r \in Runners : WF_vars(RunStep(r))

FairSpec == Spec /\ Fairness

----------------------------------------------------------------------------
(* Properties *)

TypeOK ==
    /\ log \in Seq([file : Files, at : Nat])
    /\ head \in [Files -> Nat]
    /\ notices \in [Channels -> Nat]
    /\ token \in [Channels -> Nat]
    /\ DOMAIN pending \subseteq Files
    /\ \A f \in DOMAIN pending : pending[f] \in Row
    /\ source \in [Files -> [rev : Nat, content : Nat]]
    /\ queue \in Seq(Channels)
    /\ worker \in [Workers -> WorkerState]
    /\ runner \in [Runners -> RunnerState]
    /\ clock \in Nat
    /\ used \in [dup : Nat, push : Nat, run : Nat]

Ingested(i) == i <= Len(log) /\ source[log[i].file].content >= i

\* Change i is accounted for: its file was ingested with it or still has a row
\* that will bring a run about.
Kept(i) == Ingested(i) \/ log[i].file \in DOMAIN pending

\* No edit is lost: a change some channel's page token is past, which no
\* listing will return again, is ingested or pending.
NoEditLost == \A c \in Channels : \A i \in 1..token[c] : Kept(i)

\* The table of rows is used as one store would promise it to one caller:
\* whatever threads and runs are between their transactions (sqlite_store.py's
\* upsert_pending_edit, force_pending_edit and clear_pending_edit).
Pending == INSTANCE PendingEdits
ImplementsPendingEdits == Pending!Spec

\* However often a file is seen again, it is ready for a run max_delay_seconds
\* after it was first seen.
NoStarvation ==
    \A f \in DOMAIN pending :
        clock >= pending[f].first + MaxDelay => f \in ReadyRows(clock)

\* The revision recorded for a file never claims more than was ingested, so a
\* skip by revision never skips content that was not ingested.
RevisionNotAhead == \A f \in Files : source[f].rev <= source[f].content

\* Threads that pull the same channel at once never move its page token back.
TokenNeverMovesBack == [][\A c \in Channels : token'[c] >= token[c]]_vars

\* Once a channel's token is past a change, the change is ingested in the end,
\* whatever runs fail on the way.
SightedIngested ==
    \A i \in 1..MaxEdits :
        (\E c \in Channels : token[c] >= i) ~> Ingested(i)

\* A notification handled after the last failure brings in every edit made
\* before it, the ones whose own notifications or pulls were lost included.
RecoveredIngested ==
    \A i \in 1..MaxEdits :
        (/\ Len(log) >= i
         /\ used.push = MaxPushFaults
         /\ \E c \in Channels : notices[c] > 0) ~> Ingested(i)

\* Every edit is ingested in the end, unless a notification or pull is lost.
EditIngested ==
    \A i \in 1..MaxEdits :
        (Len(log) >= i) ~> (Ingested(i) \/ used.push > 0)

=============================================================================
