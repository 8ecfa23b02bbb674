------------------------- MODULE DriveEvents_proofs -------------------------
(***************************************************************************)
(* Theorems about DriveEvents, for every set of files, channels, threads   *)
(* and runs and every bound.                                               *)
(***************************************************************************)
EXTENDS DriveEvents, SequenceTheorems, TLAPS

----------------------------------------------------------------------------
(* Type correctness *)

\* The idle states of a thread and of a run are well typed.
LEMMA IdleTypes == IdleWorker \in WorkerState /\ IdleRunner \in RunnerState
  BY DEF IdleWorker, IdleRunner, WorkerState, RunnerState

\* What TypeOK says of an element of the change log.
LEMMA LogTypes ==
    ASSUME TypeOK
    PROVE  /\ Len(log) \in Nat
           /\ DOMAIN log = 1..Len(log)
           /\ \A i \in DOMAIN log : log[i].file \in Files /\ log[i].at \in Nat
<1>1. log \in Seq([file : Files, at : Nat])
  BY DEF TypeOK
<1>2. \A i \in 1..Len(log) : log[i] \in [file : Files, at : Nat]
  BY <1>1, ElementOfSeq
<1>. QED  BY <1>1, <1>2

\* Counting one more use of a bound keeps the counters well typed.
LEMMA UsedTypes ==
    ASSUME TypeOK
    PROVE  /\ [used EXCEPT !.dup = @ + 1] \in [dup : Nat, push : Nat, run : Nat]
           /\ [used EXCEPT !.push = @ + 1] \in [dup : Nat, push : Nat, run : Nat]
           /\ [used EXCEPT !.run = @ + 1] \in [dup : Nat, push : Nat, run : Nat]
<1>1. used \in [dup : Nat, push : Nat, run : Nat]
  BY DEF TypeOK
<1>2. used.dup + 1 \in Nat /\ used.push + 1 \in Nat /\ used.run + 1 \in Nat
  BY <1>1
<1>. QED  BY <1>1, <1>2

\* Listings return files, whatever position they start from.
LEMMA ChangedTypes ==
    ASSUME TypeOK, NEW p PROVE ChangedSince(p) \subseteq Files
  BY LogTypes DEF ChangedSince

\* Ready rows are rows of files.
LEMMA ReadyTypes == ASSUME TypeOK, NEW now PROVE ReadyRows(now) \subseteq Files
  BY DEF TypeOK, ReadyRows

\* A run that ends a file is in a well-typed state.
LEMMA AfterFileTypes ==
    ASSUME TypeOK, NEW r \in Runners, NEW f
    PROVE  AfterFile(r, f) \in RunnerState
<1>1. runner[r] \in RunnerState
  BY DEF TypeOK
<1>. QED  BY <1>1 DEF AfterFile, RunnerState

\* An upsert writes a well-typed row and keeps the others.
LEMMA UpsertTypes ==
    ASSUME TypeOK, NEW f \in Files, NEW now \in Nat, UpsertPendingEdit(f, now)
    PROVE  /\ DOMAIN pending' \subseteq Files
           /\ \A g \in DOMAIN pending' : pending'[g] \in Row
<1>1. \A g \in DOMAIN pending : g \in Files /\ pending[g] \in Row
  BY DEF TypeOK
<1>2. now + Quiet \in Nat /\ now + MaxDelay \in Nat
  BY SettlingAssumption
<1>3. Debounced(f, now) \in Row
  <2>1. CASE f \in DOMAIN pending
    <3>1. pending[f] \in Row
      BY <1>1, <2>1
    <3>. QED  BY <1>2, <2>1, <3>1 DEF Debounced, Row
  <2>2. CASE f \notin DOMAIN pending
    BY <1>2, <2>2 DEF Debounced, Row
  <2>. QED  BY <2>1, <2>2
<1>. QED  BY <1>1, <1>3 DEF UpsertPendingEdit

\* Every step keeps the types, one case for each action.
LEMMA TypeStep == TypeOK /\ [Next]_vars => TypeOK'
<1> SUFFICES ASSUME TypeOK, [Next]_vars PROVE TypeOK'
  OBVIOUS
<1> USE DEF drive, store
<1>1. CASE UNCHANGED vars
  BY <1>1 DEF TypeOK, vars
<1>2. ASSUME NEW f \in Files, Edit(f) PROVE TypeOK'
  <2>1. log' \in Seq([file : Files, at : Nat])
    BY <1>2 DEF TypeOK, Edit
  <2>2. head' \in [Files -> Nat] /\ notices' \in [Channels -> Nat]
    BY <1>2, LogTypes DEF TypeOK, Edit
  <2>. QED  BY <1>2, <2>1, <2>2 DEF TypeOK, Edit
<1>3. ASSUME NEW f \in Files, ForcePendingEdit(f) PROVE TypeOK'
  <2>1. /\ DOMAIN pending' \subseteq Files
        /\ \A g \in DOMAIN pending' : pending'[g] \in Row
    BY <1>3 DEF ForcePendingEdit, TypeOK, Row
  <2>. QED  BY <1>3, <2>1, UsedTypes DEF TypeOK, ForcePendingEdit
<1>4. ASSUME NEW c \in Channels, DuplicateNotice(c) PROVE TypeOK'
  <2>1. notices' \in [Channels -> Nat]
    BY <1>4 DEF TypeOK, DuplicateNotice
  <2>. QED  BY <1>4, <2>1, UsedTypes DEF TypeOK, DuplicateNotice
<1>5. ASSUME NEW c \in Channels, LoseNotice(c) PROVE TypeOK'
  <2>1. notices' \in [Channels -> Nat]
    BY <1>5 DEF TypeOK, LoseNotice
  <2>. QED  BY <1>5, <2>1, UsedTypes DEF TypeOK, LoseNotice
<1>6. ASSUME NEW c \in Channels, Webhook(c) PROVE TypeOK'
  <2>1. notices' \in [Channels -> Nat] /\ queue' \in Seq(Channels)
    BY <1>6 DEF TypeOK, Webhook
  <2>. QED  BY <1>6, <2>1 DEF TypeOK, Webhook
<1>7. CASE Tick
  BY <1>7 DEF TypeOK, Tick
<1>8. ASSUME NEW w \in Workers, TakeJob(w) PROVE TypeOK'
  <2>1. Head(queue) \in Channels /\ Tail(queue) \in Seq(Channels)
    BY <1>8 DEF TakeJob, TypeOK
  <2>2. token[Head(queue)] \in Nat
    BY <2>1 DEF TypeOK
  <2>3. [IdleWorker EXCEPT !.pc = "list", !.chan = Head(queue),
                           !.from = token[Head(queue)]] \in WorkerState
    BY <2>1, <2>2, IdleTypes DEF WorkerState
  <2>. QED  BY <1>8, <2>1, <2>3 DEF TypeOK, TakeJob
<1>9. ASSUME NEW w \in Workers, ListChanges(w) PROVE TypeOK'
  <2>1. worker[w] \in WorkerState
    BY DEF TypeOK
  <2>2. [worker[w] EXCEPT !.pc = "now", !.new = Len(log),
                          !.found = ChangedSince(worker[w].from)]
          \in WorkerState
    BY <2>1, LogTypes, ChangedTypes DEF WorkerState
  <2>. QED  BY <1>9, <2>2 DEF TypeOK, ListChanges
<1>10. ASSUME NEW w \in Workers, StampSighting(w) PROVE TypeOK'
  <2>1. clock' \in Nat
    BY <1>10 DEF StampSighting, ReadClock, TypeOK
  <2>2. worker[w] \in WorkerState
    BY DEF TypeOK
  <2>3. [worker[w] EXCEPT !.pc = "upsert", !.now = clock'] \in WorkerState
    BY <2>1, <2>2 DEF WorkerState
  <2>. QED  BY <1>10, <2>1, <2>3, IdleTypes DEF TypeOK, StampSighting
<1>11. ASSUME NEW w \in Workers, NEW f \in Files, UpsertFound(w, f)
       PROVE  TypeOK'
  <2>1. worker[w] \in WorkerState
    BY DEF TypeOK
  <2>2. worker[w].now \in Nat
    BY <2>1 DEF WorkerState
  <2>3. /\ DOMAIN pending' \subseteq Files
        /\ \A g \in DOMAIN pending' : pending'[g] \in Row
    BY <1>11, <2>2, UpsertTypes DEF UpsertFound
  <2>4. [worker[w] EXCEPT
            !.found = worker[w].found \ {f},
            !.pc = IF worker[w].found = {f} THEN "advance" ELSE "upsert"]
          \in WorkerState
    BY <2>1 DEF WorkerState
  <2>. QED  BY <1>11, <2>3, <2>4 DEF TypeOK, UpsertFound
<1>12. ASSUME NEW w \in Workers, AdvancePageToken(w) PROVE TypeOK'
  <2>1. worker[w].new \in Nat
    BY DEF TypeOK, WorkerState
  <2>2. token' \in [Channels -> Nat]
    BY <1>12, <2>1 DEF AdvancePageToken, AdvanceToken, TypeOK
  <2>. QED  BY <1>12, <2>2, IdleTypes DEF TypeOK, AdvancePageToken
<1>13. ASSUME NEW w \in Workers, FailPull(w) PROVE TypeOK'
  BY <1>13, IdleTypes, UsedTypes DEF TypeOK, FailPull
<1>14. CASE CrashServer
  <2>1. queue' \in Seq(Channels)
    BY <1>14 DEF CrashServer
  <2>2. worker' \in [Workers -> WorkerState]
    BY <1>14, IdleTypes DEF CrashServer
  <2>. QED  BY <1>14, <2>1, <2>2, UsedTypes DEF TypeOK, CrashServer
<1>15. ASSUME NEW r \in Runners, StartRun(r) PROVE TypeOK'
  <2>1. clock' \in Nat
    BY <1>15 DEF StartRun, ReadClock, TypeOK
  <2>2. [IdleRunner EXCEPT
            !.pc = IF r \in Unconfigured THEN "clear" ELSE "metas",
            !.now = clock', !.files = ReadyRows(clock'),
            !.todo = IF r \in Unconfigured THEN {} ELSE ReadyRows(clock')]
          \in RunnerState
    BY <2>1, ReadyTypes, IdleTypes DEF RunnerState
  <2>. QED  BY <1>15, <2>1, <2>2 DEF TypeOK, StartRun
<1>16. ASSUME NEW r \in Runners, CollectMetas(r) PROVE TypeOK'
  <2>1. runner[r] \in RunnerState /\ head \in [Files -> Nat]
    BY DEF TypeOK
  <2>2. [runner[r] EXCEPT !.pc = "sync", !.metas = head] \in RunnerState
    BY <2>1 DEF RunnerState
  <2>. QED  BY <1>16, <2>2 DEF TypeOK, CollectMetas
<1>17. ASSUME NEW r \in Runners, NEW f \in Files, SkipByRevision(r, f)
       PROVE  TypeOK'
  BY <1>17, AfterFileTypes DEF TypeOK, SkipByRevision
<1>18. ASSUME NEW r \in Runners, NEW f \in Files, FetchMeta(r, f)
       PROVE  TypeOK'
  <2>1. runner[r] \in RunnerState
    BY DEF TypeOK
  <2>2. head[f] \in Nat /\ source[f].content \in Nat
    BY DEF TypeOK
  <2>3. [runner[r] EXCEPT !.pc = "bytes", !.cur = f, !.rev = head[f],
                          !.content = source[f].content] \in RunnerState
    BY <2>1, <2>2 DEF RunnerState
  <2>. QED  BY <1>18, <2>3 DEF TypeOK, FetchMeta
<1>19. ASSUME NEW r \in Runners, NEW f \in Files, FetchBytes(r, f)
       PROVE  TypeOK'
  <2>1. runner[r] \in RunnerState /\ head[f] \in Nat
    BY DEF TypeOK
  <2>2. [runner[r] EXCEPT !.pc = "store", !.content = head[f]] \in RunnerState
    BY <2>1 DEF RunnerState
  <2>. QED  BY <1>19, <2>2, AfterFileTypes DEF TypeOK, FetchBytes
<1>20. ASSUME NEW r \in Runners, NEW f \in Files, StoreSource(r, f)
       PROVE  TypeOK'
  <2>1. runner[r].rev \in Nat /\ runner[r].content \in Nat
    BY DEF TypeOK, RunnerState
  <2>2. source' \in [Files -> [rev : Nat, content : Nat]]
    BY <1>20, <2>1 DEF TypeOK, StoreSource
  <2>. QED  BY <1>20, <2>2, AfterFileTypes DEF TypeOK, StoreSource
<1>21. ASSUME NEW r \in Runners, NEW f \in Files, ClearRow(r, f)
       PROVE  TypeOK'
  <2>1. runner[r] \in RunnerState
    BY DEF TypeOK
  <2>2. [runner[r] EXCEPT !.files = runner[r].files \ {f}] \in RunnerState
    BY <2>1 DEF RunnerState
  <2>3. /\ DOMAIN pending' \subseteq Files
        /\ \A g \in DOMAIN pending' : pending'[g] \in Row
    BY <1>21 DEF TypeOK, ClearRow, ClearPendingEdit
  <2>. QED  BY <1>21, <2>2, <2>3, IdleTypes DEF TypeOK, ClearRow
<1>22. ASSUME NEW r \in Runners, FailRun(r) PROVE TypeOK'
  BY <1>22, IdleTypes, UsedTypes DEF TypeOK, FailRun
<1>. QED
  BY <1>1, <1>2, <1>3, <1>4, <1>5, <1>6, <1>7, <1>8, <1>9, <1>10, <1>11,
     <1>12, <1>13, <1>14, <1>15, <1>16, <1>17, <1>18, <1>19, <1>20, <1>21,
     <1>22
  DEF Next, PullStep, RunStep

\* What holds in the initial state is well typed.
LEMMA TypeInit == Init => TypeOK
<1> SUFFICES ASSUME Init PROVE TypeOK
  OBVIOUS
<1>1. log \in Seq([file : Files, at : Nat]) /\ queue \in Seq(Channels)
  BY DEF Init
<1>. QED  BY <1>1, IdleTypes DEF Init, TypeOK

\* Every reachable state is well typed.
THEOREM TypeCorrect == Spec => []TypeOK
  BY TypeInit, TypeStep, PTL DEF Spec

----------------------------------------------------------------------------
(* Which actions write which part of the store *)

\* The rows of pending_edits change in these steps only.
LEMMA PendingWriters ==
    [Next]_vars =>
        \/ pending' = pending
        \/ \E w \in Workers, f \in Files : UpsertFound(w, f)
        \/ \E f \in Files : ForcePendingEdit(f)
        \/ \E r \in Runners, f \in Files : ClearRow(r, f)
  BY DEF Next, PullStep, RunStep, vars, drive, store, Edit, DuplicateNotice,
         LoseNotice, Webhook, Tick, TakeJob, ListChanges, StampSighting,
         AdvancePageToken, FailPull, CrashServer, StartRun, CollectMetas,
         SkipByRevision, FetchMeta, FetchBytes, StoreSource, FailRun

\* A page token changes in this step only.
LEMMA TokenWriters ==
    [Next]_vars =>
        \/ token' = token
        \/ \E w \in Workers : AdvancePageToken(w)
  BY DEF Next, PullStep, RunStep, vars, drive, store, Edit, DuplicateNotice,
         LoseNotice, Webhook, Tick, TakeJob, ListChanges, StampSighting,
         UpsertFound, ForcePendingEdit, FailPull, CrashServer, StartRun,
         CollectMetas, SkipByRevision, FetchMeta, FetchBytes, StoreSource,
         ClearRow, FailRun

\* The source records change in this step only.
LEMMA SourceWriters ==
    [Next]_vars =>
        \/ source' = source
        \/ \E r \in Runners, f \in Files : StoreSource(r, f)
  BY DEF Next, PullStep, RunStep, vars, drive, store, Edit, DuplicateNotice,
         LoseNotice, Webhook, Tick, TakeJob, ListChanges, StampSighting,
         AdvancePageToken, UpsertFound, ForcePendingEdit, FailPull, CrashServer,
         StartRun, CollectMetas, SkipByRevision, FetchMeta, FetchBytes,
         ClearRow, FailRun

\* Drive's change log grows by edits only.
LEMMA LogWriters ==
    [Next]_vars =>
        \/ log' = log /\ head' = head
        \/ \E f \in Files : Edit(f)
  BY DEF Next, PullStep, RunStep, vars, drive, store, DuplicateNotice,
         LoseNotice, Webhook, Tick, TakeJob, ListChanges, StampSighting,
         AdvancePageToken, UpsertFound, ForcePendingEdit, FailPull, CrashServer,
         StartRun, CollectMetas, SkipByRevision, FetchMeta, FetchBytes,
         StoreSource, ClearRow, FailRun

----------------------------------------------------------------------------
(* NoStarvation *)

\* The hard deadline of a row stays max_delay_seconds after its first sighting.
DeadlineInv == \A f \in DOMAIN pending :
                   pending[f].hard = pending[f].first + MaxDelay

\* DeadlineInv is inductive, given the types.
LEMMA DeadlineStep == TypeOK /\ DeadlineInv /\ [Next]_vars => DeadlineInv'
<1> SUFFICES ASSUME TypeOK, DeadlineInv, [Next]_vars PROVE DeadlineInv'
  OBVIOUS
<1>1. CASE pending' = pending
  BY <1>1 DEF DeadlineInv
<1>2. ASSUME NEW w \in Workers, NEW f \in Files, UpsertFound(w, f)
      PROVE  DeadlineInv'
  <2>1. UpsertPendingEdit(f, worker[w].now)
    BY <1>2 DEF UpsertFound
  <2>2. ASSUME f \in DOMAIN pending
        PROVE  pending'[f].hard = pending'[f].first + MaxDelay
    <3>1. pending[f] \in Row
      BY <2>2 DEF TypeOK
    <3>. QED  BY <2>1, <2>2, <3>1 DEF UpsertPendingEdit, Debounced, Row, DeadlineInv
  <2>3. ASSUME f \notin DOMAIN pending
        PROVE  pending'[f].hard = pending'[f].first + MaxDelay
    BY <2>1, <2>3 DEF UpsertPendingEdit, Debounced
  <2>. QED  BY <2>1, <2>2, <2>3 DEF UpsertPendingEdit, DeadlineInv
<1>3. ASSUME NEW f \in Files, ForcePendingEdit(f) PROVE DeadlineInv'
  <2>1. \A g \in DOMAIN pending : pending[g] \in Row
    BY DEF TypeOK
  <2>. QED  BY <1>3, <2>1 DEF ForcePendingEdit, DeadlineInv, Row
<1>4. ASSUME NEW r \in Runners, NEW f \in Files, ClearRow(r, f)
      PROVE  DeadlineInv'
  BY <1>4 DEF ClearRow, ClearPendingEdit, DeadlineInv
<1>. QED  BY <1>1, <1>2, <1>3, <1>4, PendingWriters

\* However often a file is seen again, its row is ready once max_delay_seconds
\* have passed since its first sighting, with any number of threads and runs.
THEOREM DeadlineHolds == Spec => []NoStarvation
<1>1. Init => DeadlineInv
  BY DEF Init, DeadlineInv
<1>2. DeadlineInv => NoStarvation
  BY DEF DeadlineInv, NoStarvation, ReadyRows
<1>. QED  BY <1>1, <1>2, DeadlineStep, TypeCorrect, PTL DEF Spec

----------------------------------------------------------------------------
(* ImplementsPendingEdits *)

\* The table is a function on the files with a row.
FunctionInv == pending = [f \in DOMAIN pending |-> pending[f]]

LEMMA FunctionStep == FunctionInv /\ [Next]_vars => FunctionInv'
<1> SUFFICES ASSUME FunctionInv, [Next]_vars PROVE FunctionInv'
  OBVIOUS
<1>1. CASE pending' = pending
  BY <1>1 DEF FunctionInv
<1>2. ASSUME NEW w \in Workers, NEW f \in Files, UpsertFound(w, f) PROVE FunctionInv'
  BY <1>2 DEF UpsertFound, UpsertPendingEdit, FunctionInv
<1>3. ASSUME NEW f \in Files, ForcePendingEdit(f) PROVE FunctionInv'
  BY <1>3 DEF ForcePendingEdit, FunctionInv
<1>4. ASSUME NEW r \in Runners, NEW f \in Files, ClearRow(r, f) PROVE FunctionInv'
  BY <1>4 DEF ClearRow, ClearPendingEdit, FunctionInv
<1>. QED  BY <1>1, <1>2, <1>3, <1>4, PendingWriters

\* An upsert is a first or a later sighting of the table, a clear that its guard
\* lets through removes the row, and one that it stops changes nothing.
LEMMA PendingStep == TypeOK /\ FunctionInv /\ [Next]_vars => [Pending!Next]_pending
<1> SUFFICES ASSUME TypeOK, FunctionInv, [Next]_vars PROVE [Pending!Next]_pending
  OBVIOUS
<1>1. ASSUME NEW w \in Workers, NEW f \in Files, UpsertFound(w, f) PROVE Pending!Next
  <2>. DEFINE now == worker[w].now
  <2>1. UpsertPendingEdit(f, now)
    BY <1>1 DEF UpsertFound
  <2>2. /\ pending' = Pending!With(f, Debounced(f, now))
        /\ f \in DOMAIN pending' /\ pending'[f] = Debounced(f, now)
    BY <2>1 DEF UpsertPendingEdit, Pending!With
  <2>. HIDE DEF now
  <2>3. CASE f \notin DOMAIN pending
    <3>1. Debounced(f, now) = [first |-> now, last |-> now, ready |-> now + Quiet,
                               hard |-> now + MaxDelay, force |-> FALSE]
      BY <2>3 DEF Debounced
    <3>2. pending'[f].last = now
      BY <2>2, <3>1
    <3>3. Pending!FirstSighting(f)
      BY <2>2, <2>3, <3>1, <3>2 DEF Pending!FirstSighting
    <3>. QED  BY <3>3 DEF Pending!Next
  <2>4. CASE f \in DOMAIN pending
    <3>1. Debounced(f, now) = [pending[f] EXCEPT !.last = now, !.ready = now + Quiet]
      BY <2>4 DEF Debounced
    <3>2. pending'[f].last = now
      BY <2>2, <2>4, <3>1 DEF TypeOK, Row
    <3>3. Pending!NextSighting(f)
      BY <2>2, <2>4, <3>1, <3>2 DEF Pending!NextSighting
    <3>. QED  BY <3>3 DEF Pending!Next
  <2>. QED  BY <2>3, <2>4
<1>2. ASSUME NEW f \in Files, ForcePendingEdit(f) PROVE Pending!Next
  BY <1>2 DEF ForcePendingEdit, Pending!Force, Pending!Next
<1>3. ASSUME NEW r \in Runners, NEW f \in Files, ClearRow(r, f)
      PROVE  [Pending!Next]_pending
  <2>. DEFINE keep == {g \in DOMAIN pending : g = f => pending[g].last > runner[r].now}
  <2>1. pending' = [g \in keep |-> pending[g]]
    BY <1>3 DEF ClearRow, ClearPendingEdit
  <2>2. CASE f \in keep \/ f \notin DOMAIN pending
    BY <2>1, <2>2 DEF FunctionInv
  <2>3. CASE f \notin keep /\ f \in DOMAIN pending
    <3>1. keep = DOMAIN pending \ {f}
      BY <2>3
    <3>2. Pending!Clear(f)
      BY <2>1, <2>3, <3>1 DEF Pending!Clear
    <3>. QED  BY <3>2 DEF Pending!Next
  <2>. QED  BY <2>2, <2>3
<1>. QED  BY <1>1, <1>2, <1>3, PendingWriters

\* Whatever any number of threads and runs are between their transactions, the
\* table of pending edits does what the store promises one caller at a time:
\* one row a file, a hard deadline fixed by the first sighting, and no row gone
\* but by a clear.
THEOREM PendingEditsImplemented == Spec => ImplementsPendingEdits
<1>1. Init => Pending!Init /\ FunctionInv
  BY DEF Init, Pending!Init, FunctionInv
<1>. QED  BY <1>1, FunctionStep, PendingStep, TypeCorrect, PTL
          DEF Spec, ImplementsPendingEdits, Pending!Spec

----------------------------------------------------------------------------
(* TokenNeverMovesBack *)

\* A thread that has listed the changes advances to a position no earlier than
\* the one it started from.
PullForward ==
    /\ \A c \in Channels : token[c] <= Len(log)
    /\ \A w \in Workers :
           /\ worker[w].pc = "list" => worker[w].from <= Len(log)
           /\ worker[w].pc \in {"now", "upsert", "advance"} =>
                  worker[w].from <= worker[w].new /\ worker[w].new <= Len(log)

\* The threads change in these steps only.
LEMMA WorkerWriters ==
    [Next]_vars =>
        \/ worker' = worker
        \/ \E w \in Workers : \/ TakeJob(w)
                              \/ ListChanges(w)
                              \/ StampSighting(w)
                              \/ \E f \in Files : UpsertFound(w, f)
                              \/ AdvancePageToken(w)
                              \/ FailPull(w)
        \/ CrashServer
  BY DEF Next, PullStep, RunStep, vars, drive, store, Edit, DuplicateNotice,
         LoseNotice, Webhook, Tick, ForcePendingEdit, StartRun, CollectMetas,
         SkipByRevision, FetchMeta, FetchBytes, StoreSource, ClearRow, FailRun

\* PullForward is inductive, given the types.
LEMMA PullForwardStep == TypeOK /\ PullForward /\ [Next]_vars => PullForward'
<1> SUFFICES ASSUME TypeOK, PullForward, [Next]_vars PROVE PullForward'
  OBVIOUS
<1> USE LogTypes DEF drive, store
<1>1. ASSUME NEW f \in Files, Edit(f) PROVE PullForward'
  <2>1. Len(log') = Len(log) + 1
    BY <1>1 DEF Edit, TypeOK
  <2>2. \A c \in Channels : token[c] \in Nat
    BY DEF TypeOK
  <2>3. \A w \in Workers : worker[w].from \in Nat /\ worker[w].new \in Nat
    BY DEF TypeOK, WorkerState
  <2>. QED  BY <1>1, <2>1, <2>2, <2>3 DEF Edit, PullForward
<1>2. CASE worker' = worker /\ log' = log /\ token' = token
  BY <1>2 DEF PullForward
<1>3. ASSUME NEW w \in Workers, TakeJob(w) PROVE PullForward'
  <2>1. Head(queue) \in Channels
    BY <1>3 DEF TakeJob, TypeOK
  <2>. QED  BY <1>3, <2>1 DEF TakeJob, PullForward, TypeOK, IdleWorker
<1>4. ASSUME NEW w \in Workers, ListChanges(w) PROVE PullForward'
  <2>1. worker[w] \in WorkerState
    BY DEF TypeOK
  <2>. QED  BY <1>4, <2>1 DEF ListChanges, PullForward, TypeOK, WorkerState
<1>5. ASSUME NEW w \in Workers, StampSighting(w) PROVE PullForward'
  <2>1. worker[w] \in WorkerState
    BY DEF TypeOK
  <2>. QED  BY <1>5, <2>1 DEF StampSighting, PullForward, TypeOK, WorkerState, IdleWorker
<1>6. ASSUME NEW w \in Workers, NEW f \in Files, UpsertFound(w, f)
      PROVE  PullForward'
  <2>1. worker[w] \in WorkerState
    BY DEF TypeOK
  <2>. QED  BY <1>6, <2>1 DEF UpsertFound, PullForward, TypeOK, WorkerState
<1>7. ASSUME NEW w \in Workers, AdvancePageToken(w) PROVE PullForward'
  <2>1. \A c \in Channels : token'[c] = token[c] \/ token'[c] = worker[w].new
    BY <1>7 DEF AdvancePageToken, AdvanceToken, TypeOK
  <2>2. worker[w].new <= Len(log)
    BY <1>7 DEF AdvancePageToken, PullForward
  <2>. QED  BY <1>7, <2>1, <2>2 DEF AdvancePageToken, PullForward, TypeOK, IdleWorker
<1>8. ASSUME NEW w \in Workers, FailPull(w) PROVE PullForward'
  BY <1>8 DEF FailPull, PullForward, TypeOK, IdleWorker
<1>9. CASE CrashServer
  BY <1>9 DEF CrashServer, PullForward, TypeOK, IdleWorker
<1>. QED
  BY <1>1, <1>2, <1>3, <1>4, <1>5, <1>6, <1>7, <1>8, <1>9, LogWriters,
     TokenWriters, WorkerWriters

\* The conditional advance is enough: however many threads pull a channel at
\* once, its page token never moves back over changes already listed.
THEOREM TokenMonotone == Spec => TokenNeverMovesBack
<1>1. Init => PullForward
  BY DEF Init, PullForward, IdleWorker
<1>2. TypeOK /\ PullForward /\ [Next]_vars =>
          [\A c \in Channels : token'[c] >= token[c]]_vars
  <2> SUFFICES ASSUME TypeOK, PullForward, [Next]_vars
               PROVE  \A c \in Channels : token'[c] >= token[c]
    OBVIOUS
  <2>1. \A c \in Channels : token[c] \in Nat
    BY DEF TypeOK
  <2>2. CASE token' = token
    BY <2>1, <2>2
  <2>3. ASSUME NEW w \in Workers, AdvancePageToken(w)
        PROVE  \A c \in Channels : token'[c] >= token[c]
    <3>1. worker[w].from <= worker[w].new
      BY <2>3 DEF AdvancePageToken, PullForward
    <3>. QED  BY <2>1, <2>3, <3>1 DEF AdvancePageToken, AdvanceToken, TypeOK
  <2>. QED  BY <2>2, <2>3, TokenWriters
<1>. QED
  BY <1>1, <1>2, PullForwardStep, TypeCorrect, PTL DEF Spec, TokenNeverMovesBack

----------------------------------------------------------------------------
(* RevisionNotAhead *)

\* A run never holds a revision newer than the bytes it holds or will fetch.
RevisionInv ==
    /\ \A f \in Files : head[f] <= Len(log)
    /\ RevisionNotAhead
    /\ \A r \in Runners, f \in Files : runner[r].cur = f =>
           /\ runner[r].pc = "bytes" => runner[r].rev <= head[f]
           /\ runner[r].pc = "store" => runner[r].rev <= runner[r].content

\* The runs change in these steps only.
LEMMA RunnerWriters ==
    [Next]_vars =>
        \/ runner' = runner
        \/ \E r \in Runners : \/ StartRun(r)
                              \/ CollectMetas(r)
                              \/ FailRun(r)
        \/ \E r \in Runners, f \in Files : \/ SkipByRevision(r, f)
                                           \/ FetchMeta(r, f)
                                           \/ FetchBytes(r, f)
                                           \/ StoreSource(r, f)
                                           \/ ClearRow(r, f)
  BY DEF Next, PullStep, RunStep, vars, drive, store, Edit, DuplicateNotice,
         LoseNotice, Webhook, Tick, ForcePendingEdit, TakeJob, ListChanges,
         StampSighting, UpsertFound, AdvancePageToken, FailPull, CrashServer

\* RevisionInv is inductive, given the types.
LEMMA RevisionStep == TypeOK /\ RevisionInv /\ [Next]_vars => RevisionInv'
<1> SUFFICES ASSUME TypeOK, RevisionInv, [Next]_vars PROVE RevisionInv'
  OBVIOUS
<1> USE DEF drive, store
<1>0. /\ \A f \in Files : head[f] \in Nat /\ source[f] \in [rev : Nat, content : Nat]
      /\ \A r \in Runners : runner[r] \in RunnerState
  BY DEF TypeOK
<1>1. ASSUME NEW f \in Files, Edit(f) PROVE RevisionInv'
  <2>1. Len(log') = Len(log) + 1 /\ Len(log) \in Nat
    BY <1>1, LogTypes DEF Edit, TypeOK
  <2>2. \A g \in Files : head[g] <= head'[g] /\ head'[g] <= Len(log')
    <3>1. head' = [head EXCEPT ![f] = Len(log) + 1] /\ head \in [Files -> Nat]
      BY <1>1 DEF Edit, TypeOK
    <3>2. \A g \in Files : head[g] <= Len(log)
      BY DEF RevisionInv
    <3>. QED  BY <2>1, <3>1, <3>2
  <2>3. \A r \in Runners : runner[r].rev \in Nat
    BY <1>0 DEF RunnerState
  <2>4. \A g \in Files : head[g] \in Nat /\ head'[g] \in Nat
    BY <1>0, <1>1, <2>1 DEF Edit, TypeOK
  <2>. QED  BY <1>1, <2>2, <2>3, <2>4 DEF Edit, RevisionInv, RevisionNotAhead
<1>2. CASE runner' = runner /\ source' = source /\ log' = log /\ head' = head
  BY <1>2 DEF RevisionInv, RevisionNotAhead
<1>3. ASSUME NEW r \in Runners, NEW f \in Files, StoreSource(r, f)
      PROVE  RevisionInv'
  <2>1. AfterFile(r, f).pc \in {"clear", "sync"}
    BY <1>0 DEF AfterFile, RunnerState
  <2>2. runner[r].rev <= runner[r].content
    BY <1>3 DEF StoreSource, RevisionInv
  <2>. QED  BY <1>3, <2>1, <2>2 DEF StoreSource, RevisionInv, RevisionNotAhead, TypeOK
<1>4. ASSUME NEW r \in Runners, source' = source, log' = log, head' = head,
             runner' = [runner EXCEPT ![r] = runner'[r]],
             runner'[r].pc \notin {"bytes", "store"}
      PROVE  RevisionInv'
  BY <1>4 DEF RevisionInv, RevisionNotAhead, TypeOK
<1>5. ASSUME NEW r \in Runners, NEW f \in Files, FetchMeta(r, f)
      PROVE  RevisionInv'
  <2>1. /\ runner'[r].pc = "bytes" /\ runner'[r].cur = f
        /\ runner'[r].rev = head[f]
        /\ \A q \in Runners \ {r} : runner'[q] = runner[q]
    BY <1>0, <1>5 DEF FetchMeta, TypeOK, RunnerState
  <2>. QED  BY <1>0, <1>5, <2>1 DEF FetchMeta, RevisionInv, RevisionNotAhead
<1>6. ASSUME NEW r \in Runners, NEW f \in Files, FetchBytes(r, f),
             runner[r].content # head[f]
      PROVE  RevisionInv'
  <2>1. /\ runner'[r].pc = "store" /\ runner'[r].cur = f
        /\ runner'[r].rev = runner[r].rev /\ runner'[r].content = head[f]
        /\ \A q \in Runners \ {r} : runner'[q] = runner[q]
    BY <1>0, <1>6 DEF FetchBytes, TypeOK, RunnerState
  <2>2. runner[r].rev <= head[f]
    BY <1>6 DEF FetchBytes, RevisionInv
  <2>. QED  BY <1>6, <2>1, <2>2 DEF FetchBytes, RevisionInv, RevisionNotAhead
<1>7. ASSUME NEW r \in Runners, NEW f \in Files, FetchBytes(r, f),
             runner[r].content = head[f]
      PROVE  RevisionInv'
  <2>1. AfterFile(r, f).pc \in {"clear", "sync"}
    BY <1>0 DEF AfterFile, RunnerState
  <2>2. runner' = [runner EXCEPT ![r] = AfterFile(r, f)]
    BY <1>7 DEF FetchBytes
  <2>3. runner'[r] = AfterFile(r, f)
    BY <2>2 DEF TypeOK
  <2>. QED  BY <1>4, <1>7, <2>1, <2>2, <2>3 DEF FetchBytes
<1>8. ASSUME NEW r \in Runners, NEW f \in Files, SkipByRevision(r, f)
      PROVE  RevisionInv'
  <2>1. AfterFile(r, f).pc \in {"clear", "sync"}
    BY <1>0 DEF AfterFile, RunnerState
  <2>2. runner' = [runner EXCEPT ![r] = AfterFile(r, f)]
    BY <1>8 DEF SkipByRevision
  <2>3. runner'[r] = AfterFile(r, f)
    BY <2>2 DEF TypeOK
  <2>. QED  BY <1>4, <1>8, <2>1, <2>2, <2>3 DEF SkipByRevision
<1>9. ASSUME NEW r \in Runners, NEW f \in Files, ClearRow(r, f)
      PROVE  RevisionInv'
  <2>1. runner'[r].pc \notin {"bytes", "store"}
    BY <1>0, <1>9 DEF ClearRow, TypeOK, RunnerState, IdleRunner
  <2>2. runner' = [runner EXCEPT ![r] = runner'[r]]
    BY <1>9 DEF ClearRow, TypeOK
  <2>. QED  BY <1>4, <1>9, <2>1, <2>2 DEF ClearRow
<1>10. ASSUME NEW r \in Runners, StartRun(r) \/ CollectMetas(r) \/ FailRun(r)
       PROVE  RevisionInv'
  <2>1. runner'[r].pc \notin {"bytes", "store"}
    <3>1. runner \in [Runners -> RunnerState] /\ runner[r] \in RunnerState
      BY DEF TypeOK
    <3>2. CASE StartRun(r)
      BY <3>1, <3>2 DEF StartRun, IdleRunner
    <3>3. CASE CollectMetas(r)
      BY <3>1, <3>3 DEF CollectMetas, RunnerState
    <3>4. CASE FailRun(r)
      BY <3>1, <3>4 DEF FailRun, IdleRunner
    <3>. QED  BY <1>10, <3>2, <3>3, <3>4
  <2>2. runner' = [runner EXCEPT ![r] = runner'[r]]
    BY <1>10 DEF StartRun, CollectMetas, FailRun, TypeOK
  <2>. QED  BY <1>4, <1>10, <2>1, <2>2 DEF StartRun, CollectMetas, FailRun
<1>. QED
  BY <1>1, <1>2, <1>3, <1>5, <1>6, <1>7, <1>8, <1>9, <1>10, LogWriters,
     SourceWriters, RunnerWriters

\* The revision recorded for a file is never newer than the content ingested,
\* with any number of overlapping runs: a skip by revision is safe.
THEOREM RevisionHonest == Spec => []RevisionNotAhead
<1>1. Init => RevisionInv
  BY DEF Init, RevisionInv, RevisionNotAhead, IdleRunner
<1>2. RevisionInv => RevisionNotAhead
  BY DEF RevisionInv
<1>. QED  BY <1>1, <1>2, RevisionStep, TypeCorrect, PTL DEF Spec

----------------------------------------------------------------------------
(* NoEditLost *)

\* One thread pulls at a time, one run at a time, every run has its source
\* set.  Each of the three is needed: an edit can be lost without it.
Serial == /\ \A v, w \in Workers : v = w
          /\ \A q, r \in Runners : q = r
          /\ Unconfigured = {}

\* Every change happened before now and is not newer than its file's head.
LogInv == /\ \A i \in DOMAIN log : log[i].at <= clock /\ i <= head[log[i].file]
          /\ \A f \in Files : source[f].content <= head[f]

\* Change i is ingested, or its file has a row last seen after it happened:
\* the row then survives every run that started before the change.
Recorded(i) ==
    LET f == log[i].file
    IN  \/ source[f].content >= i
        \/ f \in DOMAIN pending /\ log[i].at < pending[f].last

\* What is behind a token is recorded, and so is, file by file, what the
\* thread has listed; the thread's clock reading is later than all of it.
PullInv ==
    /\ \A c \in Channels : \A i \in 1..token[c] : Recorded(i)
    /\ \A w \in Workers : \A i \in DOMAIN log :
           /\ /\ worker[w].pc \in {"now", "upsert", "advance"}
              /\ worker[w].from < i /\ i <= worker[w].new
              => \/ log[i].file \in worker[w].found
                 \/ worker[w].pc # "now" /\ Recorded(i)
           /\ /\ worker[w].pc \in {"upsert", "advance"}
              /\ i <= worker[w].new \/ \E c \in Channels : i <= token[c]
              => log[i].at < worker[w].now
    /\ \A w \in Workers : worker[w].pc = "advance" => worker[w].found = {}

\* What happened before the run's clock reading is in the metadata it
\* collected, in the bytes it holds, and in what is stored of the files it is
\* done with.
RunInv ==
    \A r \in Runners :
        /\ runner[r].now <= clock
        /\ runner[r].pc = "metas" => runner[r].todo = runner[r].files
        /\ runner[r].pc = "clear" => runner[r].todo = {}
        /\ \A f \in Files : runner[r].cur = f =>
               /\ runner[r].pc = "bytes" =>
                      runner[r].content = source[f].content
               /\ runner[r].pc = "store" =>
                      /\ source[f].content <= runner[r].content
                      /\ runner[r].content <= head[f]
        /\ \A i \in DOMAIN log : log[i].at < runner[r].now =>
               /\ runner[r].pc \in {"sync", "bytes", "store"} =>
                      i <= runner[r].metas[log[i].file]
               /\ /\ runner[r].pc \in {"sync", "bytes", "store", "clear"}
                  /\ log[i].file \in runner[r].files \ runner[r].todo
                  => source[log[i].file].content >= i
               /\ /\ runner[r].pc = "store"
                  /\ runner[r].cur = log[i].file
                  => runner[r].content >= i

EditInv == LogInv /\ PullInv /\ RunInv

\* The log only grows, revisions and the clock only move forward.
LEMMA LogForward ==
    ASSUME TypeOK, RevisionInv, [Next]_vars
    PROVE  /\ Len(log) <= Len(log')
           /\ \A i \in DOMAIN log : i \in DOMAIN log' /\ log'[i] = log[i]
           /\ \A f \in Files : head[f] <= head'[f] /\ head'[f] \in Nat
<1>0. head \in [Files -> Nat] /\ log \in Seq([file : Files, at : Nat])
  BY DEF TypeOK
<1>1. CASE log' = log /\ head' = head
  BY <1>0, <1>1
<1>2. ASSUME NEW f \in Files, Edit(f)
      PROVE  /\ Len(log) <= Len(log')
             /\ \A i \in DOMAIN log : i \in DOMAIN log' /\ log'[i] = log[i]
             /\ \A g \in Files : head[g] <= head'[g] /\ head'[g] \in Nat
  <2>1. log' = Append(log, [file |-> f, at |-> clock])
    BY <1>2 DEF Edit
  <2>2. clock \in Nat
    BY DEF TypeOK
  <2>3. \A g \in Files : head[g] <= Len(log)
    BY DEF RevisionInv
  <2>4. head' = [head EXCEPT ![f] = Len(log) + 1]
    BY <1>2 DEF Edit
  <2>5. \A g \in Files : head[g] <= head'[g] /\ head'[g] \in Nat
    BY <1>0, <2>3, <2>4
  <2>. QED  BY <1>0, <2>1, <2>2, <2>5
<1>. QED  BY <1>1, <1>2, LogWriters

\* The clock is read or left alone.
LEMMA ClockWriters ==
    [Next]_vars => clock' = clock \/ clock' = clock + 1
  BY DEF Next, PullStep, RunStep, vars, drive, store, Edit, DuplicateNotice,
         LoseNotice, Webhook, Tick, TakeJob, ListChanges, StampSighting,
         AdvancePageToken, UpsertFound, ForcePendingEdit, FailPull, CrashServer,
         StartRun, CollectMetas, SkipByRevision, FetchMeta, FetchBytes,
         StoreSource, ClearRow, FailRun, ReadClock

\* The only run never stores content older than what is stored.
LEMMA ContentForward ==
    ASSUME TypeOK, RunInv, [Next]_vars
    PROVE  \A f \in Files : source[f].content <= source'[f].content
<1>0. source \in [Files -> [rev : Nat, content : Nat]]
  BY DEF TypeOK
<1>1. CASE source' = source
  BY <1>0, <1>1
<1>2. ASSUME NEW r \in Runners, NEW f \in Files, StoreSource(r, f)
      PROVE  \A g \in Files : source[g].content <= source'[g].content
  <2>1. source[f].content <= runner[r].content
    BY <1>2 DEF StoreSource, RunInv
  <2>2. source' = [source EXCEPT ![f] =
                       [rev |-> runner[r].rev, content |-> runner[r].content]]
    BY <1>2 DEF StoreSource
  <2>. QED  BY <1>0, <2>1, <2>2
<1>. QED  BY <1>1, <1>2, SourceWriters

\* LogInv is kept by every step.
LEMMA LogInvStep ==
    ASSUME TypeOK, RevisionInv, LogInv, RunInv, [Next]_vars
    PROVE  LogInv'
<1>0. /\ source \in [Files -> [rev : Nat, content : Nat]]
      /\ clock \in Nat /\ head \in [Files -> Nat]
  BY DEF TypeOK
<1>1. \A f \in Files : source'[f].content <= head'[f]
  <2>1. \A f \in Files : source[f].content <= head'[f]
    BY <1>0, LogForward DEF LogInv
  <2>2. CASE source' = source
    BY <2>1, <2>2
  <2>3. ASSUME NEW r \in Runners, NEW f \in Files, StoreSource(r, f)
        PROVE  \A g \in Files : source'[g].content <= head'[g]
    <3>1. runner[r].content <= head[f] /\ runner[r].content \in Nat
      BY <2>3 DEF StoreSource, RunInv, TypeOK, RunnerState
    <3>2. head' = head
      BY <2>3 DEF StoreSource, drive
    <3>3. source' = [source EXCEPT ![f] =
                         [rev |-> runner[r].rev, content |-> runner[r].content]]
      BY <2>3 DEF StoreSource
    <3>. QED  BY <1>0, <2>1, <3>1, <3>2, <3>3
  <2>. QED  BY <2>2, <2>3, SourceWriters
<1>2. \A i \in DOMAIN log' : log'[i].at <= clock' /\ i <= head'[log'[i].file]
  <2>1. \A i \in DOMAIN log : log[i].at <= clock' /\ i <= head'[log[i].file]
    BY <1>0, LogTypes, LogForward, ClockWriters DEF LogInv
  <2>2. CASE log' = log
    BY <2>1, <2>2
  <2>3. ASSUME NEW f \in Files, Edit(f)
        PROVE  \A i \in DOMAIN log' : log'[i].at <= clock' /\ i <= head'[log'[i].file]
    <3>1. log' = Append(log, [file |-> f, at |-> clock]) /\ clock' = clock
      BY <2>3 DEF Edit
    <3>2. head'[f] = Len(log) + 1
      BY <1>0, <2>3 DEF Edit
    <3>3. \A i \in DOMAIN log' : i \in DOMAIN log \/ i = Len(log) + 1
      BY <3>1, LogTypes DEF TypeOK
    <3>4. log'[Len(log) + 1] = [file |-> f, at |-> clock]
      BY <3>1 DEF TypeOK
    <3>. QED  BY <1>0, <2>1, <3>1, <3>2, <3>3, <3>4, LogForward
  <2>. QED  BY <2>2, <2>3, LogWriters
<1>. QED  BY <1>1, <1>2 DEF LogInv

\* A recorded change stays recorded, provided an upsert of its file carries a
\* clock reading later than the change.
LEMMA RecordedKept ==
    ASSUME TypeOK, RevisionInv, RunInv, [Next]_vars,
           NEW i \in DOMAIN log, Recorded(i),
           \A w \in Workers, f \in Files :
               UpsertFound(w, f) /\ log[i].file = f => log[i].at < worker[w].now
    PROVE  Recorded(i)'
<1> DEFINE g == log[i].file
<1>0. /\ g \in Files /\ log'[i] = log[i] /\ i \in Nat
      /\ source[g].content \in Nat /\ source'[g].content \in Nat
  <2>1. g \in Files /\ log'[i] = log[i] /\ i \in Nat
    BY LogTypes, LogForward
  <2>2. /\ source \in [Files -> [rev : Nat, content : Nat]]
        /\ source' \in [Files -> [rev : Nat, content : Nat]]
    BY TypeStep DEF TypeOK
  <2>. QED  BY <2>1, <2>2
<1>1. CASE source[g].content >= i
  <2>1. source'[g].content >= i
    BY <1>0, <1>1, ContentForward
  <2>. QED  BY <1>0, <2>1 DEF Recorded
<1>2. CASE g \in DOMAIN pending /\ log[i].at < pending[g].last
  <2>1. CASE pending' = pending
    BY <1>0, <1>2, <2>1 DEF Recorded
  <2>2. ASSUME NEW w \in Workers, NEW f \in Files, UpsertFound(w, f)
        PROVE  Recorded(i)'
    <3>1. UpsertPendingEdit(f, worker[w].now) /\ pending[g] \in Row
      BY <1>2, <2>2 DEF UpsertFound, TypeOK
    <3>2. g \in DOMAIN pending'
      BY <1>2, <3>1 DEF UpsertPendingEdit
    <3>3. pending'[g].last = IF g = f THEN worker[w].now ELSE pending[g].last
      BY <1>2, <3>1 DEF UpsertPendingEdit, Debounced, Row
    <3>4. log[i].at < pending'[g].last
      BY <1>2, <2>2, <3>3
    <3>. QED  BY <1>0, <3>2, <3>4 DEF Recorded
  <2>3. ASSUME NEW f \in Files, ForcePendingEdit(f) PROVE Recorded(i)'
    <3>1. pending[g] \in Row
      BY <1>2 DEF TypeOK
    <3>2. g \in DOMAIN pending' /\ pending'[g].last = pending[g].last
      BY <1>2, <2>3, <3>1 DEF ForcePendingEdit, Row
    <3>. QED  BY <1>0, <1>2, <3>2 DEF Recorded
  <2>4. ASSUME NEW r \in Runners, NEW f \in Files, ClearRow(r, f)
        PROVE  Recorded(i)'
    <3>1. ClearPendingEdit(f, runner[r].now)
      BY <2>4 DEF ClearRow
    <3>2. CASE f = g /\ pending[g].last <= runner[r].now
      <4>1. log[i].at < runner[r].now
        <5>1. /\ log[i].at \in Nat /\ pending[g].last \in Nat
              /\ runner[r].now \in Nat
          BY <1>2, LogTypes DEF TypeOK, Row, RunnerState
        <5>. QED  BY <1>2, <3>2, <5>1
      <4>2. runner[r].pc = "clear" /\ g \in runner[r].files \ runner[r].todo
        BY <2>4, <3>2 DEF ClearRow, RunInv
      <4>3. source[g].content >= i
        BY <4>1, <4>2 DEF RunInv
      <4>. QED  BY <1>1, <4>3
    <3>3. CASE f # g \/ pending[g].last > runner[r].now
      <4>1. g \in DOMAIN pending' /\ pending'[g] = pending[g]
        BY <1>2, <3>1, <3>3 DEF ClearPendingEdit
      <4>. QED  BY <1>0, <1>2, <4>1 DEF Recorded
    <3>4. pending[g].last \in Nat /\ runner[r].now \in Nat
      BY <1>2 DEF TypeOK, Row, RunnerState
    <3>. QED  BY <3>2, <3>3, <3>4
  <2>. QED  BY <2>1, <2>2, <2>3, <2>4, PendingWriters
<1>. QED  BY <1>1, <1>2 DEF Recorded


\* PullInv is kept by every step of a serial system.
LEMMA PullInvStep ==
    ASSUME TypeOK, RevisionInv, PullForward, LogInv, PullInv, RunInv, Serial,
           [Next]_vars
    PROVE  PullInv'
<1> USE DEF drive, store
<1>0. /\ worker \in [Workers -> WorkerState]
      /\ \A w \in Workers : worker[w] \in WorkerState
      /\ token \in [Channels -> Nat]
      /\ clock \in Nat
  BY DEF TypeOK
<1>1. \A w \in Workers : worker[w].from \in Nat /\ worker[w].new \in Nat
  BY <1>0 DEF WorkerState
<1>2. ASSUME NEW i \in DOMAIN log, Recorded(i),
             \/ \E c \in Channels : i <= token[c]
             \/ \E w \in Workers : /\ worker[w].pc \in {"upsert", "advance"}
                                   /\ i <= worker[w].new
      PROVE  Recorded(i)'
  <2>1. \A v \in Workers, f \in Files :
            UpsertFound(v, f) /\ log[i].file = f => log[i].at < worker[v].now
    BY <1>2 DEF UpsertFound, PullInv, Serial
  <2>. QED  BY <1>2, <2>1, RecordedKept
<1>3. \A c \in Channels : \A i \in 1..token[c] : i \in DOMAIN log /\ Recorded(i)'
  <2> SUFFICES ASSUME NEW c \in Channels, NEW i \in 1..token[c]
               PROVE  i \in DOMAIN log /\ Recorded(i)'
    OBVIOUS
  <2>1. i \in DOMAIN log
    BY <1>0, LogTypes DEF PullForward
  <2>. QED  BY <1>2, <2>1 DEF PullInv
<1>4. ASSUME NEW i \in DOMAIN log', NEW w \in Workers,
             worker[w].pc \in {"now", "upsert", "advance"},
             \/ i <= worker[w].new
             \/ \E c \in Channels : i <= token[c]
      PROVE  i \in DOMAIN log /\ log'[i] = log[i]
  <2>1. i \in Nat /\ i >= 1
    <3>1. log' \in Seq([file : Files, at : Nat])
      BY TypeStep DEF TypeOK
    <3>. QED  BY <1>4, <3>1
  <2>2. i <= Len(log)
    BY <1>0, <1>1, <1>4, <2>1, LogTypes DEF PullForward
  <2>. QED  BY <2>1, <2>2, LogTypes, LogForward
<1>5. CASE worker' = worker
  <2>1. token' = token
    <3>1. ASSUME NEW w \in Workers, AdvancePageToken(w) PROVE FALSE
      BY <1>0, <1>5, <3>1 DEF AdvancePageToken, IdleWorker
    <3>. QED  BY <3>1, TokenWriters
  <2>2. \A c \in Channels : \A i \in 1..token'[c] : Recorded(i)'
    BY <1>3, <2>1
  <2>3. ASSUME NEW w \in Workers, NEW i \in DOMAIN log',
               worker[w].pc \in {"now", "upsert", "advance"},
               worker[w].from < i, i <= worker[w].new
        PROVE  \/ log'[i].file \in worker[w].found
               \/ worker[w].pc # "now" /\ Recorded(i)'
    <3>1. i \in DOMAIN log /\ log'[i] = log[i]
      BY <1>4, <2>3
    <3>. QED  BY <1>2, <2>3, <3>1 DEF PullInv
  <2>4. ASSUME NEW w \in Workers, NEW i \in DOMAIN log',
               worker[w].pc \in {"upsert", "advance"},
               i <= worker[w].new \/ \E c \in Channels : i <= token[c]
        PROVE  log'[i].at < worker[w].now
    <3>1. i \in DOMAIN log /\ log'[i] = log[i]
      BY <1>4, <2>4
    <3>. QED  BY <2>4, <3>1 DEF PullInv
  <2>5. \A w \in Workers : worker[w].pc = "advance" => worker[w].found = {}
    BY DEF PullInv
  <2>. QED  BY <1>5, <2>1, <2>2, <2>3, <2>4, <2>5 DEF PullInv
<1>6. ASSUME NEW w \in Workers, worker'[w].pc \in {"idle", "list"}, token' = token
      PROVE  PullInv'
  BY <1>3, <1>6 DEF PullInv, Serial
<1>7. ASSUME NEW w \in Workers, TakeJob(w) \/ FailPull(w) PROVE PullInv'
  <2>1. worker'[w].pc \in {"idle", "list"} /\ token' = token
    <3>1. CASE TakeJob(w)
      BY <1>0, <3>1 DEF TakeJob, IdleWorker
    <3>2. CASE FailPull(w)
      BY <1>0, <3>2 DEF FailPull, IdleWorker
    <3>. QED  BY <1>7, <3>1, <3>2
  <2>. QED  BY <1>6, <2>1
<1>8. ASSUME NEW w \in Workers, ListChanges(w) PROVE PullInv'
  <2>1. /\ worker'[w].pc = "now" /\ worker'[w].from = worker[w].from
        /\ worker'[w].found = ChangedSince(worker[w].from)
        /\ token' = token /\ log' = log
    BY <1>0, <1>8 DEF ListChanges, WorkerState
  <2>2. \A i \in DOMAIN log : worker[w].from < i =>
            log[i].file \in ChangedSince(worker[w].from)
    BY <1>1, LogTypes DEF ChangedSince
  <2>. QED  BY <1>3, <2>1, <2>2 DEF PullInv, Serial
<1>9. ASSUME NEW w \in Workers, StampSighting(w), worker[w].found # {}
      PROVE  PullInv'
  <2>1. /\ worker'[w].pc = "upsert" /\ worker'[w].from = worker[w].from
        /\ worker'[w].new = worker[w].new /\ worker[w].pc = "now"
        /\ worker'[w].found = worker[w].found /\ worker'[w].now = clock + 1
        /\ token' = token /\ log' = log
    BY <1>0, <1>9 DEF StampSighting, ReadClock, WorkerState
  <2>2. \A i \in DOMAIN log : log[i].at < clock + 1
    BY <1>0, LogTypes DEF LogInv
  <2>3. \A i \in DOMAIN log : worker[w].from < i /\ i <= worker[w].new =>
            log[i].file \in worker[w].found
    BY <2>1 DEF PullInv
  <2>. QED  BY <1>3, <2>1, <2>2, <2>3 DEF PullInv, Serial
<1>10. ASSUME NEW w \in Workers, StampSighting(w), worker[w].found = {}
       PROVE  PullInv'
  <2>1. worker'[w].pc = "idle" /\ token' = token
    BY <1>0, <1>10 DEF StampSighting, IdleWorker
  <2>. QED  BY <1>6, <2>1
<1>11. ASSUME NEW w \in Workers, NEW f \in Files, UpsertFound(w, f)
       PROVE  PullInv'
  <2>1. /\ worker[w].pc = "upsert"
        /\ worker'[w].pc \in {"upsert", "advance"}
        /\ worker'[w].from = worker[w].from
        /\ worker'[w].new = worker[w].new /\ worker'[w].now = worker[w].now
        /\ worker'[w].found = worker[w].found \ {f}
        /\ worker'[w].pc = "advance" => worker'[w].found = {}
        /\ token' = token /\ log' = log
    BY <1>0, <1>11 DEF UpsertFound, WorkerState
  <2>2. ASSUME NEW i \in DOMAIN log, log[i].file = f, i <= worker[w].new
        PROVE  Recorded(i)'
    <3>1. log[i].at < worker[w].now
      BY <2>1, <2>2 DEF PullInv
    <3>2. f \in DOMAIN pending'
      BY <1>11 DEF UpsertFound, UpsertPendingEdit
    <3>3. pending'[f].last = worker[w].now
      <4>1. pending'[f] = Debounced(f, worker[w].now)
        BY <1>11 DEF UpsertFound, UpsertPendingEdit
      <4>2. f \in DOMAIN pending => pending[f] \in Row
        BY DEF TypeOK
      <4>. QED  BY <4>1, <4>2 DEF Debounced, Row
    <3>. QED  BY <2>1, <2>2, <3>1, <3>2, <3>3 DEF Recorded
  <2>3. \A i \in DOMAIN log : worker[w].from < i /\ i <= worker[w].new =>
            log[i].file \in worker[w].found \ {f} \/ Recorded(i)'
    BY <1>2, <2>1, <2>2 DEF PullInv
  <2>4. \A i \in DOMAIN log :
            i <= worker[w].new \/ (\E c \in Channels : i <= token[c]) =>
                log[i].at < worker[w].now
    BY <2>1 DEF PullInv
  <2>. QED  BY <1>3, <2>1, <2>3, <2>4 DEF PullInv, Serial
<1>12. ASSUME NEW w \in Workers, AdvancePageToken(w) PROVE PullInv'
  <2>1. worker'[w].pc = "idle" /\ worker[w].pc = "advance" /\ log' = log
    BY <1>0, <1>12 DEF AdvancePageToken, IdleWorker
  <2>2. ASSUME NEW c \in Channels, NEW i \in 1..token'[c] PROVE Recorded(i)'
    <3>1. CASE i \in 1..token[c]
      BY <1>3, <3>1
    <3>2. CASE i \notin 1..token[c]
      <4>1. token[c] = worker[w].from /\ token'[c] = worker[w].new
        BY <1>0, <1>12, <3>2 DEF AdvancePageToken, AdvanceToken
      <4>2. worker[w].from < i /\ i <= worker[w].new /\ i \in DOMAIN log
        BY <1>0, <1>1, <2>1, <3>2, <4>1, LogTypes DEF PullForward
      <4>3. Recorded(i)
        BY <2>1, <4>2 DEF PullInv
      <4>. QED  BY <1>2, <2>1, <4>2, <4>3
    <3>. QED  BY <3>1, <3>2
  <2>. QED  BY <2>1, <2>2 DEF PullInv, Serial
<1>13. CASE CrashServer
  <2>1. \A w \in Workers : worker'[w].pc = "idle"
    BY <1>13 DEF CrashServer, IdleWorker
  <2>2. token' = token
    BY <1>13 DEF CrashServer
  <2>. QED  BY <1>3, <2>1, <2>2 DEF PullInv
<1>. QED
  BY <1>5, <1>7, <1>8, <1>9, <1>10, <1>11, <1>12, <1>13, WorkerWriters

\* RunInv is kept by every step of a serial system.
LEMMA RunInvStep ==
    ASSUME TypeOK, RevisionInv, LogInv, RunInv, Serial, [Next]_vars
    PROVE  RunInv'
<1> USE DEF drive, store
<1>0. /\ runner \in [Runners -> RunnerState]
      /\ \A r \in Runners : runner[r] \in RunnerState
      /\ source \in [Files -> [rev : Nat, content : Nat]]
      /\ head \in [Files -> Nat]
      /\ clock \in Nat /\ None \notin Files
  BY NamesAssumption DEF TypeOK
<1>1. \A r \in Runners : /\ runner[r].now \in Nat /\ runner[r].content \in Nat
                         /\ runner[r].metas \in [Files -> Nat]
  BY <1>0 DEF RunnerState
\* What a run did not look at has not happened before its clock reading.
<1>2. ASSUME NEW r \in Runners, NEW i \in DOMAIN log', log'[i].at < runner[r].now
      PROVE  i \in DOMAIN log /\ log'[i] = log[i]
  <2>1. CASE log' = log
    BY <1>2, <2>1
  <2>2. ASSUME NEW f \in Files, Edit(f)
        PROVE  i \in DOMAIN log /\ log'[i] = log[i]
    <3>1. log' = Append(log, [file |-> f, at |-> clock])
      BY <2>2 DEF Edit
    <3>2. i \in DOMAIN log \/ i = Len(log) + 1
      <4>1. DOMAIN log' = 1..(Len(log) + 1) /\ DOMAIN log = 1..Len(log)
        BY <3>1 DEF TypeOK
      <4>. QED  BY <4>1, LogTypes
    <3>3. log'[Len(log) + 1] = [file |-> f, at |-> clock]
      BY <3>1 DEF TypeOK
    <3>4. runner[r].now <= clock
      BY DEF RunInv
    <3>. QED  BY <1>0, <1>1, <1>2, <3>2, <3>3, <3>4, LogForward
  <2>. QED  BY <2>1, <2>2, LogWriters
<1>3. clock <= clock' /\ clock' \in Nat
  BY <1>0, ClockWriters
<1>4. CASE runner' = runner
  <2>1. source' = source
    <3>1. ASSUME NEW r \in Runners, NEW f \in Files, StoreSource(r, f)
          PROVE  FALSE
      <4>1. runner'[r].pc # "store" /\ runner[r].pc = "store"
        BY <1>0, <3>1 DEF StoreSource, AfterFile, RunnerState
      <4>. QED  BY <1>4, <4>1
    <3>. QED  BY <3>1, SourceWriters
  <2>2. \A r \in Runners : runner[r].now <= clock'
    BY <1>0, <1>1, <1>3 DEF RunInv
  <2>3. \A r \in Runners, f \in Files :
            runner[r].content <= head[f] => runner[r].content <= head'[f]
    BY <1>0, <1>1, LogForward
  <2>. QED  BY <1>2, <1>4, <2>1, <2>2, <2>3 DEF RunInv
\* A run that is idle, has just started or is about to read the metadata has
\* nothing to show.
<1>5. ASSUME NEW r \in Runners, runner'[r].pc \in {"idle", "metas"},
             runner'[r].now <= clock',
             runner'[r].pc = "metas" => runner'[r].todo = runner'[r].files
      PROVE  RunInv'
  BY <1>5 DEF RunInv, Serial
<1>6. ASSUME NEW r \in Runners, StartRun(r) PROVE RunInv'
  <2>1. /\ runner'[r].pc = "metas" /\ runner'[r].now = clock'
        /\ runner'[r].todo = runner'[r].files
    BY <1>0, <1>6 DEF StartRun, IdleRunner, Serial
  <2>. QED  BY <1>3, <1>5, <2>1
<1>7. ASSUME NEW r \in Runners, FailRun(r) PROVE RunInv'
  <2>1. runner'[r].pc = "idle" /\ runner'[r].now = 0
    BY <1>0, <1>7 DEF FailRun, IdleRunner
  <2>. QED  BY <1>3, <1>5, <2>1
<1>8. ASSUME NEW r \in Runners, CollectMetas(r) PROVE RunInv'
  <2>1. /\ runner[r].pc = "metas" /\ runner'[r].pc = "sync"
        /\ runner'[r].metas = head /\ runner'[r].now = runner[r].now
        /\ runner'[r].todo = runner[r].todo
        /\ runner'[r].files = runner[r].files
        /\ log' = log /\ source' = source /\ head' = head /\ clock' = clock
    BY <1>0, <1>8 DEF CollectMetas, RunnerState
  <2>2. runner[r].now <= clock /\ runner[r].todo = runner[r].files
    BY <2>1 DEF RunInv
  <2>3. \A i \in DOMAIN log : i <= head[log[i].file]
    BY DEF LogInv
  <2>. QED  BY <2>1, <2>2, <2>3 DEF RunInv, Serial
\* A file the run is done with is stored up to the run's clock reading.
<1>9. ASSUME NEW r \in Runners, NEW f \in Files,
             runner[r].pc \in {"sync", "bytes", "store"},
             runner'[r] = AfterFile(r, f),
             log' = log, clock' = clock,
             \A g \in Files \ {f} : source'[g] = source[g],
             \A i \in DOMAIN log : log[i].file = f /\ log[i].at < runner[r].now
                 => source'[f].content >= i
      PROVE  RunInv'
  <2>1. /\ runner'[r].pc \in {"sync", "clear"} /\ runner'[r].cur = None
        /\ runner'[r].now = runner[r].now
        /\ runner'[r].metas = runner[r].metas
        /\ runner'[r].files = runner[r].files
        /\ runner'[r].todo = runner[r].todo \ {f}
        /\ runner'[r].pc = "clear" => runner'[r].todo = {}
    BY <1>0, <1>9 DEF AfterFile, RunnerState
  <2>2. ASSUME NEW i \in DOMAIN log, log[i].at < runner[r].now,
               log[i].file \in runner'[r].files \ runner'[r].todo
        PROVE  source'[log[i].file].content >= i
    <3>1. CASE log[i].file = f
      BY <1>9, <2>2, <3>1
    <3>2. CASE log[i].file # f
      <4>1. log[i].file \in runner[r].files \ runner[r].todo
        BY <2>1, <2>2, <3>2
      <4>2. source[log[i].file].content >= i
        BY <1>9, <2>2, <4>1 DEF RunInv
      <4>. QED  BY <1>9, <3>2, <4>2, LogTypes
    <3>. QED  BY <3>1, <3>2
  <2>3. \A i \in DOMAIN log : log[i].at < runner[r].now =>
            i <= runner[r].metas[log[i].file]
    BY <1>9 DEF RunInv
  <2>4. runner[r].now <= clock
    BY DEF RunInv
  <2>. QED  BY <1>0, <1>9, <2>1, <2>2, <2>3, <2>4 DEF RunInv, Serial
<1>10. ASSUME NEW r \in Runners, NEW f \in Files, SkipByRevision(r, f)
       PROVE  RunInv'
  <2>1. /\ runner[r].pc = "sync" /\ runner'[r] = AfterFile(r, f)
        /\ source[f].rev = runner[r].metas[f]
        /\ log' = log /\ clock' = clock /\ source' = source
    BY <1>0, <1>10 DEF SkipByRevision
  <2>2. ASSUME NEW i \in DOMAIN log, log[i].file = f, log[i].at < runner[r].now
        PROVE  source'[f].content >= i
    <3>1. i <= source[f].rev
      BY <2>1, <2>2 DEF RunInv
    <3>2. source[f].rev <= source[f].content
      BY DEF RevisionInv, RevisionNotAhead
    <3>3. source[f].rev \in Nat /\ source[f].content \in Nat /\ i \in Nat
      BY <1>0, LogTypes
    <3>. QED  BY <2>1, <3>1, <3>2, <3>3
  <2>. QED  BY <1>9, <2>1, <2>2
<1>11. ASSUME NEW r \in Runners, NEW f \in Files, FetchMeta(r, f)
       PROVE  RunInv'
  <2>1. /\ runner[r].pc = "sync" /\ runner'[r].pc = "bytes"
        /\ runner'[r].cur = f /\ runner'[r].content = source[f].content
        /\ runner'[r].metas = runner[r].metas
        /\ runner'[r].now = runner[r].now
        /\ runner'[r].todo = runner[r].todo
        /\ runner'[r].files = runner[r].files
        /\ log' = log /\ source' = source /\ head' = head /\ clock' = clock
    BY <1>0, <1>11 DEF FetchMeta, RunnerState
  <2>. QED  BY <2>1 DEF RunInv, Serial
<1>12. ASSUME NEW r \in Runners, NEW f \in Files, FetchBytes(r, f),
              runner[r].content # head[f]
       PROVE  RunInv'
  <2>1. /\ runner[r].pc = "bytes" /\ runner'[r].pc = "store"
        /\ runner[r].cur = f
        /\ runner'[r].cur = f /\ runner'[r].content = head[f]
        /\ runner'[r].metas = runner[r].metas
        /\ runner'[r].now = runner[r].now
        /\ runner'[r].todo = runner[r].todo
        /\ runner'[r].files = runner[r].files
        /\ log' = log /\ source' = source /\ head' = head /\ clock' = clock
    BY <1>0, <1>12 DEF FetchBytes, RunnerState
  <2>2. /\ source[f].content <= head[f]
        /\ \A i \in DOMAIN log : log[i].file = f => i <= head[f]
    BY DEF LogInv
  <2>3. runner[r].now <= clock
    BY DEF RunInv
  <2>4. \A i \in DOMAIN log : log[i].at < runner[r].now =>
            /\ i <= runner[r].metas[log[i].file]
            /\ log[i].file \in runner[r].files \ runner[r].todo
                => source[log[i].file].content >= i
    BY <2>1 DEF RunInv
  <2>. QED  BY <1>0, <2>1, <2>2, <2>3, <2>4, LogTypes DEF RunInv, Serial
<1>13. ASSUME NEW r \in Runners, NEW f \in Files, FetchBytes(r, f),
              runner[r].content = head[f]
       PROVE  RunInv'
  <2>1. /\ runner[r].pc = "bytes" /\ runner'[r] = AfterFile(r, f)
        /\ runner[r].cur = f
        /\ log' = log /\ clock' = clock /\ source' = source
    BY <1>0, <1>13 DEF FetchBytes
  <2>2. source[f].content = head[f]
    BY <1>13, <2>1 DEF RunInv
  <2>3. \A i \in DOMAIN log : log[i].file = f => source'[f].content >= i
    BY <1>0, <2>1, <2>2, LogTypes DEF LogInv
  <2>. QED  BY <1>9, <2>1, <2>3
<1>14. ASSUME NEW r \in Runners, NEW f \in Files, StoreSource(r, f)
       PROVE  RunInv'
  <2>1. /\ runner[r].pc = "store" /\ runner'[r] = AfterFile(r, f)
        /\ runner[r].cur = f
        /\ log' = log /\ clock' = clock
        /\ \A g \in Files \ {f} : source'[g] = source[g]
        /\ source'[f].content = runner[r].content
    BY <1>0, <1>14 DEF StoreSource
  <2>2. \A i \in DOMAIN log : log[i].file = f /\ log[i].at < runner[r].now
            => source'[f].content >= i
    BY <2>1 DEF RunInv
  <2>. QED  BY <1>9, <2>1, <2>2
<1>15. ASSUME NEW r \in Runners, NEW f \in Files, ClearRow(r, f),
              runner[r].files # {f}
       PROVE  RunInv'
  <2>1. /\ runner[r].pc = "clear" /\ runner'[r].pc = "clear"
        /\ runner'[r].now = runner[r].now
        /\ runner'[r].todo = runner[r].todo
        /\ runner'[r].files = runner[r].files \ {f}
        /\ log' = log /\ source' = source /\ clock' = clock
    BY <1>0, <1>15 DEF ClearRow, RunnerState
  <2>. QED  BY <2>1 DEF RunInv, Serial
<1>16. ASSUME NEW r \in Runners, NEW f \in Files, ClearRow(r, f),
              runner[r].files = {f}
       PROVE  RunInv'
  <2>1. runner'[r].pc = "idle" /\ runner'[r].now = 0
    BY <1>0, <1>16 DEF ClearRow, IdleRunner
  <2>. QED  BY <1>3, <1>5, <2>1
<1>. QED
  BY <1>4, <1>6, <1>7, <1>8, <1>10, <1>11, <1>12, <1>13, <1>14, <1>15, <1>16,
     RunnerWriters

\* With one thread pulling, one run at a time and the source set given to every
\* run, no edit is ever lost: for every number of files, channels and edits,
\* and whatever notifications are lost, pulls or runs fail and servers crash.
THEOREM NoEditLostSerially == Serial => (Spec => []NoEditLost)
<1> SUFFICES ASSUME Serial PROVE Spec => []NoEditLost
  OBVIOUS
<1>1. Init => EditInv
  <2> SUFFICES ASSUME Init PROVE EditInv
    OBVIOUS
  <2>1. DOMAIN log = {} /\ \A c \in Channels : 1..token[c] = {}
    BY DEF Init
  <2>2. /\ \A w \in Workers : worker[w].pc = "idle"
        /\ \A r \in Runners : runner[r].pc = "idle" /\ runner[r].now = 0
    BY DEF Init, IdleWorker, IdleRunner
  <2>3. clock = 0 /\ \A f \in Files : source[f].content = 0 /\ head[f] = 0
    BY DEF Init
  <2>. QED  BY <2>1, <2>2, <2>3 DEF EditInv, LogInv, PullInv, RunInv
<1>2. TypeOK /\ PullForward /\ EditInv => NoEditLost
  <2> SUFFICES ASSUME TypeOK, PullForward, EditInv,
                      NEW c \in Channels, NEW i \in 1..token[c]
               PROVE  Kept(i)
    BY DEF NoEditLost
  <2>1. i <= Len(log)
    BY LogTypes DEF TypeOK, PullForward
  <2>2. Recorded(i)
    BY DEF EditInv, PullInv
  <2>. QED  BY <2>1, <2>2 DEF Recorded, Kept, Ingested
<1>3. /\ TypeOK /\ RevisionInv /\ PullForward /\ EditInv /\ [Next]_vars
      => EditInv'
  BY LogInvStep, PullInvStep, RunInvStep DEF EditInv
<1>4. Init => RevisionInv /\ PullForward
  BY DEF Init, RevisionInv, RevisionNotAhead, IdleRunner, PullForward, IdleWorker
<1>. QED
  BY <1>1, <1>2, <1>3, <1>4, RevisionStep, PullForwardStep, TypeCorrect,
     PTL DEF Spec

=============================================================================
