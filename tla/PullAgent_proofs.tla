-------------------------- MODULE PullAgent_proofs --------------------------
(***************************************************************************)
(* Theorems about PullAgent, for every set of cards, writers, server       *)
(* threads and faults, every batch size and conflict policy.               *)
(***************************************************************************)
EXTENDS PullAgent, SequenceTheorems, FiniteSetTheorems, WellFoundedInduction, TLAPS

----------------------------------------------------------------------------
(* Operators *)

Below == {ss \in Nat \X Nat : ss[1] < ss[2]}

\* A bounded set of naturals that is not empty has a greatest element.
LEMMA Greatest ==
    ASSUME NEW S, S \subseteq Nat, S # {}, NEW n \in Nat, \A s \in S : s <= n
    PROVE  \E m \in S : \A s \in S : s <= m
<1> DEFINE T == {n - s : s \in S}
<1>1. T \subseteq Nat /\ T # {}
  <2>1. \A s \in S : n - s \in Nat
    OBVIOUS
  <2>2. PICK s \in S : TRUE
    OBVIOUS
  <2>. QED  BY <2>1, <2>2
<1>2. \E x \in T : \A y \in T : <<y, x>> \notin Below
  <2>1. IsWellFoundedOn(Below, Nat)
    BY NatLessThanWellFounded DEF OpToRel, Below
  <2> HIDE DEF T
  <2>. QED  BY <1>1, <2>1, WFMin
<1>3. PICK m \in S : \A y \in T : <<y, n - m>> \notin Below
  BY <1>2
<1>4. ASSUME NEW s \in S PROVE s <= m
  <2>1. n - s \in T /\ n - s \in Nat /\ n - m \in Nat
    OBVIOUS
  <2>2. <<n - s, n - m>> \notin Below
    BY <1>3, <2>1
  <2>3. ~(n - s < n - m)
    BY <2>1, <2>2 DEF Below
  <2>. QED  BY <2>3
<1>. QED  BY <1>4

\* A merge gives a value to every field.
LEMMA MergeTypes ==
    ASSUME NEW base \in Fields \cup {NoBase}, NEW remote \in Fields,
           NEW local \in Fields, NEW policy
    PROVE  MergedFields(base, remote, local, policy) \in Fields
  BY DEF MergedFields, MergedField, Fields

\* The fields the pipeline has for a content are fields of a note.
LEMMA LocalTypes == \A n \in Nat : LocalFields(n) \in Fields
  BY DEF LocalFields, Fields

\* What an idle process and an empty row hold is well typed.
LEMMA IdleTypes ==
    /\ NoCard \in CardRecord
    /\ Nothing \in Items /\ Nothing \in Results
    /\ IdleHandler \in HandlerState /\ IdleAgent \in AgentState
<1>1. NoCard \in CardRecord
  BY DEF NoCard, CardRecord
<1>2. Nothing \in Items /\ Nothing \in Results
  BY DEF Nothing, Items, Results
<1>. QED  BY <1>1, <1>2 DEF IdleHandler, HandlerState, IdleAgent, AgentState

----------------------------------------------------------------------------
(* Type correctness *)

\* Every stamp was read from the clock.
StampInv ==
    /\ \A c \in Cards : card[c].updated <= clock
    /\ \A h \in Handlers : handler[h].rec.updated <= clock
    /\ \A k \in Ingesters : ingester[k].rec.updated <= clock

\* A process that is about to use a batch, a card or a result has one.
ShapeInv ==
    /\ \A h \in Handlers :
           /\ \/ handler[h].pc \in {"check", "stamp", "write", "cursor"}
              \/ handler[h].pc = "reply" /\ handler[h].items # Nothing
              => handler[h].id \in DOMAIN batch
           /\ handler[h].pc \in {"open", "select"} => handler[h].items = Nothing
           /\ handler[h].todo \subseteq Listed(handler[h].results)
           /\ handler[h].pc = "write" => handler[h].key \in handler[h].todo
    /\ agent.pc \in {"apply", "stage", "post"} => agent.id \in DOMAIN batch
    /\ inflight # Absent => inflight.id \in DOMAIN batch
    /\ \A k \in Ingesters :
           ingester[k].pc = "store" => ingester[k].key \in Cards

TypeInv == TypeOK /\ StampInv /\ ShapeInv

\* What TypeOK says of the batches.
LEMMA BatchTypes ==
    ASSUME TypeOK
    PROVE  /\ Len(batch) \in Nat
           /\ DOMAIN batch = 1..Len(batch)
           /\ \A i \in DOMAIN batch :
                  batch[i] \in [items : Items, acked : BOOLEAN, cursor : Nat]
<1>1. batch \in Seq([items : Items, acked : BOOLEAN, cursor : Nat])
  BY DEF TypeOK
<1>2. \A i \in 1..Len(batch) :
          batch[i] \in [items : Items, acked : BOOLEAN, cursor : Nat]
  BY <1>1, ElementOfSeq
<1>. QED  BY <1>1, <1>2

\* Counting one more use of a bound keeps the counters well typed.
LEMMA UsedTypes ==
    ASSUME TypeOK
    PROVE  /\ [used EXCEPT !.ingests = @ + 1]
                  \in [ingests : Nat, faults : Nat, edits : Nat]
           /\ [used EXCEPT !.faults = @ + 1]
                  \in [ingests : Nat, faults : Nat, edits : Nat]
           /\ [used EXCEPT !.edits = @ + 1]
                  \in [ingests : Nat, faults : Nat, edits : Nat]
<1>1. used \in [ingests : Nat, faults : Nat, edits : Nat]
  BY DEF TypeOK
<1>2. used.ingests + 1 \in Nat /\ used.faults + 1 \in Nat /\ used.edits + 1 \in Nat
  BY <1>1
<1>. QED  BY <1>1, <1>2

\* An upsert writes a well-typed row.
LEMMA UpsertTypes ==
    ASSUME TypeOK, NEW c \in Cards, NEW rec \in CardRecord, UpsertCard(c, rec)
    PROVE  card' \in [Cards -> CardRecord]
  BY DEF TypeOK, UpsertCard

\* The newest open batch exists when there is an open batch.
LEMMA NewestOpen ==
    ASSUME TypeOK, OpenBatches # {}
    PROVE  (CHOOSE j \in OpenBatches : \A n \in OpenBatches : n <= j)
               \in OpenBatches
<1>1. /\ OpenBatches \subseteq Nat
      /\ \A n \in OpenBatches : n <= Len(batch)
  BY BatchTypes DEF OpenBatches
<1>. QED  BY <1>1, BatchTypes, Greatest

\* The cursor of a batch is a stamp of one of its cards, and the last.
LEMMA LastStampTypes ==
    ASSUME TypeOK, StampInv, NEW S \in SUBSET Cards, S # {}
    PROVE  /\ LastStamp(S) \in {card[c].updated : c \in S}
           /\ \A c \in S : card[c].updated <= LastStamp(S)
           /\ LastStamp(S) \in Nat
<1> DEFINE T == {card[c].updated : c \in S}
<1>1. clock \in Nat /\ \A c \in S : card[c].updated \in Nat
  BY DEF TypeOK, CardRecord
<1>2. T \subseteq Nat /\ T # {} /\ \A t \in T : t <= clock
  BY <1>1 DEF StampInv
<1>3. \E m \in T : \A t \in T : t <= m
  <2> HIDE DEF T
  <2>. QED  BY <1>1, <1>2, Greatest
<1>4. \E m \in T : \A c \in S : card[c].updated <= m
  BY <1>3
<1>. QED  BY <1>2, <1>4 DEF LastStamp

\* What an item makes of its note is the fields of a note.
LEMMA WrittenTypes ==
    ASSUME TypeOK, NEW c \in Cards, c \in Listed(agent.items)
    PROVE  Written(c) \in Fields
<1> DEFINE item == agent.items[c]
           local == LocalFields(item.content)
<1>1. item \in Item
  BY DEF TypeOK, Listed, AgentState, Items
<1>2. local \in Fields /\ item.base \in Fields \cup {NoBase}
  BY <1>1, LocalTypes DEF Item
<1>3. note[c] # Absent => note[c] \in Fields
  BY DEF TypeOK
<1>4. note[c] # Absent
          => MergedFields(item.base, note[c], local, Policy) \in Fields
  BY <1>2, <1>3, MergeTypes
<1>. QED  BY <1>2, <1>4 DEF Written

\* A finished item leaves the agent in a well-typed state.
LEMMA FinishTypes ==
    ASSUME TypeOK, NEW c \in Cards,
           NEW status \in {"applied", "unchanged", "conflict", "error"},
           NEW fields \in Fields \cup {NoBase}, Finish(c, status, fields)
    PROVE  agent' \in AgentState
<1>1. agent \in AgentState
  BY DEF TypeOK
<1>2. [status |-> status, fields |-> fields] \in Result
  BY DEF Result
<1>3. [agent.results EXCEPT ![c] = [status |-> status, fields |-> fields]]
          \in Results
  BY <1>1, <1>2 DEF AgentState, Results
<1>. QED  BY <1>1, <1>3 DEF Finish, AgentState

\* Actions of the pipeline and of a server thread keep the state well typed.
LEMMA ServerTypes ==
    ASSUME TypeInv, NEW h \in Handlers, HandlerStep(h) PROVE TypeOK'
<1> USE DEF server, desktop
<1>1. TypeOK /\ StampInv /\ ShapeInv
  BY DEF TypeInv
<1>2. handler[h] \in HandlerState /\ clock \in Nat
  BY <1>1 DEF TypeOK
<1>3. CASE FindOpenBatch(h)
  <2>1. CASE OpenBatches = {}
    <3>1. [handler[h] EXCEPT !.pc = "select"] \in HandlerState
      BY <1>2 DEF HandlerState
    <3>. QED  BY <1>1, <1>3, <2>1, <3>1 DEF FindOpenBatch, TypeOK
  <2>2. CASE OpenBatches # {}
    <3> DEFINE i == CHOOSE j \in OpenBatches : \A n \in OpenBatches : n <= j
    <3>1. i \in DOMAIN batch /\ i \in Nat
      BY <1>1, <2>2, NewestOpen, BatchTypes DEF OpenBatches
    <3>2. batch[i].items \in Items /\ batch[i].cursor \in Nat
      BY <1>1, <3>1, BatchTypes
    <3> HIDE DEF i
    <3>3. [handler[h] EXCEPT !.pc = "reply", !.id = i, !.items = batch[i].items,
                             !.to = batch[i].cursor] \in HandlerState
      BY <1>2, <3>1, <3>2 DEF HandlerState
    <3>4. handler' = [handler EXCEPT ![h] =
              [handler[h] EXCEPT !.pc = "reply", !.id = i,
                                 !.items = batch[i].items,
                                 !.to = batch[i].cursor]]
      BY <1>3, <2>2 DEF FindOpenBatch, i
    <3>. QED  BY <1>1, <1>3, <3>3, <3>4 DEF FindOpenBatch, TypeOK
  <2>. QED  BY <2>1, <2>2
<1>4. CASE SelectCards(h)
  <2> DEFINE S == Selected(handler[h].from)
             its == [c \in Cards |-> IF c \in S
                        THEN [content |-> card[c].content, base |-> card[c].base]
                        ELSE Absent]
  <2>1. S \subseteq Cards
    BY DEF Selected
  <2>2. CASE S = {}
    <3>1. [handler[h] EXCEPT !.pc = "reply"] \in HandlerState
      BY <1>2 DEF HandlerState
    <3>. QED  BY <1>1, <1>4, <2>2, <3>1 DEF SelectCards, TypeOK
  <2>3. CASE S # {}
    <3>1. LastStamp(S) \in Nat
      BY <1>1, <2>1, <2>3, LastStampTypes
    <3>2. \A c \in Cards : /\ card[c].content \in Nat
                           /\ card[c].base \in Fields \cup {NoBase}
      BY <1>1 DEF TypeOK, CardRecord
    <3>3. its \in Items
      BY <3>2 DEF Items, Item
    <3> HIDE DEF its
    <3>4. [handler[h] EXCEPT !.pc = "put", !.items = its, !.to = LastStamp(S)]
              \in HandlerState
      BY <1>2, <3>1, <3>3 DEF HandlerState
    <3>5. handler' = [handler EXCEPT ![h] =
              [handler[h] EXCEPT !.pc = "put", !.items = its,
                                 !.to = LastStamp(S)]]
      BY <1>4, <2>3 DEF SelectCards, its
    <3>. QED  BY <1>1, <1>4, <3>4, <3>5 DEF SelectCards, TypeOK
  <2>. QED  BY <2>2, <2>3
<1>5. CASE PutBatch(h)
  <2>1. [items |-> handler[h].items, acked |-> FALSE, cursor |-> handler[h].to]
            \in [items : Items, acked : BOOLEAN, cursor : Nat]
    BY <1>2 DEF HandlerState
  <2>2. batch' \in Seq([items : Items, acked : BOOLEAN, cursor : Nat])
    BY <1>1, <1>5, <2>1 DEF TypeOK, PutBatch
  <2>3. [handler[h] EXCEPT !.pc = "reply", !.id = Len(batch) + 1] \in HandlerState
    <3>1. Len(batch) + 1 \in Nat
      BY <1>1, BatchTypes
    <3>. QED  BY <1>2, <3>1 DEF HandlerState
  <2>4. handler' \in [Handlers -> HandlerState]
    BY <1>1, <1>5, <2>3 DEF TypeOK, PutBatch
  <2>. QED  BY <1>1, <1>5, <2>2, <2>4 DEF PutBatch, TypeOK
<1>6. CASE RefuseAck(h)
  <2>1. [handler[h] EXCEPT !.pc = "reply"] \in HandlerState
    BY <1>2 DEF HandlerState
  <2>. QED  BY <1>1, <1>6, <2>1 DEF RefuseAck, TypeOK
<1>7. CASE BeginAck(h)
  <2>1. clock' \in Nat
    BY <1>2, <1>7 DEF BeginAck, ReadClock
  <2>2. [handler[h] EXCEPT !.pc = "stamp", !.now = clock',
                           !.todo = Applied(handler[h].results)] \in HandlerState
    BY <1>2, <2>1 DEF HandlerState, Applied, Listed
  <2>. QED  BY <1>1, <1>7, <2>1, <2>2 DEF BeginAck, TypeOK
<1>8. ASSUME NEW c \in Cards, ReadCard(h, c) PROVE TypeOK'
  <2>1. card[c] \in CardRecord
    BY <1>1 DEF TypeOK
  <2>2. [handler[h] EXCEPT !.pc = "write", !.key = c, !.rec = card[c]]
            \in HandlerState
    BY <1>2, <2>1 DEF HandlerState
  <2>. QED  BY <1>1, <1>8, <2>2 DEF ReadCard, TypeOK
<1>9. CASE WriteCard(h)
  <2> DEFINE c == handler[h].key
             rec == [handler[h].rec EXCEPT
                         !.synced = handler[h].now,
                         !.base = handler[h].results[c].fields]
  <2>1. c \in Listed(handler[h].results)
    BY <1>1, <1>9 DEF WriteCard, ShapeInv
  <2>2. c \in Cards /\ handler[h].results[c] \in Result
    BY <1>2, <2>1 DEF Listed, HandlerState, Results
  <2>3. rec \in CardRecord
    BY <1>2, <2>2 DEF HandlerState, CardRecord, Result
  <2>4. UpsertCard(c, rec)
    BY <1>9 DEF WriteCard
  <2>5. card' \in [Cards -> CardRecord]
    <3> HIDE DEF rec, c
    <3>. QED  BY <1>1, <2>2, <2>3, <2>4, UpsertTypes
  <2>6. [handler[h] EXCEPT !.pc = "stamp", !.todo = handler[h].todo \ {c},
                           !.key = Absent, !.rec = NoCard] \in HandlerState
    BY <1>2, IdleTypes DEF HandlerState
  <2>7. handler' \in [Handlers -> HandlerState]
    BY <1>1, <1>9, <2>6 DEF WriteCard, TypeOK
  <2>. QED  BY <1>1, <1>9, <2>5, <2>7 DEF WriteCard, TypeOK
<1>10. CASE MarkAcked(h)
  <2>1. handler[h].id \in DOMAIN batch
    BY <1>1, <1>10 DEF MarkAcked, ShapeInv
  <2>2. [batch[handler[h].id] EXCEPT !.acked = TRUE]
            \in [items : Items, acked : BOOLEAN, cursor : Nat]
    BY <1>1, <2>1, BatchTypes
  <2>3. batch' = [batch EXCEPT ![handler[h].id] =
                      [batch[handler[h].id] EXCEPT !.acked = TRUE]]
    BY <1>10 DEF MarkAcked
  <2>4. batch' \in Seq([items : Items, acked : BOOLEAN, cursor : Nat])
    BY <1>1, <2>1, <2>2, <2>3, ExceptSeq DEF TypeOK
  <2>5. [handler[h] EXCEPT !.pc = IF batch[handler[h].id].acked THEN "reply"
                                  ELSE "cursor"] \in HandlerState
    BY <1>2 DEF HandlerState
  <2>6. handler' \in [Handlers -> HandlerState]
    BY <1>1, <1>10, <2>5 DEF MarkAcked, TypeOK
  <2>. QED  BY <1>1, <1>10, <2>4, <2>6 DEF MarkAcked, TypeOK
<1>11. CASE SetCursor(h)
  <2>1. handler[h].id \in DOMAIN batch
    BY <1>1, <1>11 DEF SetCursor, ShapeInv
  <2>2. batch[handler[h].id].cursor \in Nat
    BY <1>1, <2>1, BatchTypes
  <2>3. [handler[h] EXCEPT !.pc = "reply", !.ok = TRUE] \in HandlerState
    BY <1>2 DEF HandlerState
  <2>. QED  BY <1>1, <1>11, <2>2, <2>3 DEF SetCursor, TypeOK
<1>12. CASE DropAnswer(h)
  BY <1>1, <1>12, IdleTypes DEF DropAnswer, TypeOK
<1>. QED
  BY <1>3, <1>4, <1>5, <1>6, <1>7, <1>8, <1>9, <1>10, <1>11, <1>12
  DEF HandlerStep

\* Actions of the agent keep the state well typed.
LEMMA AgentTypes == ASSUME TypeInv, AgentStep PROVE TypeOK'
<1> USE DEF server, desktop
<1>1. TypeOK /\ ShapeInv
  BY DEF TypeInv
<1>2. agent \in AgentState /\ saved \in Nat
  BY <1>1 DEF TypeOK
<1>3. ASSUME inflight # Absent
      PROVE  inflight \in [id : Nat, to : Nat, results : Results]
  BY <1>1, <1>3 DEF TypeOK
<1>4. ASSUME NEW h \in Handlers, FetchPending(h) PROVE TypeOK'
  <2>1. [IdleHandler EXCEPT !.pc = "open", !.from = saved] \in HandlerState
    BY <1>2, IdleTypes DEF HandlerState
  <2>2. [IdleAgent EXCEPT !.pc = "fetch", !.via = h] \in AgentState
    BY IdleTypes DEF AgentState
  <2>. QED  BY <1>1, <1>4, <2>1, <2>2 DEF FetchPending, TypeOK
<1>5. ASSUME NEW h \in Handlers, ReceiveBatch(h) PROVE TypeOK'
  <2>1. handler[h] \in HandlerState
    BY <1>1 DEF TypeOK
  <2>2. [IdleAgent EXCEPT !.pc = "apply", !.id = handler[h].id,
                          !.items = handler[h].items, !.to = handler[h].to]
            \in AgentState
    BY <2>1, IdleTypes DEF AgentState, HandlerState
  <2>. QED  BY <1>1, <1>5, <2>2, IdleTypes DEF ReceiveBatch, TypeOK
<1>6. ASSUME NEW h \in Handlers, PostAck(h) PROVE TypeOK'
  <2>1. inflight \in [id : Nat, to : Nat, results : Results]
    BY <1>3, <1>6 DEF PostAck
  <2>2. [IdleHandler EXCEPT !.pc = "check", !.id = inflight.id,
                            !.results = inflight.results] \in HandlerState
    BY <2>1, IdleTypes DEF HandlerState
  <2>3. [IdleAgent EXCEPT !.pc = "ack", !.via = h, !.to = inflight.to]
            \in AgentState
    BY <2>1, IdleTypes DEF AgentState
  <2>. QED  BY <1>1, <1>6, <2>2, <2>3 DEF PostAck, TypeOK
<1>7. ASSUME NEW h \in Handlers, ReceiveAck(h) PROVE TypeOK'
  <2>1. [IdleAgent EXCEPT !.pc = "save", !.to = agent.to] \in AgentState
    BY <1>2, IdleTypes DEF AgentState
  <2>. QED  BY <1>1, <1>7, <2>1, IdleTypes DEF ReceiveAck, TypeOK
<1>8. ASSUME NEW c \in Cards, ApplyItem(c) PROVE TypeOK'
  <2>1. Written(c) \in Fields
    BY <1>1, <1>8, WrittenTypes DEF ApplyItem
  <2>2. /\ note' = [note EXCEPT ![c] = Written(c)]
        /\ \/ Finish(c, "conflict", NoBase)
           \/ Finish(c, "unchanged", NoBase)
           \/ Finish(c, "applied", Written(c))
    BY <1>8 DEF ApplyItem, AddNote, MergeNote
  <2>3. note' \in [Cards -> Fields \cup {Absent}]
    BY <1>1, <2>1, <2>2 DEF TypeOK
  <2>4. agent' \in AgentState
    BY <1>1, <2>1, <2>2, FinishTypes
  <2>. QED  BY <1>1, <1>8, <2>3, <2>4 DEF ApplyItem, TypeOK
<1>9. CASE StageInflight
  <2>1. [id |-> agent.id, to |-> agent.to, results |-> agent.results]
            \in [id : Nat, to : Nat, results : Results]
    BY <1>2 DEF AgentState
  <2>2. [agent EXCEPT !.pc = "post"] \in AgentState
    BY <1>2 DEF AgentState
  <2>. QED  BY <1>1, <1>9, <2>1, <2>2 DEF StageInflight, TypeOK
<1>10. CASE SaveCursor
  <2>1. agent.to \in Nat
    BY <1>2 DEF AgentState
  <2>. QED  BY <1>1, <1>10, <2>1, IdleTypes DEF SaveCursor, TypeOK
<1>. QED
  BY <1>4, <1>5, <1>6, <1>7, <1>8, <1>9, <1>10 DEF AgentStep

\* What a writer, the user or a fault does keeps the state well typed.
LEMMA OtherTypes ==
    ASSUME TypeInv, [Next]_vars,
           ~AgentStep, \A h \in Handlers : ~HandlerStep(h)
    PROVE  TypeOK'
<1> USE DEF server, desktop
<1>1. TypeOK /\ ShapeInv
  BY DEF TypeInv
<1>2. clock \in Nat
  BY <1>1 DEF TypeOK
<1>3. ASSUME NEW k \in Ingesters, NEW c \in Cards, NEW v \in 1..MaxVersion,
             MakeRecord(k, c, v)
      PROVE  TypeOK'
  <2>1. v \in Nat /\ clock' \in Nat
    BY <1>2, <1>3, BoundsAssumption DEF MakeRecord, ReadClock
  <2>2. [NoCard EXCEPT !.content = v, !.updated = clock'] \in CardRecord
    BY <2>1, IdleTypes DEF CardRecord
  <2>. QED  BY <1>1, <1>3, <2>1, <2>2, UsedTypes DEF MakeRecord, TypeOK
<1>4. ASSUME NEW k \in Ingesters, StoreCard(k) PROVE TypeOK'
  <2>1. ingester[k].key \in Cards /\ ingester[k].rec \in CardRecord
    BY <1>1, <1>4 DEF StoreCard, ShapeInv, TypeOK
  <2>2. card' \in [Cards -> CardRecord]
    BY <1>1, <1>4, <2>1, UpsertTypes DEF StoreCard
  <2>3. IdleIngester \in [pc : {"idle", "store"}, rec : CardRecord,
                          key : Cards \cup {Absent}]
    BY IdleTypes DEF IdleIngester
  <2>. QED  BY <1>1, <1>4, <2>2, <2>3 DEF StoreCard, TypeOK
<1>5. ASSUME NEW h \in Handlers, LoseRequest(h) PROVE TypeOK'
  BY <1>1, <1>5, IdleTypes, UsedTypes DEF LoseRequest, Fault, TypeOK
<1>6. ASSUME NEW c \in Cards, FailItem(c) PROVE TypeOK'
  <2>1. agent' \in AgentState
    BY <1>1, <1>6, FinishTypes DEF FailItem
  <2>2. note' \in [Cards -> Fields \cup {Absent}]
    BY <1>1, <1>6, WrittenTypes DEF FailItem, TypeOK
  <2>. QED  BY <1>1, <1>6, <2>1, <2>2, UsedTypes DEF FailItem, Fault, TypeOK
<1>7. ASSUME NEW c \in Cards, NEW k \in FieldNames, EditNote(c, k) PROVE TypeOK'
  <2>1. note[c] \in Fields
    BY <1>1, <1>7 DEF EditNote, TypeOK
  <2>2. [note[c] EXCEPT ![k] = Mine] \in Fields
    BY <2>1 DEF Fields
  <2>3. note' = [note EXCEPT ![c] = [note[c] EXCEPT ![k] = Mine]]
    BY <1>7 DEF EditNote
  <2>4. note' \in [Cards -> Fields \cup {Absent}]
    BY <1>1, <2>2, <2>3 DEF TypeOK
  <2>. QED  BY <1>1, <1>7, <2>4, UsedTypes DEF EditNote, TypeOK
<1>8. CASE GiveUp \/ CrashAgent
  BY <1>1, <1>8, IdleTypes, UsedTypes DEF GiveUp, CrashAgent, Fault, TypeOK
<1>9. CASE CrashServer
  BY <1>1, <1>9, IdleTypes, UsedTypes DEF CrashServer, Fault, TypeOK
<1>10. CASE UNCHANGED vars
  BY <1>1, <1>10 DEF vars, TypeOK
<1>. QED
  BY <1>3, <1>4, <1>5, <1>6, <1>7, <1>8, <1>9, <1>10 DEF Next

\* TypeOK is kept by every step.
LEMMA TypeStep == ASSUME TypeInv, [Next]_vars PROVE TypeOK'
  BY ServerTypes, AgentTypes, OtherTypes

\* Time does not go back.
LEMMA ClockForward ==
    ASSUME TypeOK, [Next]_vars PROVE clock \in Nat /\ clock' \in Nat /\ clock <= clock'
<1> USE DEF server, desktop
<1>1. clock \in Nat
  BY DEF TypeOK
<1>2. CASE clock' = clock
  BY <1>1, <1>2
<1>3. CASE ReadClock
  BY <1>1, <1>3 DEF ReadClock
<1>4. clock' = clock \/ ReadClock
  BY DEF Next, HandlerStep, AgentStep, vars, MakeRecord, StoreCard, FindOpenBatch,
     SelectCards, PutBatch, RefuseAck, BeginAck, ReadCard, WriteCard, MarkAcked,
     SetCursor, DropAnswer, FetchPending, ReceiveBatch, ApplyItem, FailItem,
     StageInflight, PostAck, ReceiveAck, SaveCursor, EditNote, LoseRequest,
     GiveUp, CrashAgent, CrashServer
<1>. QED  BY <1>2, <1>3, <1>4

\* What a step of a server thread leaves as it was.
Kept(h) ==
    /\ handler'[h].results = handler[h].results
    /\ handler'[h].todo = handler[h].todo
    /\ handler'[h].key = handler[h].key
    /\ handler'[h].rec = handler[h].rec
    /\ handler'[h].ok = handler[h].ok

\* What a step of a server thread changes, field by field.
HandlerEffect(h) ==
    \/ /\ FindOpenBatch(h) /\ handler[h].pc = "open" /\ Kept(h)
       /\ \/ handler'[h].pc = "select" /\ handler'[h].items = handler[h].items
          \/ /\ handler'[h].pc = "reply" /\ handler'[h].id \in OpenBatches
             /\ handler'[h].items = batch[handler'[h].id].items
    \/ /\ SelectCards(h) /\ handler[h].pc = "select" /\ Kept(h)
       /\ \/ handler'[h].pc = "reply" /\ handler'[h].items = handler[h].items
          \/ handler'[h].pc = "put"
    \/ /\ PutBatch(h) /\ handler[h].pc = "put" /\ Kept(h)
       /\ handler'[h].pc = "reply"
       /\ handler'[h].id = Len(batch) + 1
    \/ /\ RefuseAck(h) /\ handler[h].pc = "check" /\ Kept(h)
       /\ handler'[h].pc = "reply"
       /\ handler'[h].id = handler[h].id
    \/ /\ BeginAck(h) /\ handler[h].pc = "check" /\ handler'[h].pc = "stamp"
       /\ handler'[h].id = handler[h].id
       /\ handler'[h].results = handler[h].results
       /\ handler'[h].todo = Applied(handler[h].results)
       /\ handler'[h].rec = handler[h].rec
       /\ handler'[h].ok = handler[h].ok
    \/ \E c \in Cards :
       /\ ReadCard(h, c) /\ handler[h].pc = "stamp" /\ c \in handler[h].todo
       /\ handler'[h].pc = "write"
       /\ handler'[h].id = handler[h].id
       /\ handler'[h].results = handler[h].results
       /\ handler'[h].todo = handler[h].todo
       /\ handler'[h].key = c /\ handler'[h].rec = card[c]
       /\ handler'[h].ok = handler[h].ok
    \/ /\ WriteCard(h) /\ handler[h].pc = "write" /\ handler'[h].pc = "stamp"
       /\ handler'[h].id = handler[h].id
       /\ handler'[h].results = handler[h].results
       /\ handler'[h].todo \subseteq handler[h].todo
       /\ handler'[h].rec = NoCard
       /\ handler'[h].ok = handler[h].ok
    \/ /\ MarkAcked(h) /\ handler[h].pc = "stamp" /\ Kept(h)
       /\ handler'[h].id = handler[h].id
       /\ handler'[h].pc \in {"reply", "cursor"}
    \/ /\ SetCursor(h) /\ handler[h].pc = "cursor" /\ handler'[h].pc = "reply"
       /\ handler'[h].id = handler[h].id
       /\ handler'[h].results = handler[h].results
       /\ handler'[h].todo = handler[h].todo
       /\ handler'[h].rec = handler[h].rec
    \/ DropAnswer(h) /\ handler'[h] = IdleHandler

\* A step of a server thread is one of these, and disturbs no other thread.
LEMMA HandlerEffects ==
    ASSUME TypeOK, NEW h \in Handlers, HandlerStep(h)
    PROVE  /\ \A g \in Handlers \ {h} : handler'[g] = handler[g]
           /\ HandlerEffect(h)
<1> DEFINE Set(new) == /\ handler'[h] = new
                       /\ \A g \in Handlers \ {h} : handler'[g] = handler[g]
<1> USE DEF Kept
<1>1. handler \in [Handlers -> HandlerState] /\ handler[h] \in HandlerState
  BY DEF TypeOK
<1>13. /\ FindOpenBatch(h) => handler[h].pc = "open"
       /\ SelectCards(h) => handler[h].pc = "select"
       /\ PutBatch(h) => handler[h].pc = "put"
       /\ RefuseAck(h) \/ BeginAck(h) => handler[h].pc = "check"
       /\ MarkAcked(h) \/ (\E c \in Cards : ReadCard(h, c)) =>
              handler[h].pc = "stamp"
       /\ \A c : ReadCard(h, c) => c \in handler[h].todo
       /\ WriteCard(h) => handler[h].pc = "write"
       /\ SetCursor(h) => handler[h].pc = "cursor"
  BY DEF FindOpenBatch, SelectCards, PutBatch, RefuseAck, BeginAck, MarkAcked,
     ReadCard, WriteCard, SetCursor
<1>2. ASSUME NEW new, handler' = [handler EXCEPT ![h] = new] PROVE Set(new)
  BY <1>1, <1>2
<1>3. CASE FindOpenBatch(h)
  <2>1. CASE OpenBatches = {}
    <3>1. Set([handler[h] EXCEPT !.pc = "select"])
      BY <1>2, <1>3, <2>1 DEF FindOpenBatch
    <3>. QED  BY <1>1, <1>13, <1>3, <3>1 DEF HandlerEffect, HandlerState
  <2>2. CASE OpenBatches # {}
    <3> DEFINE i == CHOOSE j \in OpenBatches : \A n \in OpenBatches : n <= j
    <3>1. i \in OpenBatches
      BY <2>2, NewestOpen
    <3>2. Set([handler[h] EXCEPT !.pc = "reply", !.id = i,
                                 !.items = batch[i].items, !.to = batch[i].cursor])
      BY <1>2, <1>3, <2>2 DEF FindOpenBatch
    <3> HIDE DEF i
    <3>. QED  BY <1>1, <1>13, <1>3, <3>1, <3>2 DEF HandlerEffect, HandlerState
  <2>. QED  BY <2>1, <2>2
<1>4. CASE SelectCards(h)
  <2>1. CASE Selected(handler[h].from) = {}
    <3>1. Set([handler[h] EXCEPT !.pc = "reply"])
      BY <1>2, <1>4, <2>1 DEF SelectCards
    <3>. QED  BY <1>1, <1>13, <1>4, <3>1 DEF HandlerEffect, HandlerState
  <2>2. CASE Selected(handler[h].from) # {}
    <3>1. PICK its, to :
              handler' = [handler EXCEPT ![h] =
                  [handler[h] EXCEPT !.pc = "put", !.items = its, !.to = to]]
      BY <1>4, <2>2 DEF SelectCards
    <3>2. Set([handler[h] EXCEPT !.pc = "put", !.items = its, !.to = to])
      BY <1>2, <3>1
    <3>. QED  BY <1>1, <1>13, <1>4, <3>2 DEF HandlerEffect, HandlerState
  <2>. QED  BY <2>1, <2>2
<1>5. CASE PutBatch(h)
  <2>1. Set([handler[h] EXCEPT !.pc = "reply", !.id = Len(batch) + 1])
    BY <1>2, <1>5 DEF PutBatch
  <2>. QED  BY <1>1, <1>13, <1>5, <2>1 DEF HandlerEffect, HandlerState
<1>6. CASE RefuseAck(h)
  <2>1. Set([handler[h] EXCEPT !.pc = "reply"])
    BY <1>2, <1>6 DEF RefuseAck
  <2>. QED  BY <1>1, <1>13, <1>6, <2>1 DEF HandlerEffect, HandlerState
<1>7. CASE BeginAck(h)
  <2>1. Set([handler[h] EXCEPT !.pc = "stamp", !.now = clock',
                               !.todo = Applied(handler[h].results)])
    BY <1>2, <1>7 DEF BeginAck
  <2>. QED  BY <1>1, <1>13, <1>7, <2>1 DEF HandlerEffect, HandlerState
<1>8. ASSUME NEW c \in Cards, ReadCard(h, c)
      PROVE  HandlerEffect(h) /\ \A g \in Handlers \ {h} : handler'[g] = handler[g]
  <2>1. Set([handler[h] EXCEPT !.pc = "write", !.key = c, !.rec = card[c]])
    BY <1>2, <1>8 DEF ReadCard
  <2>. QED  BY <1>1, <1>13, <1>8, <2>1 DEF HandlerEffect, HandlerState
<1>9. CASE WriteCard(h)
  <2>1. Set([handler[h] EXCEPT !.pc = "stamp",
                               !.todo = handler[h].todo \ {handler[h].key},
                               !.key = Absent, !.rec = NoCard])
    BY <1>2, <1>9 DEF WriteCard
  <2>. QED  BY <1>1, <1>13, <1>9, <2>1 DEF HandlerEffect, HandlerState
<1>10. CASE MarkAcked(h)
  <2>1. Set([handler[h] EXCEPT !.pc = IF batch[handler[h].id].acked
                                      THEN "reply" ELSE "cursor"])
    BY <1>2, <1>10 DEF MarkAcked
  <2>. QED  BY <1>1, <1>13, <1>10, <2>1 DEF HandlerEffect, HandlerState
<1>11. CASE SetCursor(h)
  <2>1. Set([handler[h] EXCEPT !.pc = "reply", !.ok = TRUE])
    BY <1>2, <1>11 DEF SetCursor
  <2>. QED  BY <1>1, <1>13, <1>11, <2>1 DEF HandlerEffect, HandlerState
<1>12. CASE DropAnswer(h)
  <2>1. Set(IdleHandler)
    BY <1>2, <1>12 DEF DropAnswer
  <2>. QED  BY <1>12, <2>1 DEF HandlerEffect
<1>. QED
  BY <1>3, <1>4, <1>5, <1>6, <1>7, <1>8, <1>9, <1>10, <1>11, <1>12
  DEF HandlerStep

\* A record a server thread holds was read from the table.
LEMMA RecOrigin ==
    ASSUME TypeOK, [Next]_vars, NEW g \in Handlers
    PROVE  \/ handler'[g].rec = handler[g].rec
           \/ handler'[g].rec = NoCard
           \/ \E c \in Cards : handler'[g].rec = card[c]
<1> USE DEF server, desktop
<1>1. handler \in [Handlers -> HandlerState]
  BY DEF TypeOK
<1>2. IdleHandler.rec = NoCard
  BY DEF IdleHandler
<1>3. ASSUME NEW h \in Handlers, HandlerStep(h)
      PROVE  \/ handler'[g].rec = handler[g].rec
             \/ handler'[g].rec = NoCard
             \/ \E c \in Cards : handler'[g].rec = card[c]
  BY <1>1, <1>2, <1>3, HandlerEffects DEF HandlerEffect, Kept
<1>4. CASE AgentStep
  <2>1. ASSUME NEW h \in Handlers, FetchPending(h)
        PROVE  handler'[g].rec = handler[g].rec \/ handler'[g].rec = NoCard
    BY <1>1, <1>2, <2>1, IdleTypes DEF FetchPending, HandlerState
  <2>2. ASSUME NEW h \in Handlers, PostAck(h)
        PROVE  handler'[g].rec = handler[g].rec \/ handler'[g].rec = NoCard
    BY <1>1, <1>2, <2>2, IdleTypes DEF PostAck, HandlerState
  <2>3. ASSUME NEW h \in Handlers, ReceiveBatch(h) \/ ReceiveAck(h)
        PROVE  handler'[g].rec = handler[g].rec \/ handler'[g].rec = NoCard
    BY <1>1, <1>2, <2>3 DEF ReceiveBatch, ReceiveAck
  <2>. QED
    BY <1>4, <2>1, <2>2, <2>3
    DEF AgentStep, ApplyItem, StageInflight, SaveCursor
<1>5. CASE handler' = handler
  BY <1>5
<1>6. CASE CrashServer \/ \E h \in Handlers : LoseRequest(h)
  BY <1>1, <1>2, <1>6 DEF CrashServer, LoseRequest
<1>. QED
  BY <1>3, <1>4, <1>5, <1>6
  DEF Next, vars, MakeRecord, StoreCard, FailItem, EditNote, GiveUp, CrashAgent

\* A row is replaced by a record made earlier or by one read from the table.
LEMMA CardOrigin ==
    ASSUME TypeInv, [Next]_vars, NEW c \in Cards
    PROVE  \/ card'[c] = card[c]
           \/ \E k \in Ingesters : StoreCard(k) /\ card'[c] = ingester[k].rec
           \/ \E h \in Handlers :
                  /\ WriteCard(h) /\ c \in Listed(handler[h].results)
                  /\ c \in handler[h].todo /\ c = handler[h].key
                  /\ card'[c] = [handler[h].rec EXCEPT
                                     !.synced = handler[h].now,
                                     !.base = handler[h].results[c].fields]
<1> USE DEF server, desktop
<1>1. card \in [Cards -> CardRecord]
  BY DEF TypeInv, TypeOK
<1>2. ASSUME NEW k \in Ingesters, StoreCard(k)
      PROVE  card'[c] = card[c] \/ card'[c] = ingester[k].rec
  BY <1>1, <1>2 DEF StoreCard, UpsertCard
<1>3. ASSUME NEW h \in Handlers, WriteCard(h)
      PROVE  \/ card'[c] = card[c]
             \/ /\ c \in Listed(handler[h].results)
                /\ c \in handler[h].todo /\ c = handler[h].key
                /\ card'[c] = [handler[h].rec EXCEPT
                                   !.synced = handler[h].now,
                                   !.base = handler[h].results[c].fields]
  BY <1>1, <1>3 DEF WriteCard, UpsertCard, TypeInv, ShapeInv
<1>4. \/ card' = card
      \/ \E k \in Ingesters : StoreCard(k)
      \/ \E h \in Handlers : WriteCard(h)
  BY DEF Next, HandlerStep, AgentStep, vars, MakeRecord, FindOpenBatch,
     SelectCards, PutBatch, RefuseAck, BeginAck, ReadCard, MarkAcked,
     SetCursor, DropAnswer, FetchPending, ReceiveBatch, ApplyItem, FailItem,
     StageInflight, PostAck, ReceiveAck, SaveCursor, EditNote, LoseRequest,
     GiveUp, CrashAgent, CrashServer
<1>. QED  BY <1>2, <1>3, <1>4

\* No step leaves a stamp that is ahead of the clock.
LEMMA StampStep == ASSUME TypeInv, [Next]_vars PROVE StampInv'
<1> USE DEF server, desktop
<1>1. TypeOK /\ StampInv
  BY DEF TypeInv
<1>2. clock \in Nat /\ clock' \in Nat /\ clock <= clock'
  BY <1>1, ClockForward
<1>3. NoCard.updated = 0
  BY DEF NoCard
<1>4. /\ \A c \in Cards : card[c].updated \in Nat
      /\ \A h \in Handlers : handler[h].rec \in CardRecord
      /\ \A k \in Ingesters : ingester[k].rec.updated \in Nat
  BY <1>1 DEF TypeOK, CardRecord, HandlerState
<1>5. ASSUME NEW h \in Handlers PROVE handler'[h].rec.updated <= clock'
  BY <1>1, <1>2, <1>3, <1>4, RecOrigin DEF StampInv, CardRecord
<1>6. ASSUME NEW c \in Cards PROVE card'[c].updated <= clock'
  <2>1. CASE card'[c] = card[c]
    BY <1>1, <1>2, <1>4, <2>1 DEF StampInv
  <2>2. CASE \E k \in Ingesters : card'[c] = ingester[k].rec
    BY <1>1, <1>2, <1>4, <2>2 DEF StampInv
  <2>3. ASSUME NEW h \in Handlers,
               card'[c] = [handler[h].rec EXCEPT
                               !.synced = handler[h].now,
                               !.base = handler[h].results[c].fields]
        PROVE  card'[c].updated <= clock'
    <3>1. card'[c].updated = handler[h].rec.updated
      BY <1>4, <2>3 DEF CardRecord
    <3>2. handler[h].rec.updated \in Nat /\ handler[h].rec.updated <= clock
      BY <1>1, <1>4 DEF StampInv, CardRecord
    <3>. QED  BY <1>2, <3>1, <3>2
  <2>. QED  BY <2>1, <2>2, <2>3, CardOrigin
<1>7. ASSUME NEW k \in Ingesters PROVE ingester'[k].rec.updated <= clock'
  <2>1. CASE ingester'[k] = ingester[k]
    BY <1>1, <1>2, <1>4, <2>1 DEF StampInv
  <2>2. ASSUME NEW j \in Ingesters, StoreCard(j)
        PROVE  ingester'[k] = ingester[k] \/ ingester'[k] = IdleIngester
    BY <1>1, <2>2 DEF StoreCard, TypeOK
  <2>3. ASSUME NEW j \in Ingesters, NEW c \in Cards, NEW v \in 1..MaxVersion,
               MakeRecord(j, c, v)
        PROVE  ingester'[k] = ingester[k] \/ ingester'[k].rec.updated = clock'
    BY <1>1, <2>3 DEF MakeRecord, TypeOK, NoCard
  <2>4. IdleIngester.rec.updated = 0
    BY <1>3 DEF IdleIngester
  <2>5. \/ ingester' = ingester
        \/ \E j \in Ingesters : StoreCard(j)
        \/ \E j \in Ingesters, c \in Cards, v \in 1..MaxVersion : MakeRecord(j, c, v)
    BY DEF Next, HandlerStep, AgentStep, vars, FindOpenBatch,
       SelectCards, PutBatch, RefuseAck, BeginAck, ReadCard, WriteCard, MarkAcked,
       SetCursor, DropAnswer, FetchPending, ReceiveBatch, ApplyItem, FailItem,
       StageInflight, PostAck, ReceiveAck, SaveCursor, EditNote, LoseRequest,
       GiveUp, CrashAgent, CrashServer
  <2>. QED  BY <1>2, <2>1, <2>2, <2>3, <2>4, <2>5
<1>. QED  BY <1>5, <1>6, <1>7 DEF StampInv

\* Batches are only added, and an acknowledged one stays acknowledged.
LEMMA BatchGrows ==
    ASSUME TypeOK, [Next]_vars
    PROVE  /\ DOMAIN batch \subseteq DOMAIN batch'
           /\ \A i \in DOMAIN batch : batch[i].acked => batch'[i].acked
           /\ \/ batch' = batch
              \/ \E h \in Handlers : PutBatch(h) /\ HandlerStep(h)
              \/ \E h \in Handlers : MarkAcked(h) /\ HandlerStep(h)
<1> USE DEF server, desktop
<1>1. batch \in Seq([items : Items, acked : BOOLEAN, cursor : Nat])
  BY DEF TypeOK
<1>2. /\ Len(batch) \in Nat /\ DOMAIN batch = 1..Len(batch)
      /\ \A i \in DOMAIN batch :
             batch[i] \in [items : Items, acked : BOOLEAN, cursor : Nat]
  BY BatchTypes
<1>3. \/ batch' = batch
      \/ \E h \in Handlers : PutBatch(h) /\ HandlerStep(h)
      \/ \E h \in Handlers : MarkAcked(h) /\ HandlerStep(h)
  BY DEF Next, HandlerStep, AgentStep, vars, MakeRecord, StoreCard, FindOpenBatch,
     SelectCards, RefuseAck, BeginAck, ReadCard, WriteCard,
     SetCursor, DropAnswer, FetchPending, ReceiveBatch, ApplyItem, FailItem,
     StageInflight, PostAck, ReceiveAck, SaveCursor, EditNote, LoseRequest,
     GiveUp, CrashAgent, CrashServer
<1>4. ASSUME NEW h \in Handlers, PutBatch(h)
      PROVE  /\ DOMAIN batch \subseteq DOMAIN batch'
             /\ \A i \in DOMAIN batch : batch'[i] = batch[i]
  <2>1. PICK b : batch' = Append(batch, b)
    BY <1>4 DEF PutBatch
  <2>2. DOMAIN batch' = 1..(Len(batch) + 1)
    BY <1>1, <2>1
  <2>3. \A i \in DOMAIN batch : batch'[i] = batch[i]
    BY <1>1, <1>2, <2>1
  <2>. QED  BY <1>2, <2>2, <2>3
<1>5. ASSUME NEW h \in Handlers, MarkAcked(h)
      PROVE  /\ DOMAIN batch \subseteq DOMAIN batch'
             /\ \A i \in DOMAIN batch : batch[i].acked => batch'[i].acked
  BY <1>2, <1>5 DEF MarkAcked
<1>. QED  BY <1>3, <1>4, <1>5

\* A finished item leaves the batch the agent works on as it is.
LEMMA FinishEffect ==
    ASSUME TypeOK, NEW c \in Cards, NEW status, NEW fields,
           Finish(c, status, fields)
    PROVE  /\ agent'.id = agent.id /\ agent'.via = agent.via
           /\ agent'.pc \in {"apply", "stage"}
           /\ agent'.results = [agent.results EXCEPT
                  ![c] = [status |-> status, fields |-> fields]]
<1>1. agent \in AgentState
  BY DEF TypeOK
<1>. QED  BY <1>1 DEF Finish, AgentState

\* ShapeInv is kept by the steps of the server's threads.
LEMMA ServerShape ==
    ASSUME TypeInv, [Next]_vars, NEW h \in Handlers, HandlerStep(h)
    PROVE  ShapeInv'
<1> USE DEF server, desktop
<1>1. TypeOK /\ ShapeInv
  BY DEF TypeInv
<1>2. /\ \A g \in Handlers \ {h} : handler'[g] = handler[g]
      /\ HandlerEffect(h)
  BY <1>1, HandlerEffects
<1>3. agent' = agent /\ inflight' = inflight /\ ingester' = ingester
  BY DEF HandlerStep, FindOpenBatch, SelectCards, PutBatch, RefuseAck, BeginAck,
     ReadCard, WriteCard, MarkAcked, SetCursor, DropAnswer
<1>4. DOMAIN batch \subseteq DOMAIN batch'
  BY <1>1, BatchGrows
<1>5. OpenBatches \subseteq DOMAIN batch
  BY DEF OpenBatches
<1>6. PutBatch(h) => Len(batch) + 1 \in DOMAIN batch'
  <2>1. batch \in Seq([items : Items, acked : BOOLEAN, cursor : Nat])
    BY <1>1 DEF TypeOK
  <2>2. SUFFICES ASSUME PutBatch(h) PROVE Len(batch) + 1 \in DOMAIN batch'
    OBVIOUS
  <2>3. PICK b : batch' = Append(batch, b)
    BY <2>2 DEF PutBatch
  <2>4. DOMAIN batch' = 1..(Len(batch) + 1) /\ Len(batch) \in Nat
    BY <2>1, <2>3
  <2>. QED  BY <2>4
<1>7. /\ handler'[h].pc = "write" => handler'[h].key \in handler'[h].todo
      /\ handler'[h].todo \subseteq Listed(handler'[h].results)
      /\ handler'[h].pc \in {"open", "select"} => handler'[h].items = Nothing
  <2>1. Applied(handler[h].results) \subseteq Listed(handler[h].results)
    BY DEF Applied
  <2>2. handler[h].todo \subseteq Listed(handler[h].results)
    BY <1>1 DEF ShapeInv
  <2>3. handler[h].pc = "open" => handler[h].items = Nothing
    BY <1>1 DEF ShapeInv
  <2>4. IdleHandler.todo = {} /\ IdleHandler.pc = "idle"
    BY DEF IdleHandler
  <2> HIDE DEF server, desktop
  <2>. QED  BY <1>2, <2>1, <2>2, <2>3, <2>4 DEF HandlerEffect, Kept
<1>8. \/ handler'[h].pc \in {"check", "stamp", "write", "cursor"}
      \/ handler'[h].pc = "reply" /\ handler'[h].items # Nothing
      => handler'[h].id \in DOMAIN batch'
  <2>1. handler[h].pc \in {"check", "stamp", "write", "cursor"} =>
            handler[h].id \in DOMAIN batch'
    BY <1>1, <1>4 DEF ShapeInv
  <2>2. handler[h].pc = "select" => handler[h].items = Nothing
    BY <1>1 DEF ShapeInv
  <2>3. IdleHandler.pc = "idle"
    BY DEF IdleHandler
  <2>. QED  BY <1>2, <1>4, <1>5, <1>6, <2>1, <2>2, <2>3 DEF HandlerEffect
<1>. QED  BY <1>1, <1>2, <1>3, <1>4, <1>7, <1>8 DEF ShapeInv

\* ShapeInv is kept by the steps of the agent.
LEMMA AgentShape == ASSUME TypeInv, AgentStep PROVE ShapeInv'
<1> USE DEF server, desktop
<1>1. TypeOK /\ ShapeInv
  BY DEF TypeInv
<1>2. handler \in [Handlers -> HandlerState] /\ agent \in AgentState
  BY <1>1 DEF TypeOK
<1>3. batch' = batch /\ ingester' = ingester
  BY DEF AgentStep, FetchPending, ReceiveBatch, PostAck, ReceiveAck, ApplyItem,
     StageInflight, SaveCursor
<1>4. ASSUME NEW h \in Handlers, FetchPending(h) PROVE ShapeInv'
  <2>1. /\ \A g \in Handlers \ {h} : handler'[g] = handler[g]
        /\ handler'[h].pc = "open" /\ handler'[h].items = Nothing
        /\ handler'[h].todo = {}
    BY <1>2, <1>4 DEF FetchPending, IdleHandler
  <2>2. agent'.pc = "fetch" /\ inflight' = inflight
    BY <1>4 DEF FetchPending, IdleAgent
  <2>. QED  BY <1>1, <1>3, <2>1, <2>2 DEF ShapeInv
<1>5. ASSUME NEW h \in Handlers, ReceiveBatch(h) PROVE ShapeInv'
  <2>1. /\ \A g \in Handlers \ {h} : handler'[g] = handler[g]
        /\ handler'[h] = IdleHandler
    BY <1>2, <1>5 DEF ReceiveBatch
  <2>2. /\ inflight' = inflight
        /\ \/ agent'.pc = "idle"
           \/ /\ agent'.id = handler[h].id
              /\ handler[h].pc = "reply" /\ handler[h].items # Nothing
    BY <1>5 DEF ReceiveBatch, IdleAgent
  <2>. QED  BY <1>1, <1>3, <2>1, <2>2 DEF ShapeInv, IdleHandler
<1>6. ASSUME NEW h \in Handlers, PostAck(h) PROVE ShapeInv'
  <2>1. /\ \A g \in Handlers \ {h} : handler'[g] = handler[g]
        /\ handler'[h].pc = "check" /\ handler'[h].id = inflight.id
        /\ handler'[h].todo = {}
    BY <1>2, <1>6 DEF PostAck, IdleHandler
  <2>2. agent'.pc = "ack" /\ inflight' = inflight /\ inflight # Absent
    BY <1>6 DEF PostAck, IdleAgent
  <2>. QED  BY <1>1, <1>3, <2>1, <2>2 DEF ShapeInv
<1>7. ASSUME NEW h \in Handlers, ReceiveAck(h) PROVE ShapeInv'
  <2>1. /\ \A g \in Handlers \ {h} : handler'[g] = handler[g]
        /\ handler'[h] = IdleHandler
    BY <1>2, <1>7 DEF ReceiveAck
  <2>2. agent'.pc \in {"save", "idle"} /\ inflight' \in {inflight, Absent}
    <3>1. CASE handler[h].ok
      BY <1>7, <3>1 DEF ReceiveAck, IdleAgent
    <3>2. CASE ~handler[h].ok
      BY <1>7, <3>2 DEF ReceiveAck, IdleAgent
    <3>. QED  BY <3>1, <3>2
  <2>. QED  BY <1>1, <1>3, <2>1, <2>2 DEF ShapeInv, IdleHandler
<1>8. ASSUME NEW c \in Cards, ApplyItem(c) PROVE ShapeInv'
  <2>1. agent.pc = "apply" /\ agent'.id = agent.id
    BY <1>1, <1>8, FinishEffect DEF ApplyItem, AddNote, MergeNote
  <2>. QED  BY <1>1, <1>3, <1>8, <2>1 DEF ShapeInv, ApplyItem
<1>9. CASE StageInflight
  <2>1. /\ agent.pc = "stage" /\ agent'.id = agent.id
        /\ inflight'.id = agent.id /\ handler' = handler
    BY <1>2, <1>9 DEF StageInflight, AgentState
  <2>. QED  BY <1>1, <1>3, <2>1 DEF ShapeInv
<1>10. CASE SaveCursor
  BY <1>1, <1>3, <1>10 DEF ShapeInv, SaveCursor, IdleAgent
<1>. QED
  BY <1>4, <1>5, <1>6, <1>7, <1>8, <1>9, <1>10 DEF AgentStep

\* ShapeInv is kept by the pipeline, the user and the faults.
LEMMA OtherShape ==
    ASSUME TypeInv, [Next]_vars,
           ~AgentStep, \A h \in Handlers : ~HandlerStep(h)
    PROVE  ShapeInv'
<1> USE DEF server, desktop
<1>1. TypeOK /\ ShapeInv
  BY DEF TypeInv
<1>2. handler \in [Handlers -> HandlerState]
  BY <1>1 DEF TypeOK
<1>3. ASSUME NEW k \in Ingesters, NEW c \in Cards, NEW v \in 1..MaxVersion,
             MakeRecord(k, c, v)
      PROVE  ShapeInv'
  BY <1>1, <1>3 DEF MakeRecord, ShapeInv, TypeOK
<1>4. ASSUME NEW k \in Ingesters, StoreCard(k) PROVE ShapeInv'
  BY <1>1, <1>4 DEF StoreCard, ShapeInv, TypeOK, IdleIngester
<1>5. ASSUME NEW h \in Handlers, LoseRequest(h) PROVE ShapeInv'
  BY <1>1, <1>2, <1>5 DEF LoseRequest, ShapeInv, IdleHandler, IdleAgent
<1>6. ASSUME NEW c \in Cards, FailItem(c) PROVE ShapeInv'
  <2>1. agent.pc = "apply" /\ agent'.id = agent.id
    BY <1>1, <1>6, FinishEffect DEF FailItem
  <2>. QED  BY <1>1, <1>6, <2>1 DEF ShapeInv, FailItem
<1>7. CASE \E c \in Cards, k \in FieldNames : EditNote(c, k)
  BY <1>1, <1>7 DEF EditNote, ShapeInv
<1>8. CASE GiveUp \/ CrashAgent
  BY <1>1, <1>8 DEF GiveUp, CrashAgent, ShapeInv, IdleAgent
<1>9. CASE CrashServer
  <2>1. agent' = agent \/ agent'.pc = "idle"
    BY <1>9 DEF CrashServer, IdleAgent
  <2>2. \A h \in Handlers : handler'[h] = IdleHandler
    BY <1>9 DEF CrashServer
  <2>. QED  BY <1>1, <1>9, <2>1, <2>2 DEF CrashServer, ShapeInv, IdleHandler
<1>10. CASE UNCHANGED vars
  BY <1>1, <1>10 DEF vars, ShapeInv
<1>. QED
  BY <1>3, <1>4, <1>5, <1>6, <1>7, <1>8, <1>9, <1>10 DEF Next

\* TypeInv is inductive.
LEMMA TypeInvStep == TypeInv /\ [Next]_vars => TypeInv'
<1> SUFFICES ASSUME TypeInv, [Next]_vars PROVE TypeInv'
  OBVIOUS
<1>1. ShapeInv'
  BY ServerShape, AgentShape, OtherShape
<1>. QED  BY <1>1, TypeStep, StampStep DEF TypeInv

\* TypeInv holds when nothing has happened yet.
LEMMA TypeInvInit == Init => TypeInv
<1> SUFFICES ASSUME Init PROVE TypeInv
  OBVIOUS
<1>1. TypeOK
  <2>1. batch \in Seq([items : Items, acked : BOOLEAN, cursor : Nat])
    BY DEF Init
  <2>2. IdleIngester \in [pc : {"idle", "store"}, rec : CardRecord,
                          key : Cards \cup {Absent}]
    BY IdleTypes DEF IdleIngester
  <2>. QED  BY <2>1, <2>2, IdleTypes DEF Init, TypeOK
<1>2. StampInv
  BY DEF Init, StampInv, NoCard, IdleHandler, IdleIngester
<1>3. ShapeInv
  BY DEF Init, ShapeInv, IdleHandler, IdleAgent, IdleIngester
<1>. QED  BY <1>1, <1>2, <1>3 DEF TypeInv

\* Every reachable state is well typed.
THEOREM TypeCorrect == Spec => []TypeOK
<1>1. TypeInv => TypeOK
  BY DEF TypeInv
<1>. QED  BY <1>1, TypeInvInit, TypeInvStep, PTL DEF Spec

----------------------------------------------------------------------------
(* SyncedHasNote *)

\* Every item reported as applied has a note.
Noted(results) == \A c \in Applied(results) : note[c] # Absent

\* Wherever a card is taken for delivered, or is about to be, its note exists:
\* in the row, in the results under way and in the results staged.
NoteInv ==
    /\ \A c \in Cards : card[c].synced # 0 => note[c] # Absent
    /\ \A h \in Handlers : /\ Noted(handler[h].results)
                           /\ handler[h].todo \subseteq Applied(handler[h].results)
    /\ Noted(agent.results)
    /\ inflight # Absent => Noted(inflight.results)
    /\ \A k \in Ingesters : ingester[k].rec.synced = 0

\* Nothing is reported in an empty list of results.
LEMMA NothingApplied == Applied(Nothing) = {}
  BY DEF Applied, Listed, Nothing

\* A note is never removed.
LEMMA NoteStays ==
    ASSUME TypeInv, [Next]_vars, NEW c \in Cards, note[c] # Absent
    PROVE  note'[c] # Absent
<1> USE DEF server, desktop
<1>1. TypeOK /\ note \in [Cards -> Fields \cup {Absent}] /\ agent \in AgentState
  BY DEF TypeInv, TypeOK
<1>2. Absent \notin Fields
  BY NamesAssumption DEF Fields
<1>3. ASSUME NEW d \in Cards, ApplyItem(d) \/ FailItem(d) PROVE note'[c] # Absent
  <2>1. Written(d) \in Fields
    BY <1>1, <1>3, WrittenTypes DEF ApplyItem, FailItem
  <2>2. note' = note \/ note' = [note EXCEPT ![d] = Written(d)]
    BY <1>3 DEF ApplyItem, AddNote, MergeNote, FailItem
  <2>. QED  BY <1>1, <1>2, <2>1, <2>2
<1>4. ASSUME NEW d \in Cards, NEW k \in FieldNames, EditNote(d, k)
      PROVE  note'[c] # Absent
  <2>1. note[d] \in Fields
    BY <1>1, <1>4 DEF EditNote
  <2>2. [note[d] EXCEPT ![k] = Mine] \in Fields
    BY <2>1 DEF Fields
  <2>3. note' = [note EXCEPT ![d] = [note[d] EXCEPT ![k] = Mine]]
    BY <1>4 DEF EditNote
  <2>. QED  BY <1>1, <1>2, <2>2, <2>3
<1>5. \/ note' = note
      \/ \E d \in Cards : ApplyItem(d) \/ FailItem(d)
      \/ \E d \in Cards, k \in FieldNames : EditNote(d, k)
  BY DEF Next, HandlerStep, AgentStep, vars, MakeRecord, StoreCard, FindOpenBatch,
     SelectCards, PutBatch, RefuseAck, BeginAck, ReadCard, WriteCard, MarkAcked,
     SetCursor, DropAnswer, FetchPending, ReceiveBatch,
     StageInflight, PostAck, ReceiveAck, SaveCursor, LoseRequest,
     GiveUp, CrashAgent, CrashServer
<1>. QED  BY <1>3, <1>4, <1>5

\* Where the results a server thread works on come from.
LEMMA ResultOrigin ==
    ASSUME TypeInv, [Next]_vars, NEW g \in Handlers
    PROVE  \/ /\ handler'[g].results = handler[g].results
              /\ \/ handler'[g].todo \subseteq handler[g].todo
                 \/ handler'[g].todo = Applied(handler[g].results)
           \/ handler'[g].results = Nothing /\ handler'[g].todo = {}
           \/ /\ inflight # Absent /\ handler'[g].todo = {}
              /\ handler'[g].results = inflight.results
<1> USE DEF server, desktop
<1>1. TypeOK /\ handler \in [Handlers -> HandlerState]
  BY DEF TypeInv, TypeOK
<1>2. IdleHandler.results = Nothing /\ IdleHandler.todo = {}
  BY DEF IdleHandler
<1>3. ASSUME NEW h \in Handlers, HandlerStep(h)
      PROVE  \/ /\ handler'[g].results = handler[g].results
                /\ \/ handler'[g].todo \subseteq handler[g].todo
                   \/ handler'[g].todo = Applied(handler[g].results)
             \/ handler'[g].results = Nothing /\ handler'[g].todo = {}
  <2> HIDE DEF server, desktop
  <2>. QED  BY <1>1, <1>2, <1>3, HandlerEffects DEF HandlerEffect, Kept
<1>4. ASSUME NEW h \in Handlers, FetchPending(h)
      PROVE  \/ handler'[g] = handler[g]
             \/ handler'[g].results = Nothing /\ handler'[g].todo = {}
  BY <1>1, <1>4 DEF FetchPending, IdleHandler
<1>5. ASSUME NEW h \in Handlers, PostAck(h)
      PROVE  \/ handler'[g] = handler[g]
             \/ /\ inflight # Absent /\ handler'[g].todo = {}
                /\ handler'[g].results = inflight.results
  BY <1>1, <1>5 DEF PostAck, IdleHandler
<1>6. ASSUME NEW h \in Handlers, ReceiveBatch(h) \/ ReceiveAck(h) \/ LoseRequest(h)
      PROVE  handler'[g] = handler[g] \/ handler'[g] = IdleHandler
  BY <1>1, <1>6 DEF ReceiveBatch, ReceiveAck, LoseRequest
<1>7. CASE CrashServer
  BY <1>2, <1>7 DEF CrashServer
<1>8. CASE handler' = handler
  BY <1>8
<1>9. \/ handler' = handler \/ CrashServer
      \/ \E h \in Handlers : \/ HandlerStep(h) \/ FetchPending(h) \/ PostAck(h)
                             \/ ReceiveBatch(h) \/ ReceiveAck(h) \/ LoseRequest(h)
  BY DEF Next, AgentStep, vars, MakeRecord, StoreCard, ApplyItem, FailItem,
     StageInflight, SaveCursor, EditNote, GiveUp, CrashAgent
<1>. QED  BY <1>2, <1>3, <1>4, <1>5, <1>6, <1>7, <1>8, <1>9

\* A finished item adds its card to the applied ones only with that status.
LEMMA FinishApplied ==
    ASSUME TypeOK, NEW c \in Cards, NEW status, NEW fields,
           Finish(c, status, fields)
    PROVE  Applied(agent'.results) \subseteq
               Applied(agent.results) \cup (IF status = "applied" THEN {c} ELSE {})
<1>1. agent.results \in [Cards -> Result \cup {Absent}]
  BY DEF TypeOK, AgentState, Results
<1>2. agent'.results = [agent.results EXCEPT
          ![c] = [status |-> status, fields |-> fields]]
  BY FinishEffect
<1>3. \A d \in Cards \ {c} : agent'.results[d] = agent.results[d]
  BY <1>1, <1>2
<1>4. agent'.results[c].status = status
  BY <1>1, <1>2
<1>. QED  BY <1>3, <1>4 DEF Applied, Listed

\* The agent reports an item as applied when its note exists.
LEMMA AgentNoted ==
    ASSUME TypeInv, [Next]_vars, Noted(agent.results)
    PROVE  \A d \in Applied(agent'.results) : note'[d] # Absent
<1> USE DEF server, desktop
<1>1. TypeOK /\ note \in [Cards -> Fields \cup {Absent}] /\ agent \in AgentState
  BY DEF TypeInv, TypeOK
<1>2. Absent \notin Fields
  BY NamesAssumption DEF Fields
<1>3. \A c \in Applied(agent.results) : note'[c] # Absent
  BY NoteStays DEF Noted, Applied, Listed
<1>4. ASSUME NEW c \in Cards, ApplyItem(c)
      PROVE  \A d \in Applied(agent'.results) : note'[d] # Absent
  <2>1. Applied(agent'.results) \subseteq Applied(agent.results) \cup {c}
    BY <1>1, <1>4, FinishApplied DEF ApplyItem, AddNote, MergeNote
  <2>2. note'[c] # Absent
    <3>1. Written(c) \in Fields
      BY <1>1, <1>4, WrittenTypes DEF ApplyItem
    <3>2. note' = [note EXCEPT ![c] = Written(c)]
      BY <1>4 DEF ApplyItem, AddNote, MergeNote
    <3>. QED  BY <1>1, <1>2, <3>1, <3>2
  <2>. QED  BY <1>3, <2>1, <2>2
<1>5. ASSUME NEW c \in Cards, FailItem(c)
      PROVE  \A d \in Applied(agent'.results) : note'[d] # Absent
  BY <1>1, <1>3, <1>5, FinishApplied DEF FailItem
<1>6. CASE agent'.results = agent.results
  BY <1>3, <1>6
<1>7. CASE agent'.results = Nothing
  BY <1>7, NothingApplied
<1>8. \/ \E c \in Cards : ApplyItem(c) \/ FailItem(c)
      \/ agent' = agent \/ StageInflight
      \/ agent'.results = Nothing
  <2>1. IdleAgent.results = Nothing
    BY DEF IdleAgent
  <2>2. ASSUME NEW h \in Handlers, FetchPending(h) \/ PostAck(h)
        PROVE  agent'.results = Nothing
    BY <2>2 DEF FetchPending, PostAck, IdleAgent
  <2>3. ASSUME NEW h \in Handlers, ReceiveBatch(h)
        PROVE  agent'.results = Nothing
    BY <2>1, <2>3 DEF ReceiveBatch, IdleAgent
  <2>4. ASSUME NEW h \in Handlers, ReceiveAck(h)
        PROVE  agent'.results = Nothing
    <3>1. CASE handler[h].ok
      BY <2>4, <3>1 DEF ReceiveAck, IdleAgent
    <3>2. CASE ~handler[h].ok
      BY <2>1, <2>4, <3>2 DEF ReceiveAck
    <3>. QED  BY <3>1, <3>2
  <2>5. SaveCursor \/ GiveUp \/ CrashAgent \/ (\E h \in Handlers : LoseRequest(h))
            => agent'.results = Nothing
    BY <2>1 DEF SaveCursor, GiveUp, CrashAgent, LoseRequest
  <2>6. CrashServer => agent' = agent \/ agent'.results = Nothing
    BY <2>1 DEF CrashServer
  <2>. QED
    BY <2>2, <2>3, <2>4, <2>5, <2>6
    DEF Next, HandlerStep, AgentStep, vars, MakeRecord, StoreCard, FindOpenBatch,
        SelectCards, PutBatch, RefuseAck, BeginAck, ReadCard, WriteCard, MarkAcked,
        SetCursor, DropAnswer, EditNote
<1>9. StageInflight => agent'.results = agent.results
  BY <1>1 DEF StageInflight, AgentState
<1>. QED  BY <1>4, <1>5, <1>6, <1>7, <1>8, <1>9

\* A row is taken for delivered only when its note exists.
LEMMA CardNoted ==
    ASSUME TypeInv, NoteInv, [Next]_vars, NEW c \in Cards, card'[c].synced # 0
    PROVE  note'[c] # Absent
<1>1. card \in [Cards -> CardRecord] /\ handler \in [Handlers -> HandlerState]
  BY DEF TypeInv, TypeOK
<1>2. CASE card'[c] = card[c]
  BY <1>2, NoteStays DEF NoteInv
<1>3. CASE \E k \in Ingesters : card'[c] = ingester[k].rec
  BY <1>3 DEF NoteInv
<1>4. CASE \E h \in Handlers : c \in handler[h].todo
  <2>1. note[c] # Absent
    BY <1>4 DEF NoteInv, Noted
  <2>. QED  BY <2>1, NoteStays
<1>. QED  BY <1>2, <1>3, <1>4, CardOrigin

\* What a server thread reports was reported to it by the agent.
LEMMA HandlerNoted ==
    ASSUME TypeInv, NoteInv, [Next]_vars, NEW h \in Handlers
    PROVE  /\ \A c \in Applied(handler'[h].results) : note'[c] # Absent
           /\ handler'[h].todo \subseteq Applied(handler'[h].results)
<1>1. Applied(handler[h].results) \subseteq Cards
  BY DEF Applied, Listed
<1>2. CASE /\ handler'[h].results = handler[h].results
           /\ \/ handler'[h].todo \subseteq handler[h].todo
              \/ handler'[h].todo = Applied(handler[h].results)
  <2>1. \A c \in Applied(handler[h].results) : note'[c] # Absent
    BY <1>1, NoteStays DEF NoteInv, Noted
  <2>2. handler[h].todo \subseteq Applied(handler[h].results)
    BY DEF NoteInv
  <2>. QED  BY <1>2, <2>1, <2>2
<1>3. CASE handler'[h].results = Nothing /\ handler'[h].todo = {}
  BY <1>3, NothingApplied
<1>4. CASE /\ inflight # Absent /\ handler'[h].todo = {}
           /\ handler'[h].results = inflight.results
  <2>1. \A c \in Applied(inflight.results) : note[c] # Absent /\ c \in Cards
    BY <1>4 DEF NoteInv, Noted, Applied, Listed
  <2>. QED  BY <1>4, <2>1, NoteStays
<1>. QED  BY <1>2, <1>3, <1>4, ResultOrigin

\* The results staged are those of the agent.
LEMMA InflightNoted ==
    ASSUME TypeInv, NoteInv, [Next]_vars, inflight' # Absent
    PROVE  \A c \in Applied(inflight'.results) : note'[c] # Absent
<1> USE DEF server, desktop
<1>1. CASE inflight' = inflight
  <2>1. \A c \in Applied(inflight.results) : note[c] # Absent /\ c \in Cards
    BY <1>1 DEF NoteInv, Noted, Applied, Listed
  <2>. QED  BY <1>1, <2>1, NoteStays
<1>2. CASE StageInflight
  <2>1. inflight'.results = agent.results /\ note' = note
    BY <1>2 DEF StageInflight
  <2>. QED  BY <2>1 DEF NoteInv, Noted
<1>3. inflight' = inflight \/ StageInflight
  <2>1. ASSUME NEW h \in Handlers, ReceiveAck(h) PROVE inflight' = inflight
    BY <2>1 DEF ReceiveAck
  <2>2. ASSUME NEW h \in Handlers, HandlerStep(h) PROVE inflight' = inflight
    BY <2>2 DEF HandlerStep, FindOpenBatch, SelectCards, PutBatch, RefuseAck,
       BeginAck, ReadCard, WriteCard, MarkAcked, SetCursor, DropAnswer
  <2>. QED
    BY <2>1, <2>2
    DEF Next, AgentStep, vars, MakeRecord, StoreCard, FetchPending, ReceiveBatch,
        PostAck, ApplyItem, FailItem, SaveCursor, EditNote, LoseRequest, GiveUp,
        CrashAgent, CrashServer
<1>. QED  BY <1>1, <1>2, <1>3

\* A record made by the pipeline carries no delivery state.
LEMMA RecordUnsynced ==
    ASSUME TypeInv, NoteInv, [Next]_vars, NEW k \in Ingesters
    PROVE  ingester'[k].rec.synced = 0
<1> USE DEF server, desktop
<1>1. ingester \in [Ingesters -> [pc : {"idle", "store"}, rec : CardRecord,
                                   key : Cards \cup {Absent}]]
  BY DEF TypeInv, TypeOK
<1>2. ingester[k].rec.synced = 0
  BY DEF NoteInv
<1>3. ASSUME NEW j \in Ingesters, NEW c \in Cards, NEW v \in 1..MaxVersion,
             MakeRecord(j, c, v)
      PROVE  ingester'[k].rec.synced = 0
  BY <1>1, <1>2, <1>3 DEF MakeRecord, NoCard
<1>4. ASSUME NEW j \in Ingesters, StoreCard(j) PROVE ingester'[k].rec.synced = 0
  BY <1>1, <1>2, <1>4 DEF StoreCard, IdleIngester, NoCard
<1>5. CASE ingester' = ingester
  BY <1>2, <1>5
<1>6. \/ ingester' = ingester
      \/ \E j \in Ingesters : \/ StoreCard(j)
                              \/ \E c \in Cards, v \in 1..MaxVersion : MakeRecord(j, c, v)
  <2>1. ASSUME NEW h \in Handlers, HandlerStep(h) PROVE ingester' = ingester
    BY <2>1 DEF HandlerStep, FindOpenBatch, SelectCards, PutBatch, RefuseAck,
       BeginAck, ReadCard, WriteCard, MarkAcked, SetCursor, DropAnswer
  <2>. QED
    BY <2>1
    DEF Next, AgentStep, vars, FetchPending, ReceiveBatch, ReceiveAck, StageInflight,
        PostAck, ApplyItem, FailItem, SaveCursor, EditNote, LoseRequest, GiveUp,
        CrashAgent, CrashServer
<1>. QED  BY <1>3, <1>4, <1>5, <1>6

\* NoteInv is inductive, given the types.
LEMMA NoteInvStep == TypeInv /\ NoteInv /\ [Next]_vars => NoteInv'
<1> SUFFICES ASSUME TypeInv, NoteInv, [Next]_vars PROVE NoteInv'
  OBVIOUS
<1>1. \A c \in Cards : card'[c].synced # 0 => note'[c] # Absent
  BY CardNoted
<1>2. \A h \in Handlers :
          /\ \A c \in Applied(handler'[h].results) : note'[c] # Absent
          /\ handler'[h].todo \subseteq Applied(handler'[h].results)
  BY HandlerNoted
<1>3. \A c \in Applied(agent'.results) : note'[c] # Absent
  BY AgentNoted DEF NoteInv
<1>4. inflight' # Absent => \A c \in Applied(inflight'.results) : note'[c] # Absent
  BY InflightNoted
<1>5. \A k \in Ingesters : ingester'[k].rec.synced = 0
  BY RecordUnsynced
<1>. QED  BY <1>1, <1>2, <1>3, <1>4, <1>5 DEF NoteInv, Noted

\* NoteInv holds when nothing has happened yet.
LEMMA NoteInvInit == Init => NoteInv
  BY NothingApplied
  DEF Init, NoteInv, Noted, NoCard, IdleHandler, IdleAgent, IdleIngester

\* A card leaves the queue only when Anki has a note of it, however requests,
\* faults and threads interleave.
THEOREM SyncedNoted == Spec => []SyncedHasNote
<1>1. TypeInv /\ NoteInv => SyncedHasNote
  <2> SUFFICES ASSUME TypeInv, NoteInv, NEW c \in Cards,
                      card[c].content # 0, ~NeedsSync(c)
               PROVE  note[c] # Absent
    BY DEF SyncedHasNote
  <2>1. card[c].synced # 0
    BY DEF NeedsSync
  <2>. QED  BY <2>1 DEF NoteInv
<1>. QED
  BY <1>1, TypeInvInit, TypeInvStep, NoteInvInit, NoteInvStep, PTL DEF Spec

----------------------------------------------------------------------------
(* AppliedWhileOpen *)

\* A thread that handles an ack works on an acknowledged batch or on the one staged.
HandlerAcks(h) ==
    /\ handler[h].pc \in {"check", "stamp", "write"} =>
           \/ batch[handler[h].id].acked
           \/ inflight # Absent /\ inflight.id = handler[h].id
    /\ handler[h].ok => handler[h].pc = "reply"
    /\ handler[h].pc = "cursor" \/ handler[h].ok =>
           handler[h].id \in DOMAIN batch /\ batch[handler[h].id].acked

\* The thread that serves a poll has no batch for the agent, or an open one.
Serves(h) ==
    /\ h \in Handlers
    /\ handler[h].pc \in {"open", "select", "put", "reply"}
    /\ handler[h].pc = "reply" =>
           handler[h].items = Nothing \/ ~batch[handler[h].id].acked

\* The agent polls and applies only while nothing is staged, so that no thread
\* is about to acknowledge the batch it works on.
AgentAcks ==
    /\ agent.pc \in {"fetch", "apply", "stage"} => inflight = Absent
    /\ agent.pc \in {"apply", "stage"} => ~batch[agent.id].acked
    /\ agent.pc = "fetch" => Serves(agent.via)
    /\ agent.pc = "ack" =>
           /\ agent.via \in Handlers
           /\ inflight # Absent /\ handler[agent.via].id = inflight.id
           /\ handler[agent.via].pc \in {"check", "stamp", "write", "cursor", "reply"}

AckInv == AgentAcks /\ \A h \in Handlers : HandlerAcks(h)

\* With nothing staged, a batch that is open stays so.
LEMMA OpenStays ==
    ASSUME TypeInv, AckInv, [Next]_vars, inflight = Absent,
           NEW i \in DOMAIN batch, ~batch[i].acked
    PROVE  ~batch'[i].acked
<1>1. /\ Len(batch) \in Nat /\ DOMAIN batch = 1..Len(batch)
      /\ batch \in Seq([items : Items, acked : BOOLEAN, cursor : Nat])
  BY BatchTypes DEF TypeInv, TypeOK
<1>2. CASE batch' = batch
  BY <1>2
<1>3. ASSUME NEW h \in Handlers, PutBatch(h) PROVE ~batch'[i].acked
  <2>1. PICK b : batch' = Append(batch, b)
    BY <1>3 DEF PutBatch
  <2>. QED  BY <1>1, <2>1
<1>4. ASSUME NEW h \in Handlers, MarkAcked(h) PROVE ~batch'[i].acked
  <2>1. batch[handler[h].id].acked
    BY <1>4 DEF MarkAcked, AckInv, HandlerAcks
  <2>2. batch'[i] = batch[i]
    BY <1>1, <1>4, <2>1 DEF MarkAcked
  <2>. QED  BY <2>2
<1>5. TypeOK
  BY DEF TypeInv
<1>. QED  BY <1>2, <1>3, <1>4, <1>5, BatchGrows

\* A server thread acknowledges only what the agent staged.
LEMMA ServerAcks ==
    ASSUME TypeInv, AckInv, [Next]_vars, NEW h \in Handlers, HandlerStep(h)
    PROVE  HandlerAcks(h)'
<1>1. TypeOK /\ ShapeInv
  BY DEF TypeInv
<1>2. HandlerEffect(h)
  BY <1>1, HandlerEffects
<1>3. inflight' = inflight
  BY DEF HandlerStep, FindOpenBatch, SelectCards, PutBatch, RefuseAck, BeginAck,
     ReadCard, WriteCard, MarkAcked, SetCursor, DropAnswer, desktop
<1>4. /\ DOMAIN batch \subseteq DOMAIN batch'
      /\ \A i \in DOMAIN batch : batch[i].acked => batch'[i].acked
  BY <1>1, BatchGrows
<1>5. HandlerAcks(h)
  BY DEF AckInv
<1>6. handler[h].pc \in {"check", "stamp", "write", "cursor"} =>
          handler[h].id \in DOMAIN batch
  BY <1>1 DEF ShapeInv
<1>7. CASE handler'[h] = IdleHandler
  BY <1>7 DEF HandlerAcks, IdleHandler
<1>8. CASE MarkAcked(h)
  <2>1. handler[h].pc = "stamp" /\ ~handler[h].ok
    BY <1>5, <1>8 DEF MarkAcked, HandlerAcks
  <2>2. handler'[h] = [handler[h] EXCEPT
            !.pc = IF batch[handler[h].id].acked THEN "reply" ELSE "cursor"]
    BY <1>1, <1>8 DEF MarkAcked, TypeOK
  <2>3. handler[h] \in HandlerState
    BY <1>1 DEF TypeOK
  <2>4. /\ handler'[h].id = handler[h].id /\ ~handler'[h].ok
        /\ handler'[h].pc \in {"reply", "cursor"}
    BY <2>1, <2>2, <2>3 DEF HandlerState
  <2>5. handler[h].id \in DOMAIN batch /\ batch'[handler[h].id].acked
    <3>1. handler[h].id \in DOMAIN batch
      BY <1>6, <2>1
    <3>2. batch[handler[h].id] \in [items : Items, acked : BOOLEAN, cursor : Nat]
      BY <1>1, <3>1, BatchTypes
    <3>. QED  BY <1>8, <3>1, <3>2 DEF MarkAcked
  <2>. QED  BY <1>4, <2>4, <2>5 DEF HandlerAcks
<1>9. CASE SetCursor(h)
  <2>1. handler[h].pc = "cursor" /\ handler'[h].pc = "reply"
    BY <1>1, <1>9 DEF SetCursor, TypeOK, HandlerState
  <2>2. handler'[h].id = handler[h].id
    BY <1>1, <1>9 DEF SetCursor, TypeOK, HandlerState
  <2>. QED  BY <1>4, <1>5, <2>1, <2>2 DEF HandlerAcks
<1>10. CASE /\ handler[h].pc \in {"open", "select", "put", "check"}
            /\ handler'[h].pc \in {"select", "put", "reply"}
            /\ handler'[h].ok = handler[h].ok
  BY <1>5, <1>10 DEF HandlerAcks
<1>11. CASE /\ handler[h].pc \in {"check", "stamp", "write"}
            /\ handler'[h].pc \in {"stamp", "write"}
            /\ handler'[h].id = handler[h].id
            /\ handler'[h].ok = handler[h].ok
  BY <1>3, <1>4, <1>5, <1>6, <1>11 DEF HandlerAcks
<1>. QED
  BY <1>2, <1>7, <1>8, <1>9, <1>10, <1>11 DEF HandlerEffect, Kept

\* A poll is answered with the newest open batch, with a new one, or with none.
LEMMA ServerServes ==
    ASSUME TypeInv, AckInv, [Next]_vars, NEW h \in Handlers, HandlerStep(h),
           Serves(h), agent.via = h
    PROVE  Serves(h)'
<1>1. TypeOK /\ ShapeInv
  BY DEF TypeInv
<1>2. HandlerEffect(h)
  BY <1>1, HandlerEffects
<1>3. ~DropAnswer(h)
  BY DEF DropAnswer
<1>4. CASE FindOpenBatch(h)
  <2>1. batch' = batch
    BY <1>4 DEF FindOpenBatch, server
  <2>. QED  BY <1>2, <1>4, <2>1 DEF FindOpenBatch, SelectCards, PutBatch, RefuseAck,
               BeginAck, ReadCard, WriteCard, MarkAcked, SetCursor,
               HandlerEffect, Serves, OpenBatches, DropAnswer
<1>5. CASE SelectCards(h)
  <2>1. handler[h].items = Nothing
    BY <1>1, <1>5 DEF SelectCards, ShapeInv
  <2>. QED  BY <1>2, <1>5, <2>1 DEF FindOpenBatch, SelectCards, PutBatch, RefuseAck,
               BeginAck, ReadCard, WriteCard, MarkAcked, SetCursor,
               HandlerEffect, Serves, DropAnswer
<1>6. CASE PutBatch(h)
  <2>1. /\ Len(batch) \in Nat
        /\ batch \in Seq([items : Items, acked : BOOLEAN, cursor : Nat])
    BY <1>1, BatchTypes DEF TypeOK
  <2>2. batch' = Append(batch, [items |-> handler[h].items, acked |-> FALSE,
                                cursor |-> handler[h].to])
    BY <1>6 DEF PutBatch
  <2>3. ~batch'[Len(batch) + 1].acked
    BY <2>1, <2>2
  <2>4. handler'[h].pc = "reply" /\ handler'[h].id = Len(batch) + 1
    BY <1>1, <1>6 DEF PutBatch, TypeOK, HandlerState
  <2>. QED  BY <2>3, <2>4 DEF Serves
<1>7. FindOpenBatch(h) \/ SelectCards(h) \/ PutBatch(h)
  BY <1>3 DEF Serves, HandlerStep, RefuseAck, BeginAck, ReadCard, WriteCard, MarkAcked,
     SetCursor
<1>. QED  BY <1>4, <1>5, <1>6, <1>7

\* AckInv is kept by the steps of the server's threads.
LEMMA ServerAckInv ==
    ASSUME TypeInv, AckInv, [Next]_vars, NEW h \in Handlers, HandlerStep(h)
    PROVE  AckInv'
<1>1. TypeOK /\ ShapeInv
  BY DEF TypeInv
<1>2. /\ \A g \in Handlers \ {h} : handler'[g] = handler[g]
      /\ HandlerEffect(h)
  BY <1>1, HandlerEffects
<1>3. agent' = agent /\ inflight' = inflight
  BY DEF HandlerStep, FindOpenBatch, SelectCards, PutBatch, RefuseAck, BeginAck,
     ReadCard, WriteCard, MarkAcked, SetCursor, DropAnswer, desktop
<1>4. /\ DOMAIN batch \subseteq DOMAIN batch'
      /\ \A i \in DOMAIN batch : batch[i].acked => batch'[i].acked
  BY <1>1, BatchGrows
<1>5. \A g \in Handlers : HandlerAcks(g)'
  <2>1. HandlerAcks(h)'
    BY ServerAcks
  <2>2. ASSUME NEW g \in Handlers \ {h} PROVE HandlerAcks(g)'
    <3>1. HandlerAcks(g) /\ handler'[g] = handler[g]
      BY <1>2 DEF AckInv
    <3>2. handler[g].pc \in {"check", "stamp", "write"} =>
              handler[g].id \in DOMAIN batch
      BY <1>1 DEF ShapeInv
    <3>. QED  BY <1>3, <1>4, <3>1, <3>2 DEF HandlerAcks
  <2>. QED  BY <2>1, <2>2
<1>6. agent.pc \in {"apply", "stage"} => ~batch'[agent.id].acked
  <2>1. agent.pc \in {"apply", "stage"} =>
            /\ inflight = Absent /\ ~batch[agent.id].acked
            /\ agent.id \in DOMAIN batch
    BY <1>1 DEF AckInv, AgentAcks, ShapeInv
  <2>. QED  BY <2>1, OpenStays
<1>7. ASSUME agent.pc = "fetch" PROVE Serves(agent.via)'
  <2>1. Serves(agent.via) /\ inflight = Absent
    BY <1>7 DEF AckInv, AgentAcks
  <2>2. CASE agent.via = h
    <3>1. Serves(h)'
      BY <2>1, <2>2, ServerServes
    <3>. QED  BY <1>3, <2>2, <3>1 DEF Serves
  <2>3. CASE agent.via # h
    <3>1. agent.via \in Handlers /\ handler'[agent.via] = handler[agent.via]
      BY <1>2, <2>1, <2>3 DEF Serves
    <3>2. /\ handler[agent.via].pc = "reply"
          /\ handler[agent.via].items # Nothing
          => handler[agent.via].id \in DOMAIN batch
      BY <1>1, <3>1 DEF ShapeInv
    <3>3. /\ handler[agent.via].pc = "reply"
          /\ handler[agent.via].items # Nothing
          => ~batch'[handler[agent.via].id].acked
      BY <2>1, <3>2, OpenStays DEF Serves
    <3>. QED  BY <1>3, <2>1, <3>1, <3>3 DEF Serves
  <2>. QED  BY <2>2, <2>3
<1>8. ASSUME agent.pc = "ack"
      PROVE  /\ handler'[agent.via].id = inflight.id
             /\ handler'[agent.via].pc \in {"check", "stamp", "write", "cursor", "reply"}
  <2>1. /\ agent.via \in Handlers /\ handler[agent.via].id = inflight.id
        /\ handler[agent.via].pc \in {"check", "stamp", "write", "cursor", "reply"}
    BY <1>8 DEF AckInv, AgentAcks
  <2>2. CASE agent.via = h
    <3>1. ~DropAnswer(h)
      BY <2>2 DEF DropAnswer
    <3>2. SetCursor(h) => handler'[h].id = handler[h].id /\ handler'[h].pc = "reply"
      BY <1>1 DEF SetCursor, TypeOK, HandlerState
    <3>. QED  BY <1>2, <2>1, <2>2, <3>1, <3>2 DEF HandlerEffect, DropAnswer
  <2>3. CASE agent.via # h
    BY <1>2, <2>1, <2>3
  <2>. QED  BY <2>2, <2>3
<1>9. AgentAcks'
  BY <1>3, <1>6, <1>7, <1>8 DEF AckInv, AgentAcks
<1>. QED  BY <1>5, <1>9 DEF AckInv

\* AckInv is kept by the steps of the agent.
LEMMA AgentAckInv == ASSUME TypeInv, AckInv, AgentStep PROVE AckInv'
<1> USE DEF server, desktop
<1>1. TypeOK /\ ShapeInv
  BY DEF TypeInv
<1>2. handler \in [Handlers -> HandlerState] /\ agent \in AgentState
  BY <1>1 DEF TypeOK
<1>3. batch' = batch
  BY DEF AgentStep, FetchPending, ReceiveBatch, PostAck, ReceiveAck, ApplyItem,
     StageInflight, SaveCursor
<1>4. ASSUME NEW h \in Handlers, FetchPending(h) PROVE AckInv'
  <2>1. /\ \A g \in Handlers \ {h} : handler'[g] = handler[g]
        /\ handler'[h].pc = "open" /\ ~handler'[h].ok
    BY <1>2, <1>4 DEF FetchPending, IdleHandler
  <2>2. /\ agent'.pc = "fetch" /\ agent'.via = h
        /\ inflight' = inflight /\ inflight = Absent
    BY <1>4 DEF FetchPending, IdleAgent
  <2>. QED  BY <1>3, <2>1, <2>2 DEF AckInv, HandlerAcks, AgentAcks, Serves
<1>5. ASSUME NEW h \in Handlers, ReceiveBatch(h) PROVE AckInv'
  <2>1. /\ \A g \in Handlers \ {h} : handler'[g] = handler[g]
        /\ handler'[h] = IdleHandler
    BY <1>2, <1>5 DEF ReceiveBatch
  <2>2. /\ inflight' = inflight
        /\ \/ agent'.pc = "idle"
           \/ /\ agent'.pc = "apply" /\ agent'.id = handler[h].id
              /\ handler[h].items # Nothing
    BY <1>5 DEF ReceiveBatch, IdleAgent
  <2>3. /\ agent.pc = "fetch" /\ agent.via = h /\ handler[h].pc = "reply"
    BY <1>5 DEF ReceiveBatch
  <2>4. inflight = Absent /\ Serves(h)
    BY <2>3 DEF AckInv, AgentAcks
  <2>. QED  BY <1>3, <2>1, <2>2, <2>3, <2>4
            DEF AckInv, HandlerAcks, AgentAcks, Serves, IdleHandler
<1>6. ASSUME NEW h \in Handlers, PostAck(h) PROVE AckInv'
  <2>1. /\ \A g \in Handlers \ {h} : handler'[g] = handler[g]
        /\ handler'[h].pc = "check" /\ handler'[h].id = inflight.id
        /\ ~handler'[h].ok
    BY <1>2, <1>6 DEF PostAck, IdleHandler
  <2>2. /\ agent'.pc = "ack" /\ agent'.via = h
        /\ inflight' = inflight /\ inflight # Absent
    BY <1>6 DEF PostAck, IdleAgent
  <2>. QED  BY <1>3, <2>1, <2>2 DEF AckInv, HandlerAcks, AgentAcks
<1>7. ASSUME NEW h \in Handlers, ReceiveAck(h) PROVE AckInv'
  <2>1. /\ \A g \in Handlers \ {h} : handler'[g] = handler[g]
        /\ handler'[h] = IdleHandler
    BY <1>2, <1>7 DEF ReceiveAck
  <2>2. agent.pc = "ack" /\ agent.via = h
    BY <1>7 DEF ReceiveAck
  <2>3. handler[h].id = inflight.id
    BY <2>2 DEF AckInv, AgentAcks
  <2>4. /\ agent'.pc \in {"save", "idle"}
        /\ \/ inflight' = inflight
           \/ inflight' = Absent /\ batch[inflight.id].acked
    <3>1. CASE handler[h].ok
      BY <1>7, <2>3, <3>1 DEF ReceiveAck, IdleAgent, AckInv, HandlerAcks
    <3>2. CASE ~handler[h].ok
      BY <1>7, <3>2 DEF ReceiveAck, IdleAgent
    <3>. QED  BY <3>1, <3>2
  <2>. QED  BY <1>3, <2>1, <2>4 DEF AckInv, HandlerAcks, AgentAcks, IdleHandler
<1>8. ASSUME NEW c \in Cards, ApplyItem(c) PROVE AckInv'
  <2>1. agent.pc = "apply" /\ agent'.id = agent.id /\ agent'.pc \in {"apply", "stage"}
    BY <1>1, <1>8, FinishEffect DEF ApplyItem, AddNote, MergeNote
  <2>2. handler' = handler /\ inflight' = inflight
    BY <1>8 DEF ApplyItem
  <2>. QED  BY <1>3, <2>1, <2>2 DEF AckInv, HandlerAcks, AgentAcks
<1>9. CASE StageInflight
  <2>1. agent.pc = "stage" /\ agent'.pc = "post" /\ handler' = handler
    BY <1>2, <1>9 DEF StageInflight, AgentState
  <2>2. inflight = Absent
    BY <2>1 DEF AckInv, AgentAcks
  <2>. QED  BY <1>3, <2>1, <2>2 DEF AckInv, HandlerAcks, AgentAcks
<1>10. CASE SaveCursor
  BY <1>3, <1>10 DEF AckInv, HandlerAcks, AgentAcks, SaveCursor, IdleAgent
<1>. QED
  BY <1>4, <1>5, <1>6, <1>7, <1>8, <1>9, <1>10 DEF AgentStep

\* AckInv is kept by the pipeline, the user and the faults.
LEMMA OtherAckInv ==
    ASSUME TypeInv, AckInv, [Next]_vars,
           ~AgentStep, \A h \in Handlers : ~HandlerStep(h)
    PROVE  AckInv'
<1> USE DEF server, desktop
<1>1. TypeOK
  BY DEF TypeInv
<1>2. handler \in [Handlers -> HandlerState]
  BY <1>1 DEF TypeOK
<1>3. CASE UNCHANGED <<batch, handler, agent, inflight>>
  BY <1>3 DEF AckInv, HandlerAcks, AgentAcks, Serves
<1>4. ASSUME NEW h \in Handlers, LoseRequest(h) PROVE AckInv'
  <2>1. /\ \A g \in Handlers \ {h} : handler'[g] = handler[g]
        /\ handler'[h] = IdleHandler
    BY <1>2, <1>4 DEF LoseRequest
  <2>2. agent'.pc = "idle" /\ UNCHANGED <<batch, inflight>>
    BY <1>4 DEF LoseRequest, IdleAgent
  <2>. QED  BY <2>1, <2>2 DEF AckInv, HandlerAcks, AgentAcks, IdleHandler
<1>5. ASSUME NEW c \in Cards, FailItem(c) PROVE AckInv'
  <2>1. agent.pc = "apply" /\ agent'.id = agent.id /\ agent'.pc \in {"apply", "stage"}
    BY <1>1, <1>5, FinishEffect DEF FailItem
  <2>2. UNCHANGED <<batch, handler, inflight>>
    BY <1>5 DEF FailItem
  <2>. QED  BY <2>1, <2>2 DEF AckInv, HandlerAcks, AgentAcks
<1>6. CASE GiveUp \/ CrashAgent
  BY <1>6 DEF GiveUp, CrashAgent, IdleAgent, AckInv, HandlerAcks, AgentAcks
<1>7. CASE CrashServer
  <2>1. (agent' = agent /\ agent.via = Absent) \/ agent'.pc = "idle"
    BY <1>7 DEF CrashServer, IdleAgent
  <2>2. \A h \in Handlers : handler'[h] = IdleHandler
    BY <1>7 DEF CrashServer
  <2>3. UNCHANGED <<batch, inflight>>
    BY <1>7 DEF CrashServer
  <2>4. agent.pc \in {"fetch", "ack"} => agent.via # Absent
    BY NamesAssumption DEF AckInv, AgentAcks, Serves
  <2>. QED  BY <2>1, <2>2, <2>3, <2>4 DEF AckInv, HandlerAcks, AgentAcks, IdleHandler
<1>8. \/ UNCHANGED <<batch, handler, agent, inflight>>
      \/ \E h \in Handlers : LoseRequest(h)
      \/ \E c \in Cards : FailItem(c)
      \/ GiveUp \/ CrashAgent \/ CrashServer
  BY DEF Next, vars, MakeRecord, StoreCard, EditNote
<1>. QED  BY <1>3, <1>4, <1>5, <1>6, <1>7, <1>8

\* AckInv holds when nothing has happened yet.
LEMMA AckInvInit == Init => AckInv
  BY DEF Init, AckInv, HandlerAcks, AgentAcks, IdleHandler, IdleAgent

\* The agent never applies a batch that is acknowledged, whatever requests were
\* lost, given up on or replayed before.
THEOREM AppliedOpen == Spec => []AppliedWhileOpen
<1>1. TypeInv /\ AckInv /\ [Next]_vars => AckInv'
  BY ServerAckInv, AgentAckInv, OtherAckInv
<1>2. AckInv => AppliedWhileOpen
  BY DEF AckInv, AgentAcks, AppliedWhileOpen
<1>. QED
  BY <1>1, <1>2, TypeInvInit, TypeInvStep, AckInvInit, PTL DEF Spec

----------------------------------------------------------------------------
(* OneOpenBatch *)

SerialServer == \A g, h \in Handlers : g = h

\* A poll cuts a batch only while none is open.
OpenInv ==
    /\ \E i \in Nat : OpenBatches \subseteq {i}
    /\ \A h \in Handlers : handler[h].pc \in {"select", "put"} => OpenBatches = {}

\* OpenInv is kept by the one thread of the server.
LEMMA ServerOpenInv ==
    ASSUME SerialServer, TypeInv, OpenInv, NEW h \in Handlers, HandlerStep(h)
    PROVE  OpenInv'
<1>1. TypeOK /\ \A g \in Handlers : g = h
  BY DEF TypeInv, SerialServer
<1>2. handler \in [Handlers -> HandlerState]
  BY <1>1 DEF TypeOK
<1>3. /\ Len(batch) \in Nat /\ DOMAIN batch = 1..Len(batch)
      /\ batch \in Seq([items : Items, acked : BOOLEAN, cursor : Nat])
  BY <1>1, BatchTypes DEF TypeOK
<1>4. CASE /\ batch' = batch
           /\ handler'[h].pc \in {"select", "put"} => OpenBatches = {}
  BY <1>1, <1>4 DEF OpenInv, OpenBatches
<1>5. FindOpenBatch(h) =>
          batch' = batch /\ (handler'[h].pc \in {"select", "put"} => OpenBatches = {})
  <2> SUFFICES ASSUME FindOpenBatch(h), OpenBatches # {}
               PROVE  handler'[h].pc = "reply"
    BY DEF FindOpenBatch, server
  <2> DEFINE i == CHOOSE j \in OpenBatches : \A n \in OpenBatches : n <= j
  <2>1. handler'[h] = [handler[h] EXCEPT !.pc = "reply", !.id = i,
                           !.items = batch[i].items, !.to = batch[i].cursor]
    BY <1>2 DEF FindOpenBatch
  <2> HIDE DEF i
  <2>. QED  BY <1>2, <2>1 DEF HandlerState
<1>6. SelectCards(h) =>
          batch' = batch /\ (handler'[h].pc \in {"select", "put"} => OpenBatches = {})
  BY DEF SelectCards, OpenInv, server
<1>7. ASSUME RefuseAck(h) \/ BeginAck(h) \/ (\E c \in Cards : ReadCard(h, c))
             \/ WriteCard(h) \/ SetCursor(h) \/ DropAnswer(h)
      PROVE  batch' = batch /\ handler'[h].pc \notin {"select", "put"}
  <2>1. batch' = batch
    BY <1>7 DEF RefuseAck, BeginAck, ReadCard, WriteCard, SetCursor, DropAnswer, server
  <2>2. handler[h].pc \in {"check", "stamp", "write", "cursor", "reply"}
    BY <1>7 DEF RefuseAck, BeginAck, ReadCard, WriteCard, SetCursor, DropAnswer
  <2>3. HandlerEffect(h)
    BY <1>1, HandlerEffects
  <2>. QED  BY <2>1, <2>2, <2>3 DEF HandlerEffect, IdleHandler
<1>8. CASE PutBatch(h)
  <2>1. OpenBatches = {}
    BY <1>8 DEF PutBatch, OpenInv
  <2>2. PICK b : batch' = Append(batch, b)
    BY <1>8 DEF PutBatch
  <2>3. /\ DOMAIN batch' = 1..(Len(batch) + 1)
        /\ \A i \in DOMAIN batch : batch'[i] = batch[i]
    BY <1>3, <2>2
  <2>4. OpenBatches' \subseteq {Len(batch) + 1} /\ Len(batch) + 1 \in Nat
    BY <1>3, <2>1, <2>3 DEF OpenBatches
  <2>5. handler'[h].pc = "reply"
    BY <1>2, <1>8 DEF PutBatch, HandlerState
  <2>. QED  BY <1>1, <2>4, <2>5 DEF OpenInv
<1>9. CASE MarkAcked(h)
  <2>1. DOMAIN batch' = DOMAIN batch
    BY <1>3, <1>9 DEF MarkAcked
  <2>2. \A i \in DOMAIN batch : batch[i].acked => batch'[i].acked
    BY <1>3, <1>9, BatchTypes, <1>1 DEF MarkAcked
  <2>3. OpenBatches' \subseteq OpenBatches
    BY <2>1, <2>2 DEF OpenBatches
  <2>4. handler'[h].pc \notin {"select", "put"}
    BY <1>2, <1>9 DEF MarkAcked, HandlerState
  <2>. QED  BY <1>1, <2>3, <2>4 DEF OpenInv
<1>. QED  BY <1>4, <1>5, <1>6, <1>7, <1>8, <1>9 DEF HandlerStep

\* OpenInv is inductive when the server handles one request at a time.
LEMMA OpenInvStep ==
    ASSUME SerialServer, TypeInv, OpenInv, [Next]_vars
    PROVE  OpenInv'
<1> USE DEF server, desktop
<1>1. handler \in [Handlers -> HandlerState]
  BY DEF TypeInv, TypeOK
<1>2. CASE /\ batch' = batch
           /\ \A h \in Handlers : handler'[h].pc \in {"select", "put"} =>
                  handler'[h] = handler[h]
  BY <1>2 DEF OpenInv, OpenBatches
<1>3. ASSUME NEW h \in Handlers,
             FetchPending(h) \/ ReceiveBatch(h) \/ PostAck(h) \/ ReceiveAck(h)
             \/ LoseRequest(h)
      PROVE  /\ batch' = batch
             /\ \A g \in Handlers : handler'[g].pc \in {"select", "put"} =>
                    handler'[g] = handler[g]
  <2>1. batch' = batch /\ \A g \in Handlers \ {h} : handler'[g] = handler[g]
    BY <1>1, <1>3 DEF FetchPending, ReceiveBatch, PostAck, ReceiveAck, LoseRequest
  <2>2. CASE FetchPending(h)
    BY <1>1, <2>1, <2>2 DEF FetchPending, IdleHandler
  <2>3. CASE PostAck(h)
    BY <1>1, <2>1, <2>3 DEF PostAck, IdleHandler
  <2>4. CASE ReceiveBatch(h) \/ ReceiveAck(h) \/ LoseRequest(h)
    <3>1. handler'[h] = IdleHandler
      BY <1>1, <2>4 DEF ReceiveBatch, ReceiveAck, LoseRequest
    <3>. QED  BY <2>1, <3>1 DEF IdleHandler
  <2>. QED  BY <1>3, <2>1, <2>2, <2>3, <2>4
<1>4. CASE CrashServer
  BY <1>2, <1>4 DEF CrashServer, IdleHandler
<1>5. CASE UNCHANGED <<batch, handler>>
  BY <1>2, <1>5
<1>. QED
  BY <1>2, <1>3, <1>4, <1>5, ServerOpenInv
  DEF Next, AgentStep, vars, MakeRecord, StoreCard, ApplyItem, FailItem,
      StageInflight, SaveCursor, EditNote, GiveUp, CrashAgent

\* A server that handles one request at a time never leaves the agent two open
\* batches, whatever the agent does.
THEOREM OneOpenBatchSerially == SerialServer => (Spec => []OneOpenBatch)
<1> SUFFICES ASSUME SerialServer PROVE Spec => []OneOpenBatch
  OBVIOUS
<1>1. Init => OpenInv
  <2> SUFFICES ASSUME Init PROVE OpenInv
    OBVIOUS
  <2>1. OpenBatches = {}
    BY DEF Init, OpenBatches
  <2>. QED  BY <2>1 DEF Init, OpenInv, IdleHandler
<1>2. OpenInv => OneOpenBatch
  <2> SUFFICES ASSUME NEW i \in Nat, OpenBatches \subseteq {i}
               PROVE  Cardinality(OpenBatches) <= 1
    BY DEF OpenInv, OneOpenBatch
  <2>1. CASE OpenBatches = {}
    <3>1. Cardinality(OpenBatches) = 0
      BY <2>1, FS_EmptySet
    <3>. QED  BY <3>1
  <2>2. CASE OpenBatches = {i}
    <3>1. Cardinality({i}) = 1
      BY FS_Singleton, Zenon
    <3>. QED  BY <2>2, <3>1
  <2>. QED  BY <2>1, <2>2
<1>3. TypeInv /\ OpenInv /\ [Next]_vars => OpenInv'
  BY OpenInvStep
<1>. QED  BY <1>1, <1>2, <1>3, TypeInvInit, TypeInvStep, PTL DEF Spec

----------------------------------------------------------------------------
(* NoCardSkipped *)

\* One pipeline run or upload at a time: two may store their records in another
\* order than that of their stamps.
SerialIngester == \A j, k \in Ingesters : j = k

\* NeedsSync, of a record that is in the table or about to be written.
Due(r) == r.content # 0 /\ (r.synced = 0 \/ r.synced < r.updated)

\* The content was in a batch.
Offered(c, content) ==
    \E i \in DOMAIN batch : /\ batch[i].items[c] # Absent
                            /\ batch[i].items[c].content = content

\* A position after which a batch may be cut, now or when the answers, files and
\* batches there are have been worked on.
IsMark(t) ==
    \/ t = 0 \/ t = cursor \/ t = saved \/ t = agent.to
    \/ inflight # Absent /\ t = inflight.to
    \/ \E i \in DOMAIN batch : t = batch[i].cursor
    \/ \E h \in Handlers : \/ t = handler[h].from
                           \/ handler[h].pc # "put" /\ t = handler[h].to

\* A batch cut after t has the record, or an earlier batch had it.
Awaits(c, r, t) == Due(r) => r.updated > t \/ Offered(c, r.content)

MarkInv ==
    \A t \in Nat : IsMark(t) =>
        t <= clock /\ \A c \in Cards : Awaits(c, card[c], t)

\* A batch that is cut and not yet put has what its cursor passes.
CutInv ==
    \A h \in Handlers : handler[h].pc = "put" =>
        /\ handler[h].to <= clock
        /\ \A c \in Cards :
               \/ Awaits(c, card[c], handler[h].to)
               \/ /\ handler[h].items[c] # Absent
                  /\ handler[h].items[c].content = card[c].content

\* What an ack has yet to write back is no card the marks have passed.
BackInv ==
    \A h \in Handlers :
        /\ handler[h].pc \in {"stamp", "write"} =>
               /\ 0 < handler[h].now /\ handler[h].now <= clock
               /\ \A c \in Cards : card[c].synced <= handler[h].now
        /\ handler[h].pc = "write" =>
               (handler[h].rec.content # 0 /\ handler[h].rec.updated > handler[h].now
                => \A t \in Nat : IsMark(t) =>
                       \/ handler[h].rec.updated > t
                       \/ Offered(handler[h].key, handler[h].rec.content))

\* A record that is made and not yet stored has the latest stamp of all.
NewInv ==
    \A k \in Ingesters : ingester[k].pc = "store" =>
        /\ ingester[k].rec.synced = 0
        /\ \A t \in Nat : IsMark(t) => t < ingester[k].rec.updated
        /\ \A c \in Cards : card[c].updated < ingester[k].rec.updated
        /\ \A h \in Handlers :
               /\ handler[h].pc = "write" =>
                      handler[h].rec.updated < ingester[k].rec.updated
               /\ handler[h].pc = "put" => handler[h].to < ingester[k].rec.updated

SyncedInv == \A c \in Cards : card[c].synced <= clock

SkipInv == MarkInv /\ CutInv /\ BackInv /\ NewInv /\ SyncedInv

\* The types of what SkipInv compares.
LEMMA SkipTypes ==
    ASSUME TypeOK
    PROVE  /\ clock \in Nat
           /\ \A c \in Cards : /\ card[c] \in CardRecord
                               /\ card[c].updated \in Nat /\ card[c].synced \in Nat
                               /\ card[c].content \in Nat
           /\ \A h \in Handlers :
                  /\ handler[h] \in HandlerState
                  /\ handler[h].to \in Nat /\ handler[h].from \in Nat
                  /\ handler[h].now \in Nat
                  /\ handler[h].rec \in CardRecord
                  /\ handler[h].rec.updated \in Nat /\ handler[h].rec.content \in Nat
           /\ \A k \in Ingesters :
                  ingester[k].rec \in CardRecord /\ ingester[k].rec.updated \in Nat
           /\ \A t : IsMark(t) => t \in Nat
<1>1. /\ clock \in Nat /\ cursor \in Nat /\ saved \in Nat
      /\ card \in [Cards -> CardRecord]
      /\ handler \in [Handlers -> HandlerState]
      /\ ingester \in [Ingesters -> [pc : {"idle", "store"}, rec : CardRecord,
                                     key : Cards \cup {Absent}]]
      /\ agent.to \in Nat
      /\ inflight # Absent => inflight.to \in Nat
  BY DEF TypeOK, AgentState
<1>2. \A i \in DOMAIN batch : batch[i].cursor \in Nat
  BY BatchTypes
<1>3. \A h \in Handlers :
          /\ handler[h] \in HandlerState
          /\ handler[h].to \in Nat /\ handler[h].from \in Nat
          /\ handler[h].now \in Nat /\ handler[h].rec \in CardRecord
  BY <1>1 DEF HandlerState
<1>4. \A r \in CardRecord : r.updated \in Nat /\ r.synced \in Nat /\ r.content \in Nat
  BY DEF CardRecord
<1>5. \A k \in Ingesters : ingester[k].rec \in CardRecord
  BY <1>1
<1>6. \A t : IsMark(t) => t \in Nat
  BY <1>1, <1>2, <1>3 DEF IsMark
<1>. QED  BY <1>1, <1>3, <1>4, <1>5, <1>6

\* The cards selected are the first: none that is pending is left out before
\* the last of them.
LEMMA SelectedFirst ==
    ASSUME TypeOK, StampInv, NEW from \in Nat, Selected(from) # {},
           NEW c \in Cards, NeedsSync(c), card[c].updated > Position(from),
           card[c].updated <= LastStamp(Selected(from))
    PROVE  c \in Selected(from)
<1> DEFINE pending == {e \in Cards : NeedsSync(e) /\ card[e].updated > Position(from)}
           Before(e) == {d \in pending : card[d].updated < card[e].updated}
<1>1. Selected(from) \in SUBSET Cards
  BY DEF Selected
<1>2. PICK d \in Selected(from) : card[d].updated = LastStamp(Selected(from))
  BY <1>1, LastStampTypes
<1>3. d \in pending /\ Cardinality(Before(d)) < Limit
  BY <1>2 DEF Selected
<1>4. card[c].updated \in Nat /\ card[d].updated \in Nat
      /\ \A e \in Cards : card[e].updated \in Nat
  BY <1>3, SkipTypes
<1>5. Before(c) \subseteq Before(d)
  BY <1>2, <1>4
<1>6. IsFiniteSet(Before(d))
  BY NamesAssumption, FS_Subset
<1>7. IsFiniteSet(Before(c)) /\ Cardinality(Before(c)) <= Cardinality(Before(d))
  <2> HIDE DEF Before
  <2>. QED  BY <1>5, <1>6, FS_Subset
<1>8. Cardinality(Before(c)) \in Nat /\ Cardinality(Before(d)) \in Nat
  <2> HIDE DEF Before
  <2>. QED  BY <1>6, <1>7, FS_CardinalityType
<1>9. Cardinality(Before(c)) < Limit
  <2> HIDE DEF Before
  <2>. QED  BY <1>3, <1>7, <1>8, NamesAssumption
<1>10. c \in pending
  OBVIOUS
<1>. QED  BY <1>9, <1>10 DEF Selected

\* A batch keeps its items and its cursor; a new one is what a thread had cut.
LEMMA BatchKept ==
    ASSUME TypeOK, [Next]_vars
    PROVE  /\ \A i \in DOMAIN batch : /\ i \in DOMAIN batch'
                                      /\ batch'[i].items = batch[i].items
                                      /\ batch'[i].cursor = batch[i].cursor
           /\ \A i \in DOMAIN batch' :
                  \/ i \in DOMAIN batch
                  \/ \E h \in Handlers : PutBatch(h) /\ batch'[i].cursor = handler[h].to
           /\ \A h \in Handlers : PutBatch(h) =>
                  \E i \in DOMAIN batch' : batch'[i].items = handler[h].items
<1>1. batch \in Seq([items : Items, acked : BOOLEAN, cursor : Nat])
  BY DEF TypeOK
<1>2. /\ Len(batch) \in Nat /\ DOMAIN batch = 1..Len(batch)
      /\ \A i \in DOMAIN batch :
             batch[i] \in [items : Items, acked : BOOLEAN, cursor : Nat]
  BY BatchTypes
<1>3. ASSUME NEW h \in Handlers, PutBatch(h)
      PROVE  /\ \A i \in DOMAIN batch : i \in DOMAIN batch' /\ batch'[i] = batch[i]
             /\ \A i \in DOMAIN batch' :
                    i \in DOMAIN batch \/ batch'[i].cursor = handler[h].to
             /\ \E i \in DOMAIN batch' : batch'[i].items = handler[h].items
  <2> DEFINE b == [items |-> handler[h].items, acked |-> FALSE,
                   cursor |-> handler[h].to]
  <2>1. batch' = Append(batch, b)
    BY <1>3 DEF PutBatch
  <2>2. b.cursor = handler[h].to /\ b.items = handler[h].items
    OBVIOUS
  <2> HIDE DEF b
  <2>3. /\ DOMAIN batch' = 1..(Len(batch) + 1)
        /\ batch'[Len(batch) + 1] = b
        /\ \A i \in DOMAIN batch : batch'[i] = batch[i]
    BY <1>1, <1>2, <2>1
  <2>. QED  BY <1>2, <2>2, <2>3
<1>4. ASSUME NEW h \in Handlers, MarkAcked(h)
      PROVE  /\ DOMAIN batch' = DOMAIN batch
             /\ \A i \in DOMAIN batch : /\ batch'[i].items = batch[i].items
                                        /\ batch'[i].cursor = batch[i].cursor
  BY <1>2, <1>4 DEF MarkAcked
<1>5. \/ batch' = batch
      \/ \E h \in Handlers : PutBatch(h)
      \/ \E h \in Handlers : MarkAcked(h)
  BY BatchGrows
<1>6. \A h \in Handlers : MarkAcked(h) \/ batch' = batch => \A g \in Handlers : ~PutBatch(g)
  <2> SUFFICES ASSUME NEW g \in Handlers, PutBatch(g), NEW h \in Handlers
               PROVE  ~MarkAcked(h) /\ batch' # batch
    OBVIOUS
  <2>1. PICK b : batch' = Append(batch, b)
    BY DEF PutBatch
  <2>2. DOMAIN batch' = 1..(Len(batch) + 1)
    BY <1>1, <2>1
  <2>3. DOMAIN batch' # DOMAIN batch
    <3>1. Len(batch) + 1 \in DOMAIN batch' /\ Len(batch) + 1 \notin DOMAIN batch
      BY <1>2, <2>2
    <3>. QED  BY <3>1
  <2>. QED  BY <1>4, <2>3
<1>7. CASE batch' = batch
  BY <1>6, <1>7
<1>8. CASE \E h \in Handlers : MarkAcked(h)
  BY <1>4, <1>6, <1>8
<1>9. CASE \E h \in Handlers : PutBatch(h)
  BY <1>3, <1>9
<1>. QED  BY <1>5, <1>7, <1>8, <1>9

\* What was offered stays offered, and a batch put offers its items.
LEMMA OfferedStays ==
    ASSUME TypeOK, [Next]_vars, NEW c \in Cards, NEW content
    PROVE  /\ Offered(c, content) => Offered(c, content)'
           /\ \A h \in Handlers :
                  /\ PutBatch(h)
                  /\ handler[h].items[c] # Absent
                  /\ handler[h].items[c].content = content
                  => Offered(c, content)'
  BY BatchKept DEF Offered

\* What a record awaits it goes on to await.
LEMMA AwaitsStays ==
    ASSUME TypeOK, [Next]_vars, NEW c \in Cards, NEW r, NEW t, Awaits(c, r, t)
    PROVE  Awaits(c, r, t)'
<1>1. CASE Offered(c, r.content)
  BY <1>1, OfferedStays DEF Awaits
<1>2. CASE ~Offered(c, r.content)
  BY <1>2 DEF Awaits
<1>. QED  BY <1>1, <1>2

\* The stamps a thread works with, before and after one of its steps.
HandlerTimes(h) ==
    /\ handler'[h].from = handler[h].from \/ handler'[h].from = 0
    /\ \/ handler'[h].to = handler[h].to
       \/ handler'[h].to = 0
       \/ \E i \in DOMAIN batch : handler'[h].to = batch[i].cursor
       \/ handler'[h].pc = "put"
    /\ \/ handler'[h].now = handler[h].now
       \/ handler'[h].pc = "idle"
       \/ BeginAck(h) /\ handler'[h].now = clock'

\* HandlerTimes is true of every step.
LEMMA HandlerTimed ==
    ASSUME TypeOK, NEW h \in Handlers, HandlerStep(h)
    PROVE  HandlerTimes(h)
<1>1. handler \in [Handlers -> HandlerState] /\ handler[h] \in HandlerState
  BY DEF TypeOK
<1>2. ASSUME NEW new, handler' = [handler EXCEPT ![h] = new] PROVE handler'[h] = new
  BY <1>1, <1>2
<1>3. CASE FindOpenBatch(h)
  <2>1. CASE OpenBatches = {}
    <3>1. handler'[h] = [handler[h] EXCEPT !.pc = "select"]
      BY <1>2, <1>3, <2>1 DEF FindOpenBatch
    <3>. QED  BY <1>1, <3>1 DEF HandlerTimes, HandlerState
  <2>2. CASE OpenBatches # {}
    <3> DEFINE i == CHOOSE j \in OpenBatches : \A n \in OpenBatches : n <= j
    <3>1. i \in DOMAIN batch
      BY <2>2, NewestOpen DEF OpenBatches
    <3>2. handler'[h] = [handler[h] EXCEPT !.pc = "reply", !.id = i,
                                 !.items = batch[i].items, !.to = batch[i].cursor]
      BY <1>2, <1>3, <2>2 DEF FindOpenBatch
    <3> HIDE DEF i
    <3>. QED  BY <1>1, <3>1, <3>2 DEF HandlerTimes, HandlerState
  <2>. QED  BY <2>1, <2>2
<1>4. CASE SelectCards(h)
  <2>1. CASE Selected(handler[h].from) = {}
    <3>1. handler'[h] = [handler[h] EXCEPT !.pc = "reply"]
      BY <1>2, <1>4, <2>1 DEF SelectCards
    <3>. QED  BY <1>1, <3>1 DEF HandlerTimes, HandlerState
  <2>2. CASE Selected(handler[h].from) # {}
    <3>1. PICK its, to :
              handler' = [handler EXCEPT ![h] =
                  [handler[h] EXCEPT !.pc = "put", !.items = its, !.to = to]]
      BY <1>4, <2>2 DEF SelectCards
    <3>2. handler'[h] = [handler[h] EXCEPT !.pc = "put", !.items = its, !.to = to]
      BY <1>2, <3>1
    <3>. QED  BY <1>1, <3>2 DEF HandlerTimes, HandlerState
  <2>. QED  BY <2>1, <2>2
<1>5. CASE PutBatch(h)
  <2>1. handler'[h] = [handler[h] EXCEPT !.pc = "reply", !.id = Len(batch) + 1]
    BY <1>1, <1>5 DEF PutBatch
  <2>. QED  BY <1>1, <2>1 DEF HandlerTimes, HandlerState
<1>6. CASE RefuseAck(h)
  <2>1. handler'[h] = [handler[h] EXCEPT !.pc = "reply"]
    BY <1>2, <1>6 DEF RefuseAck
  <2>. QED  BY <1>1, <2>1 DEF HandlerTimes, HandlerState
<1>7. CASE BeginAck(h)
  <2>1. handler'[h] = [handler[h] EXCEPT !.pc = "stamp", !.now = clock',
                               !.todo = Applied(handler[h].results)]
    BY <1>2, <1>7 DEF BeginAck
  <2>. QED  BY <1>1, <1>7, <2>1 DEF HandlerTimes, HandlerState
<1>8. ASSUME NEW c \in Cards, ReadCard(h, c) PROVE HandlerTimes(h)
  <2>1. handler'[h] = [handler[h] EXCEPT !.pc = "write", !.key = c, !.rec = card[c]]
    BY <1>2, <1>8 DEF ReadCard
  <2>. QED  BY <1>1, <2>1 DEF HandlerTimes, HandlerState
<1>9. CASE WriteCard(h)
  <2>1. handler'[h] = [handler[h] EXCEPT !.pc = "stamp",
                               !.todo = handler[h].todo \ {handler[h].key},
                               !.key = Absent, !.rec = NoCard]
    BY <1>2, <1>9 DEF WriteCard
  <2>. QED  BY <1>1, <2>1 DEF HandlerTimes, HandlerState
<1>10. CASE MarkAcked(h)
  <2>1. handler'[h] = [handler[h] EXCEPT !.pc = IF batch[handler[h].id].acked
                                      THEN "reply" ELSE "cursor"]
    BY <1>2, <1>10 DEF MarkAcked
  <2>. QED  BY <1>1, <2>1 DEF HandlerTimes, HandlerState
<1>11. CASE SetCursor(h)
  <2>1. handler'[h] = [handler[h] EXCEPT !.pc = "reply", !.ok = TRUE]
    BY <1>1, <1>11 DEF SetCursor
  <2>. QED  BY <1>1, <2>1 DEF HandlerTimes, HandlerState
<1>12. CASE DropAnswer(h)
  <2>1. handler'[h] = IdleHandler
    BY <1>2, <1>12 DEF DropAnswer
  <2>. QED  BY <2>1 DEF HandlerTimes, IdleHandler
<1>. QED
  BY <1>3, <1>4, <1>5, <1>6, <1>7, <1>8, <1>9, <1>10, <1>11, <1>12
  DEF HandlerStep

\* What the agent and the faults may do to a thread: give it a request, or have
\* nobody wait for it.
LEMMA HandlerOther ==
    ASSUME TypeOK, [Next]_vars, NEW h \in Handlers, ~HandlerStep(h)
    PROVE  \/ handler'[h] = handler[h]
           \/ handler'[h] = IdleHandler
           \/ \E g \in Handlers : HandlerStep(g) /\ g # h
           \/ /\ handler'[h].pc \in {"open", "check"}
              /\ handler'[h].to = 0 /\ handler'[h].from \in {0, saved}
<1> USE DEF server, desktop
<1>1. handler \in [Handlers -> HandlerState]
  BY DEF TypeOK
<1>2. ASSUME NEW g \in Handlers, FetchPending(g) \/ PostAck(g)
      PROVE  \/ handler'[h] = handler[h]
             \/ /\ handler'[h].pc \in {"open", "check"}
                /\ handler'[h].to = 0 /\ handler'[h].from \in {0, saved}
  <2>1. CASE FetchPending(g)
    BY <1>1, <2>1 DEF FetchPending, IdleHandler
  <2>2. CASE PostAck(g)
    BY <1>1, <2>2 DEF PostAck, IdleHandler
  <2>. QED  BY <1>2, <2>1, <2>2
<1>3. ASSUME NEW g \in Handlers, ReceiveBatch(g) \/ ReceiveAck(g) \/ LoseRequest(g)
      PROVE  handler'[h] = handler[h] \/ handler'[h] = IdleHandler
  BY <1>1, <1>3 DEF ReceiveBatch, ReceiveAck, LoseRequest
<1>4. CrashServer => handler'[h] = IdleHandler
  BY DEF CrashServer
<1>5. \/ handler' = handler
      \/ \E g \in Handlers : HandlerStep(g)
      \/ \E g \in Handlers : FetchPending(g) \/ PostAck(g)
      \/ \E g \in Handlers : ReceiveBatch(g) \/ ReceiveAck(g) \/ LoseRequest(g)
      \/ CrashServer
  BY DEF Next, AgentStep, vars, MakeRecord, StoreCard, ApplyItem, FailItem,
      StageInflight, SaveCursor, EditNote, GiveUp, CrashAgent
<1>. QED  BY <1>2, <1>3, <1>4, <1>5

\* The marks after a step were marks before it, but for the cursor of a batch
\* that is put.
LEMMA MarkOrigin ==
    ASSUME TypeInv, [Next]_vars, NEW t, IsMark(t)'
    PROVE  \/ IsMark(t)
           \/ \E h \in Handlers : /\ PutBatch(h) /\ handler[h].pc = "put"
                                  /\ t = handler[h].to
<1> USE DEF server, desktop
<1>1. TypeOK /\ ShapeInv
  BY DEF TypeInv
<1>2. /\ agent \in AgentState /\ handler \in [Handlers -> HandlerState]
      /\ inflight # Absent => inflight \in [id : Nat, to : Nat, results : Results]
  BY <1>1 DEF TypeOK
<1>3. cursor' = cursor \/ \E i \in DOMAIN batch : cursor' = batch[i].cursor
  <2>1. ASSUME NEW h \in Handlers, SetCursor(h)
        PROVE  \E i \in DOMAIN batch : cursor' = batch[i].cursor
    BY <1>1, <2>1 DEF SetCursor, ShapeInv
  <2>. QED
    BY <2>1
    DEF Next, HandlerStep, AgentStep, vars, MakeRecord, StoreCard, FindOpenBatch,
     SelectCards, PutBatch, RefuseAck, BeginAck, ReadCard, WriteCard, MarkAcked,
     DropAnswer, FetchPending, ReceiveBatch, ApplyItem, FailItem,
     StageInflight, PostAck, ReceiveAck, SaveCursor, EditNote, LoseRequest,
     GiveUp, CrashAgent, CrashServer
<1>4. saved' = saved \/ saved' = agent.to
  BY DEF Next, HandlerStep, AgentStep, vars, MakeRecord, StoreCard, FindOpenBatch,
     SelectCards, PutBatch, RefuseAck, BeginAck, ReadCard, WriteCard, MarkAcked,
     SetCursor, DropAnswer, FetchPending, ReceiveBatch, ApplyItem, FailItem,
     StageInflight, PostAck, ReceiveAck, SaveCursor, EditNote, LoseRequest,
     GiveUp, CrashAgent, CrashServer
<1>5. inflight' # Absent => inflight' = inflight \/ inflight'.to = agent.to
  <2>1. StageInflight => inflight'.to = agent.to
    BY DEF StageInflight
  <2>2. ASSUME NEW h \in Handlers, ReceiveAck(h)
        PROVE  inflight' = inflight \/ inflight' = Absent
    BY <2>2 DEF ReceiveAck
  <2>. QED
    BY <2>1, <2>2
    DEF Next, HandlerStep, AgentStep, vars, MakeRecord, StoreCard, FindOpenBatch,
     SelectCards, PutBatch, RefuseAck, BeginAck, ReadCard, WriteCard, MarkAcked,
     SetCursor, DropAnswer, FetchPending, ReceiveBatch, ApplyItem, FailItem,
     PostAck, SaveCursor, EditNote, LoseRequest, GiveUp, CrashAgent, CrashServer
<1>6. \/ agent'.to = agent.to \/ agent'.to = 0
      \/ inflight # Absent /\ agent'.to = inflight.to
      \/ \E h \in Handlers : handler[h].pc = "reply" /\ agent'.to = handler[h].to
  <2>1. IdleAgent.to = 0
    BY DEF IdleAgent
  <2>2. ASSUME NEW c \in Cards, NEW status, NEW fields, Finish(c, status, fields)
        PROVE  agent'.to = agent.to
    BY <1>2, <2>2 DEF Finish, AgentState
  <2>3. ASSUME NEW h \in Handlers, FetchPending(h) PROVE agent'.to = 0
    BY <2>3 DEF FetchPending, IdleAgent
  <2>4. ASSUME NEW h \in Handlers, ReceiveBatch(h)
        PROVE  agent'.to = 0 \/ (handler[h].pc = "reply" /\ agent'.to = handler[h].to)
    BY <2>4 DEF ReceiveBatch, IdleAgent
  <2>5. ASSUME NEW h \in Handlers, PostAck(h)
        PROVE  inflight # Absent /\ agent'.to = inflight.to
    BY <2>5 DEF PostAck, IdleAgent
  <2>6. ASSUME NEW h \in Handlers, ReceiveAck(h)
        PROVE  agent'.to = 0 \/ agent'.to = agent.to
    <3>1. CASE handler[h].ok
      BY <2>6, <3>1 DEF ReceiveAck, IdleAgent
    <3>2. CASE ~handler[h].ok
      BY <2>6, <3>2 DEF ReceiveAck, IdleAgent
    <3>. QED  BY <3>1, <3>2
  <2>7. ASSUME NEW c \in Cards, ApplyItem(c) \/ FailItem(c) PROVE agent'.to = agent.to
    BY <2>2, <2>7 DEF ApplyItem, FailItem, AddNote, MergeNote
  <2>8. StageInflight => agent'.to = agent.to
    BY <1>2 DEF StageInflight, AgentState
  <2>9. \/ agent' = agent \/ agent' = IdleAgent
        \/ \E h \in Handlers : \/ FetchPending(h) \/ ReceiveBatch(h)
                               \/ PostAck(h) \/ ReceiveAck(h)
        \/ \E c \in Cards : ApplyItem(c) \/ FailItem(c)
        \/ StageInflight
    BY DEF Next, HandlerStep, AgentStep, vars, MakeRecord, StoreCard, FindOpenBatch,
     SelectCards, PutBatch, RefuseAck, BeginAck, ReadCard, WriteCard, MarkAcked,
     SetCursor, DropAnswer, SaveCursor, EditNote, LoseRequest,
     GiveUp, CrashAgent, CrashServer
  <2>. QED  BY <2>1, <2>3, <2>4, <2>5, <2>6, <2>7, <2>8, <2>9
<1>7. ASSUME NEW i \in DOMAIN batch', t = batch'[i].cursor
      PROVE  \/ IsMark(t)
             \/ \E h \in Handlers : PutBatch(h) /\ t = handler[h].to
  BY <1>1, <1>7, BatchKept DEF IsMark
<1>8. ASSUME NEW h \in Handlers,
             t = handler'[h].from \/ (handler'[h].pc # "put" /\ t = handler'[h].to)
      PROVE  IsMark(t) \/ \E g \in Handlers : PutBatch(g) /\ t = handler[g].to
  <2>1. CASE HandlerStep(h)
    <3>1. HandlerTimes(h) /\ HandlerEffect(h)
      BY <1>1, <2>1, HandlerTimed, HandlerEffects
    <3>2. CASE handler[h].pc # "put"
      BY <1>8, <3>1, <3>2 DEF HandlerTimes, IsMark
    <3>3. CASE handler[h].pc = "put"
      <4>1. PutBatch(h) \/ handler'[h] = IdleHandler
        BY <3>1, <3>3 DEF HandlerEffect
      <4>. QED  BY <1>8, <3>1, <4>1 DEF HandlerTimes, IsMark, IdleHandler
    <3>. QED  BY <3>2, <3>3
  <2>2. CASE \E g \in Handlers : HandlerStep(g) /\ g # h
    <3>1. handler'[h] = handler[h]
      BY <1>1, <2>2, HandlerEffects
    <3>. QED  BY <1>8, <3>1 DEF IsMark
  <2>3. CASE ~HandlerStep(h) /\ ~(\E g \in Handlers : HandlerStep(g) /\ g # h)
    <3>1. \/ handler'[h] = handler[h]
          \/ handler'[h].to = 0 /\ handler'[h].from \in {0, saved}
      BY <1>1, <2>3, HandlerOther DEF IdleHandler
    <3>. QED  BY <1>8, <3>1 DEF IsMark
  <2>. QED  BY <2>1, <2>2, <2>3
<1>9. \A h \in Handlers : PutBatch(h) => handler[h].pc = "put"
  BY DEF PutBatch
<1>10. \/ t = 0 \/ t = cursor' \/ t = saved' \/ t = agent'.to
       \/ inflight' # Absent /\ t = inflight'.to
       \/ \E i \in DOMAIN batch' : t = batch'[i].cursor
       \/ \E h \in Handlers : \/ t = handler'[h].from
                              \/ handler'[h].pc # "put" /\ t = handler'[h].to
  BY DEF IsMark
<1>11. CASE t = 0 \/ t = cursor' \/ t = saved'
  BY <1>3, <1>4, <1>11 DEF IsMark
<1>12. CASE t = agent'.to
  BY <1>6, <1>12 DEF IsMark
<1>13. CASE inflight' # Absent /\ t = inflight'.to
  BY <1>5, <1>13 DEF IsMark
<1>. QED  BY <1>7, <1>8, <1>9, <1>10, <1>11, <1>12, <1>13

\* What the one thread of the server does on its way to put a batch and to write
\* a card back.
LEMMA ThreadSteps ==
    ASSUME SerialServer, TypeOK, [Next]_vars, NEW h \in Handlers,
           handler'[h].pc \in {"put", "stamp", "write"}
    PROVE  \/ handler'[h] = handler[h] /\ \A g \in Handlers : ~HandlerStep(g)
           \/ SelectCards(h) /\ handler'[h].pc = "put"
           \/ BeginAck(h) /\ handler'[h].pc = "stamp" /\ handler'[h].now = clock'
           \/ \E c \in Cards :
                  /\ ReadCard(h, c) /\ handler[h].pc = "stamp"
                  /\ handler'[h].pc = "write" /\ handler'[h].now = handler[h].now
                  /\ handler'[h].key = c /\ handler'[h].rec = card[c]
           \/ /\ WriteCard(h) /\ handler[h].pc = "write"
              /\ handler'[h].pc = "stamp" /\ handler'[h].now = handler[h].now
<1>1. CASE HandlerStep(h)
  <2>1. HandlerEffect(h) /\ HandlerTimes(h)
    BY <1>1, HandlerEffects, HandlerTimed
  <2>2. BeginAck(h) => handler[h].pc = "check"
    BY DEF BeginAck
  <2>3. handler'[h].pc # "idle" /\ handler'[h] # IdleHandler
    BY DEF IdleHandler
  <2>4. \/ SelectCards(h) /\ handler'[h].pc = "put"
        \/ BeginAck(h) /\ handler'[h].pc = "stamp"
        \/ \E c \in Cards :
               /\ ReadCard(h, c) /\ handler[h].pc = "stamp"
               /\ handler'[h].pc = "write"
               /\ handler'[h].key = c /\ handler'[h].rec = card[c]
        \/ WriteCard(h) /\ handler[h].pc = "write" /\ handler'[h].pc = "stamp"
    BY <2>1, <2>3 DEF HandlerEffect
  <2>5. \/ handler'[h].now = handler[h].now
        \/ handler[h].pc = "check" /\ handler'[h].now = clock'
    BY <2>1, <2>2, <2>3 DEF HandlerTimes
  <2>6. CASE BeginAck(h)
    <3>1. handler'[h].now = clock'
      BY <2>6 DEF BeginAck, TypeOK, HandlerState
    <3>2. handler'[h].pc = "stamp"
      BY <2>2, <2>4, <2>6 DEF SelectCards
    <3>. QED  BY <2>6, <3>1, <3>2
  <2>. QED  BY <2>4, <2>5, <2>6
<1>2. CASE ~HandlerStep(h)
  <2>1. \A g \in Handlers : ~HandlerStep(g)
    BY <1>2 DEF SerialServer
  <2>. QED  BY <1>2, <2>1, HandlerOther DEF IdleHandler
<1>. QED  BY <1>1, <1>2

\* What a thread that found cards to deliver has cut.
LEMMA SelectEffect ==
    ASSUME TypeOK, NEW h \in Handlers, SelectCards(h), handler'[h].pc = "put"
    PROVE  /\ card' = card /\ clock' = clock /\ Selected(handler[h].from) # {}
           /\ handler'[h].to = LastStamp(Selected(handler[h].from))
           /\ \A c \in Selected(handler[h].from) :
                  /\ handler'[h].items[c] # Absent
                  /\ handler'[h].items[c].content = card[c].content
<1> DEFINE S == Selected(handler[h].from)
           its == [c \in Cards |-> IF c \in S
                      THEN [content |-> card[c].content, base |-> card[c].base]
                      ELSE Absent]
<1>1. handler \in [Handlers -> HandlerState] /\ card \in [Cards -> CardRecord]
      /\ handler[h] \in HandlerState
  BY DEF TypeOK
<1>2. S # {}
  <2> SUFFICES ASSUME S = {} PROVE FALSE
    OBVIOUS
  <2>1. handler'[h] = [handler[h] EXCEPT !.pc = "reply"]
    BY <1>1 DEF SelectCards
  <2>. QED  BY <1>1, <2>1 DEF HandlerState
<1>3. handler'[h] = [handler[h] EXCEPT !.pc = "put", !.items = its, !.to = LastStamp(S)]
  BY <1>1, <1>2 DEF SelectCards
<1>4. S \subseteq Cards
  BY DEF Selected
<1>5. ASSUME NEW c \in S
      PROVE  its[c] # Absent /\ its[c].content = card[c].content
  <2>1. its[c] = [content |-> card[c].content, base |-> card[c].base]
    BY <1>4
  <2>2. its[c] \in Item
    BY <1>1, <1>4, <2>1 DEF Item, CardRecord
  <2>. QED  BY <2>1, <2>2, AbsentDistinct
<1> HIDE DEF its
<1>6. handler'[h].to = LastStamp(S) /\ handler'[h].items = its
  BY <1>1, <1>3 DEF HandlerState
<1>7. card' = card /\ clock' = clock
  BY DEF SelectCards, server
<1>. QED  BY <1>2, <1>5, <1>6, <1>7

\* A record written back awaits its batch as it did when it was read.
LEMMA BackAwaits ==
    ASSUME TypeInv, SkipInv, NEW h \in Handlers, handler[h].pc = "write",
           NEW c \in Cards, c = handler[h].key, NEW t \in Nat, IsMark(t),
           NEW r, r = [handler[h].rec EXCEPT
                           !.synced = handler[h].now,
                           !.base = handler[h].results[c].fields]
    PROVE  /\ Awaits(c, r, t)
           /\ r.updated = handler[h].rec.updated /\ r.synced = handler[h].now
<1>1. TypeOK
  BY DEF TypeInv
<1>2. /\ handler[h].rec \in CardRecord
      /\ handler[h].rec.updated \in Nat /\ handler[h].now \in Nat
  BY <1>1, SkipTypes
<1>3. /\ r.content = handler[h].rec.content
      /\ r.updated = handler[h].rec.updated /\ r.synced = handler[h].now
  BY <1>2 DEF CardRecord
<1>4. 0 < handler[h].now
  BY DEF SkipInv, BackInv
<1>5. Due(r) => r.content # 0 /\ r.updated > handler[h].now
  BY <1>2, <1>3, <1>4 DEF Due
<1>6. r.content # 0 /\ r.updated > handler[h].now =>
          r.updated > t \/ Offered(c, r.content)
  BY <1>3 DEF SkipInv, BackInv
<1>. QED  BY <1>3, <1>5, <1>6 DEF Awaits

\* The marks pass no card without its being offered.
LEMMA MarkStep ==
    ASSUME TypeInv, SkipInv, [Next]_vars PROVE MarkInv'
<1>1. TypeOK /\ SkipInv
  BY DEF TypeInv
<1>2. clock \in Nat /\ clock' \in Nat /\ clock <= clock'
  BY <1>1, ClockForward
<1> SUFFICES ASSUME NEW t \in Nat, IsMark(t)'
             PROVE  t <= clock' /\ \A c \in Cards : Awaits(c, card[c], t)'
  BY DEF MarkInv
<1>3. CASE IsMark(t)
  <2>1. t <= clock'
    BY <1>1, <1>2, <1>3 DEF SkipInv, MarkInv
  <2>2. ASSUME NEW c \in Cards PROVE Awaits(c, card[c], t)'
    <3>1. PICK r : r = card'[c]
      OBVIOUS
    <3>2. r = card[c] => Awaits(c, r, t)
      BY <1>1, <1>3 DEF SkipInv, MarkInv
    <3>3. ASSUME NEW k \in Ingesters, StoreCard(k), r = ingester[k].rec
          PROVE  Awaits(c, r, t)
      BY <1>3, <3>3, SkipTypes, <1>1 DEF SkipInv, NewInv, StoreCard, Awaits
    <3>4. ASSUME NEW h \in Handlers, WriteCard(h), c = handler[h].key,
                 r = [handler[h].rec EXCEPT
                          !.synced = handler[h].now,
                          !.base = handler[h].results[c].fields]
          PROVE  Awaits(c, r, t)
      <4>1. handler[h].pc = "write"
        BY <3>4 DEF WriteCard
      <4>. QED  BY <1>3, <3>4, <4>1, BackAwaits
    <3>5. Awaits(c, r, t)
      BY <3>1, <3>2, <3>3, <3>4, CardOrigin
    <3>6. Awaits(c, r, t)'
      BY <1>1, <3>5, AwaitsStays
    <3>. QED  BY <3>1, <3>6 DEF Awaits, Offered
  <2>. QED  BY <2>1, <2>2
<1>4. ASSUME NEW h \in Handlers, PutBatch(h), handler[h].pc = "put",
             t = handler[h].to
      PROVE  t <= clock' /\ \A c \in Cards : Awaits(c, card[c], t)'
  <2>1. t <= clock'
    BY <1>1, <1>2, <1>4 DEF SkipInv, CutInv
  <2>2. ASSUME NEW c \in Cards PROVE Awaits(c, card[c], t)'
    <3>1. PICK r : r = card[c]
      OBVIOUS
    <3>2. card'[c] = r
      BY <1>4, <3>1 DEF PutBatch
    <3>3. \/ Awaits(c, r, t)
          \/ handler[h].items[c] # Absent /\ handler[h].items[c].content = r.content
      BY <1>1, <1>4, <3>1 DEF SkipInv, CutInv
    <3>4. Awaits(c, r, t)' \/ Offered(c, r.content)'
      BY <1>1, <1>4, <3>3, AwaitsStays, OfferedStays
    <3>. QED  BY <3>2, <3>4 DEF Awaits, Offered
  <2>. QED  BY <2>1, <2>2
<1>. QED  BY <1>3, <1>4, MarkOrigin

\* A batch that is cut has every card its cursor passes.
LEMMA CutStep ==
    ASSUME SerialServer, TypeInv, SkipInv, [Next]_vars PROVE CutInv'
<1>1. TypeOK /\ StampInv
  BY DEF TypeInv
<1>2. clock \in Nat /\ clock' \in Nat /\ clock <= clock'
  BY <1>1, ClockForward
<1> SUFFICES ASSUME NEW h \in Handlers, handler'[h].pc = "put"
             PROVE  /\ handler'[h].to <= clock'
                    /\ \A c \in Cards :
                           \/ Awaits(c, card[c], handler[h].to)'
                           \/ /\ handler'[h].items[c] # Absent
                              /\ handler'[h].items[c].content = card'[c].content
  BY DEF CutInv
<1>3. CASE handler'[h] = handler[h] /\ \A g \in Handlers : ~HandlerStep(g)
  <2>1. handler[h].to <= clock /\ handler[h].to \in Nat
    BY <1>1, <1>3, SkipTypes DEF SkipInv, CutInv
  <2>2. ASSUME NEW c \in Cards
        PROVE  \/ Awaits(c, card[c], handler[h].to)'
               \/ /\ handler[h].items[c] # Absent
                  /\ handler[h].items[c].content = card'[c].content
    <3>1. PICK r, t : r = card'[c] /\ t = handler[h].to
      OBVIOUS
    <3>2. \A g \in Handlers : ~WriteCard(g)
      BY <1>3 DEF HandlerStep
    <3>3. CASE r = card[c]
      <4>1. \/ Awaits(c, r, t)
            \/ handler[h].items[c] # Absent /\ handler[h].items[c].content = r.content
        BY <1>3, <3>1, <3>3 DEF SkipInv, CutInv
      <4>2. Awaits(c, r, t) => Awaits(c, r, t)'
        BY <1>1, AwaitsStays
      <4>. QED  BY <1>3, <3>1, <4>1, <4>2 DEF Awaits, Offered
    <3>4. ASSUME NEW k \in Ingesters, StoreCard(k), r = ingester[k].rec
          PROVE  Awaits(c, r, t)
      <4>1. r.updated > t /\ r.updated \in Nat
        BY <1>1, <1>3, <2>1, <3>1, <3>4, SkipTypes DEF SkipInv, NewInv, StoreCard
      <4>. QED  BY <4>1 DEF Awaits
    <3>5. Awaits(c, r, t) => Awaits(c, r, t)'
      BY <1>1, AwaitsStays
    <3>6. r = card[c] \/ \E k \in Ingesters : StoreCard(k) /\ r = ingester[k].rec
      BY <3>1, <3>2, CardOrigin
    <3>7. Awaits(c, r, t)' => Awaits(c, card[c], handler[h].to)'
      BY <1>3, <3>1 DEF Awaits, Offered
    <3>. QED  BY <3>3, <3>4, <3>5, <3>6, <3>7
  <2>. QED  BY <1>2, <1>3, <2>1, <2>2
<1>4. CASE SelectCards(h)
  <2> DEFINE S == Selected(handler[h].from)
             to == LastStamp(S)
  <2>1. /\ card' = card /\ S # {} /\ handler'[h].to = to
        /\ \A c \in S : /\ handler'[h].items[c] # Absent
                        /\ handler'[h].items[c].content = card[c].content
    BY <1>1, <1>4, SelectEffect
  <2>2. S \in SUBSET Cards
    BY DEF Selected
  <2>3. /\ to \in {card[c].updated : c \in S}
        /\ \A c \in S : card[c].updated <= to
        /\ to \in Nat
    BY <1>1, <2>1, <2>2, LastStampTypes
  <2>4. handler'[h].to <= clock'
    <3>1. PICK c \in S : to = card[c].updated
      BY <2>3
    <3>2. to <= clock
      BY <1>1, <2>2, <3>1 DEF StampInv
    <3>. QED  BY <1>2, <2>1, <2>3, <3>2
  <2>5. ASSUME NEW c \in Cards, c \notin S
        PROVE  Awaits(c, card[c], handler[h].to)'
    <3> DEFINE P == Position(handler[h].from)
    <3>1. P \in Nat /\ IsMark(P) /\ handler[h].from \in Nat
      <4>1. IsMark(P)
        BY DEF Position, IsMark
      <4>. QED  BY <1>1, <4>1, SkipTypes
    <3>2. Awaits(c, card[c], P)
      BY <3>1 DEF SkipInv, MarkInv
    <3>3. card[c].updated \in Nat
      BY <1>1, SkipTypes
    <3>4. Due(card[c]) => NeedsSync(c)
      BY DEF Due, NeedsSync
    <3>5. Due(card[c]) /\ card[c].updated > P => card[c].updated > to
      BY <1>1, <2>1, <2>3, <2>5, <3>1, <3>3, <3>4, SelectedFirst
    <3>6. Awaits(c, card[c], to)
      BY <3>2, <3>5 DEF Awaits
    <3>7. PICK r, t : r = card[c] /\ t = to
      OBVIOUS
    <3>8. Awaits(c, r, t)'
      BY <1>1, <3>6, <3>7, AwaitsStays
    <3>9. card'[c] = r /\ handler'[h].to = t
      BY <2>1, <3>7
    <3>. QED  BY <3>8, <3>9 DEF Awaits, Offered
  <2>. QED  BY <2>1, <2>4, <2>5
<1>. QED  BY <1>1, <1>3, <1>4, ThreadSteps

\* Rows after a step: as they were, as a new record has it, or as read by an ack.
LEMMA RowTimes ==
    ASSUME TypeInv, SkipInv, [Next]_vars, NEW c \in Cards
    PROVE  \/ card'[c] = card[c]
           \/ card'[c].synced = 0
           \/ \E h \in Handlers :
                  /\ WriteCard(h) /\ handler[h].pc = "write"
                  /\ card'[c].updated = handler[h].rec.updated
                  /\ card'[c].synced = handler[h].now
<1>1. ASSUME NEW k \in Ingesters, StoreCard(k), card'[c] = ingester[k].rec
      PROVE  card'[c].synced = 0
  BY <1>1 DEF StoreCard, SkipInv, NewInv
<1>2. ASSUME NEW h \in Handlers, WriteCard(h),
             card'[c] = [handler[h].rec EXCEPT
                             !.synced = handler[h].now,
                             !.base = handler[h].results[c].fields]
      PROVE  /\ handler[h].pc = "write"
             /\ card'[c].updated = handler[h].rec.updated
             /\ card'[c].synced = handler[h].now
  <2>1. handler[h].rec \in CardRecord
    BY SkipTypes DEF TypeInv
  <2>. QED  BY <1>2, <2>1 DEF WriteCard, CardRecord
<1>. QED  BY <1>1, <1>2, CardOrigin

\* No delivery is stamped ahead of the clock.
LEMMA SyncedStep ==
    ASSUME TypeInv, SkipInv, [Next]_vars PROVE SyncedInv'
<1>1. TypeOK
  BY DEF TypeInv
<1>2. clock \in Nat /\ clock' \in Nat /\ clock <= clock'
  BY <1>1, ClockForward
<1> SUFFICES ASSUME NEW c \in Cards PROVE card'[c].synced <= clock'
  BY DEF SyncedInv
<1>3. CASE card'[c] = card[c]
  BY <1>1, <1>2, <1>3, SkipTypes DEF SkipInv, SyncedInv
<1>4. ASSUME NEW h \in Handlers, handler[h].pc = "write",
             card'[c].synced = handler[h].now
      PROVE  card'[c].synced <= clock'
  BY <1>1, <1>2, <1>4, SkipTypes DEF SkipInv, BackInv
<1>. QED  BY <1>2, <1>3, <1>4, RowTimes

\* What an ack writes back has not been passed by a mark since it was read.
LEMMA BackStep ==
    ASSUME SerialServer, TypeInv, SkipInv, [Next]_vars PROVE BackInv'
<1>1. TypeOK
  BY DEF TypeInv
<1>2. clock \in Nat /\ clock' \in Nat /\ clock <= clock'
  BY <1>1, ClockForward
<1>3. ASSUME NEW h \in Handlers, handler'[h].pc \in {"stamp", "write"}
      PROVE  /\ 0 < handler'[h].now /\ handler'[h].now <= clock'
             /\ \A c \in Cards : card'[c].synced <= handler'[h].now
  <2>1. CASE BeginAck(h) /\ handler'[h].now = clock'
    <3>1. clock' = clock + 1 /\ card' = card
      BY <2>1 DEF BeginAck, ReadClock, server
    <3>. QED  BY <1>1, <1>2, <2>1, <3>1, SkipTypes DEF SkipInv, SyncedInv
  <2>2. CASE handler[h].pc \in {"stamp", "write"} /\ handler'[h].now = handler[h].now
    <3>1. /\ 0 < handler[h].now /\ handler[h].now <= clock
          /\ \A c \in Cards : card[c].synced <= handler[h].now
          /\ handler[h].now \in Nat
      BY <1>1, <2>2, SkipTypes DEF SkipInv, BackInv
    <3>2. ASSUME NEW c \in Cards PROVE card'[c].synced <= handler[h].now
      <4>1. \A g \in Handlers : g = h
        BY DEF SerialServer
      <4>. QED  BY <3>1, <4>1, RowTimes
    <3>. QED  BY <1>2, <2>2, <3>1, <3>2
  <2>3. ASSUME NEW c, ReadCard(h, c) PROVE handler[h].pc = "stamp"
    BY <2>3 DEF ReadCard
  <2>. QED  BY <1>1, <1>3, <2>1, <2>2, ThreadSteps
<1>4. ASSUME NEW h \in Handlers, handler'[h].pc = "write",
             handler'[h].rec.content # 0,
             handler'[h].rec.updated > handler'[h].now,
             NEW t \in Nat, IsMark(t)'
      PROVE  \/ handler'[h].rec.updated > t
             \/ Offered(handler[h].key, handler[h].rec.content)'
  <2>1. \/ handler'[h] = handler[h] /\ \A g \in Handlers : ~HandlerStep(g)
        \/ \E c \in Cards :
              /\ ReadCard(h, c) /\ handler[h].pc = "stamp"
              /\ handler'[h].pc = "write" /\ handler'[h].now = handler[h].now
              /\ handler'[h].key = c /\ handler'[h].rec = card[c]
    BY <1>1, <1>4, ThreadSteps
  <2>2. IsMark(t)
    <3>1. ASSUME NEW g \in Handlers, PutBatch(g) PROVE FALSE
      <4>1. g = h
        BY DEF SerialServer
      <4>2. handler[h].pc = "put" /\ HandlerStep(h)
        BY <3>1, <4>1 DEF PutBatch, HandlerStep
      <4>. QED  BY <2>1, <4>2
    <3>. QED  BY <1>4, <3>1, MarkOrigin
  <2>3. CASE handler'[h] = handler[h] /\ \A g \in Handlers : ~HandlerStep(g)
    <3>1. PICK c, v : c = handler[h].key /\ v = handler[h].rec.content
      OBVIOUS
    <3>2. c \in Cards
      BY <1>1, <1>4, <2>3, <3>1, SkipTypes DEF TypeInv, ShapeInv, HandlerState
    <3>3. handler[h].rec.updated > t \/ Offered(c, v)
      BY <1>4, <2>2, <2>3, <3>1 DEF SkipInv, BackInv
    <3>4. Offered(c, v) => Offered(c, v)'
      BY <1>1, <3>2, OfferedStays
    <3>. QED  BY <2>3, <3>1, <3>3, <3>4 DEF Offered
  <2>4. ASSUME NEW c \in Cards, handler[h].pc = "stamp",
               handler'[h].now = handler[h].now,
               handler'[h].key = c, handler'[h].rec = card[c]
        PROVE  \/ handler'[h].rec.updated > t
               \/ Offered(handler[h].key, handler[h].rec.content)'
    <3>1. card[c].synced <= handler[h].now
      BY <2>4 DEF SkipInv, BackInv
    <3>2. Due(card[c])
      BY <1>1, <1>4, <2>4, <3>1, SkipTypes DEF Due
    <3>3. PICK v : v = card[c].content
      OBVIOUS
    <3>4. card[c].updated > t \/ Offered(c, v)
      BY <2>2, <3>2, <3>3 DEF SkipInv, MarkInv, Awaits
    <3>5. Offered(c, v) => Offered(c, v)'
      BY <1>1, OfferedStays
    <3>. QED  BY <2>4, <3>3, <3>4, <3>5 DEF Offered
  <2>. QED  BY <2>1, <2>3, <2>4
<1>. QED  BY <1>3, <1>4 DEF BackInv

\* What a writer does to its record.
LEMMA WriterSteps ==
    ASSUME TypeOK, [Next]_vars, NEW k \in Ingesters, ingester'[k].pc = "store"
    PROVE  \/ /\ ingester'[k] = ingester[k]
              /\ ~StoreCard(k)
           \/ /\ card' = card /\ handler' = handler
              /\ ingester'[k].rec.updated = clock + 1
              /\ ingester'[k].rec.synced = 0
<1> USE DEF server, desktop
<1>1. ingester \in [Ingesters -> [pc : {"idle", "store"}, rec : CardRecord,
                                  key : Cards \cup {Absent}]]
  BY DEF TypeOK
<1>2. ASSUME NEW j \in Ingesters, StoreCard(j)
      PROVE  ingester'[k] = ingester[k] /\ ~StoreCard(k)
  <2>1. ingester'[j].pc # "store"
    BY <1>1, <1>2 DEF StoreCard, IdleIngester
  <2>2. ingester'[k] = ingester[k] /\ j # k
    BY <1>1, <1>2, <2>1 DEF StoreCard
  <2>3. ~StoreCard(k)
    BY <1>1, <2>2 DEF StoreCard, IdleIngester
  <2>. QED  BY <2>2, <2>3
<1>3. ASSUME NEW j \in Ingesters, NEW c \in Cards, NEW v \in 1..MaxVersion,
             MakeRecord(j, c, v)
      PROVE  \/ ingester'[k] = ingester[k] /\ ~StoreCard(k)
             \/ /\ card' = card /\ handler' = handler
                /\ ingester'[k].rec.updated = clock + 1
                /\ ingester'[k].rec.synced = 0
  <2>1. card' = card /\ handler' = handler /\ clock' = clock + 1
    BY <1>3 DEF MakeRecord, ReadClock
  <2>2. CASE j = k
    <3>1. ingester'[k].rec = [NoCard EXCEPT !.content = v, !.updated = clock']
      BY <1>1, <1>3, <2>2 DEF MakeRecord
    <3>2. ingester'[k].rec.updated = clock' /\ ingester'[k].rec.synced = 0
      BY <3>1 DEF NoCard
    <3>. QED  BY <2>1, <3>2
  <2>3. CASE j # k
    <3>1. ingester'[k] = ingester[k]
      BY <1>1, <1>3, <2>3 DEF MakeRecord
    <3>2. ~StoreCard(k)
      BY <1>1, <3>1 DEF StoreCard, IdleIngester
    <3>. QED  BY <3>1, <3>2
  <2>. QED  BY <2>2, <2>3
<1>4. CASE ingester' = ingester
  <2>1. ~StoreCard(k)
    BY <1>1, <1>4 DEF StoreCard, IdleIngester
  <2>. QED  BY <1>4, <2>1
<1>5. \/ ingester' = ingester
      \/ \E j \in Ingesters : StoreCard(j)
      \/ \E j \in Ingesters, c \in Cards, v \in 1..MaxVersion : MakeRecord(j, c, v)
  BY DEF Next, HandlerStep, AgentStep, vars, FindOpenBatch,
     SelectCards, PutBatch, RefuseAck, BeginAck, ReadCard, WriteCard, MarkAcked,
     SetCursor, DropAnswer, FetchPending, ReceiveBatch, ApplyItem, FailItem,
     StageInflight, PostAck, ReceiveAck, SaveCursor, EditNote, LoseRequest,
     GiveUp, CrashAgent, CrashServer
<1>. QED  BY <1>2, <1>3, <1>4, <1>5

\* The one record that is made and not stored has the latest stamp.
LEMMA NewStep ==
    ASSUME SerialServer, SerialIngester, TypeInv, SkipInv, [Next]_vars PROVE NewInv'
<1>1. TypeOK /\ StampInv
  BY DEF TypeInv
<1> SUFFICES ASSUME NEW k \in Ingesters, ingester'[k].pc = "store"
             PROVE  /\ ingester'[k].rec.synced = 0
                    /\ \A t \in Nat : IsMark(t)' => t < ingester'[k].rec.updated
                    /\ \A c \in Cards : card'[c].updated < ingester'[k].rec.updated
                    /\ \A h \in Handlers :
                           /\ handler'[h].pc = "write" =>
                                  handler'[h].rec.updated < ingester'[k].rec.updated
                           /\ handler'[h].pc = "put" =>
                                  handler'[h].to < ingester'[k].rec.updated
  BY DEF NewInv
<1>2. CASE ingester'[k] = ingester[k] /\ ~StoreCard(k)
  <2>1. /\ ingester[k].rec.synced = 0
        /\ \A t \in Nat : IsMark(t) => t < ingester[k].rec.updated
        /\ \A c \in Cards : card[c].updated < ingester[k].rec.updated
        /\ \A h \in Handlers :
              /\ handler[h].pc = "write" =>
                     handler[h].rec.updated < ingester[k].rec.updated
              /\ handler[h].pc = "put" => handler[h].to < ingester[k].rec.updated
    BY <1>2 DEF SkipInv, NewInv
  <2>2. \A j \in Ingesters : ~StoreCard(j)
    BY <1>2 DEF SerialIngester
  <2>3. ASSUME NEW t \in Nat, IsMark(t)' PROVE t < ingester[k].rec.updated
    BY <2>1, <2>3, MarkOrigin
  <2>4. ASSUME NEW c \in Cards PROVE card'[c].updated < ingester[k].rec.updated
    <3>1. ASSUME NEW h \in Handlers, WriteCard(h),
                 card'[c] = [handler[h].rec EXCEPT
                                 !.synced = handler[h].now,
                                 !.base = handler[h].results[c].fields]
          PROVE  card'[c].updated < ingester[k].rec.updated
      <4>1. handler[h].rec \in CardRecord
        BY <1>1, SkipTypes
      <4>2. card'[c].updated = handler[h].rec.updated /\ handler[h].pc = "write"
        BY <3>1, <4>1 DEF CardRecord, WriteCard
      <4>. QED  BY <2>1, <4>2
    <3>. QED  BY <2>1, <2>2, <3>1, CardOrigin
  <2>5. ASSUME NEW h \in Handlers, handler'[h].pc = "write"
        PROVE  handler'[h].rec.updated < ingester[k].rec.updated
    BY <1>1, <2>1, <2>5, ThreadSteps
  <2>6. ASSUME NEW h \in Handlers, handler'[h].pc = "put"
        PROVE  handler'[h].to < ingester[k].rec.updated
    <3>1. CASE SelectCards(h)
      <4> DEFINE S == Selected(handler[h].from)
      <4>1. S # {} /\ handler'[h].to = LastStamp(S)
        BY <1>1, <2>6, <3>1, SelectEffect
      <4>2. S \in SUBSET Cards
        BY DEF Selected
      <4>3. handler'[h].to \in {card[c].updated : c \in S}
        BY <1>1, <4>1, <4>2, LastStampTypes
      <4>. QED  BY <2>1, <4>2, <4>3
    <3>2. CASE handler'[h] = handler[h]
      BY <2>1, <2>6, <3>2
    <3>. QED  BY <1>1, <2>6, <3>1, <3>2, ThreadSteps
  <2>. QED  BY <1>2, <2>1, <2>3, <2>4, <2>5, <2>6
<1>3. CASE /\ card' = card /\ handler' = handler
           /\ ingester'[k].rec.updated = clock + 1
           /\ ingester'[k].rec.synced = 0
  <2>1. clock \in Nat
    BY <1>1, SkipTypes
  <2>2. ASSUME NEW t \in Nat, IsMark(t)' PROVE t < clock + 1
    <3>1. CASE IsMark(t)
      BY <2>1, <3>1 DEF SkipInv, MarkInv
    <3>2. ASSUME NEW h \in Handlers, handler[h].pc = "put", t = handler[h].to
          PROVE  t < clock + 1
      BY <2>1, <3>2 DEF SkipInv, CutInv
    <3>. QED  BY <2>2, <3>1, <3>2, MarkOrigin
  <2>3. ASSUME NEW c \in Cards PROVE card[c].updated < clock + 1
    BY <1>1, <2>1, SkipTypes DEF StampInv
  <2>4. ASSUME NEW h \in Handlers
        PROVE  /\ handler[h].pc = "write" => handler[h].rec.updated < clock + 1
               /\ handler[h].pc = "put" => handler[h].to < clock + 1
    BY <1>1, <2>1, SkipTypes DEF StampInv, SkipInv, CutInv
  <2>. QED  BY <1>3, <2>2, <2>3, <2>4
<1>. QED  BY <1>1, <1>2, <1>3, WriterSteps

\* SkipInv holds when nothing has happened yet.
LEMMA SkipInvInit == Init => SkipInv
<1> SUFFICES ASSUME Init PROVE SkipInv
  OBVIOUS
<1>1. /\ \A h \in Handlers : handler[h] = IdleHandler
      /\ \A k \in Ingesters : ingester[k] = IdleIngester
      /\ \A c \in Cards : card[c] = NoCard
      /\ agent = IdleAgent /\ clock = 0 /\ cursor = 0 /\ saved = 0
      /\ inflight = Absent /\ batch = <<>>
  BY DEF Init
<1>2. \A t : IsMark(t) => t = 0
  BY <1>1 DEF IsMark, IdleHandler, IdleAgent
<1>3. ~Due(NoCard) /\ NoCard.synced = 0
  BY DEF Due, NoCard
<1>4. MarkInv /\ SyncedInv
  BY <1>1, <1>2, <1>3 DEF MarkInv, SyncedInv, Awaits
<1>5. CutInv /\ BackInv /\ NewInv
  BY <1>1 DEF CutInv, BackInv, NewInv, IdleHandler, IdleIngester
<1>. QED  BY <1>4, <1>5 DEF SkipInv

\* With one request and one pipeline run at a time, the cursor skips no card:
\* one that waits for delivery behind it was in a batch with its present
\* content, whatever is lost, given up on or killed.
THEOREM NoCardSkippedSerially ==
    SerialServer /\ SerialIngester => (Spec => []NoCardSkipped)
<1> SUFFICES ASSUME SerialServer, SerialIngester PROVE Spec => []NoCardSkipped
  OBVIOUS
<1>1. TypeInv /\ SkipInv /\ [Next]_vars => SkipInv'
  <2> SUFFICES ASSUME TypeInv, SkipInv, [Next]_vars PROVE SkipInv'
    OBVIOUS
  <2>1. MarkInv' /\ SyncedInv'
    BY MarkStep, SyncedStep
  <2>2. CutInv' /\ BackInv' /\ NewInv'
    BY CutStep, BackStep, NewStep
  <2>. QED  BY <2>1, <2>2 DEF SkipInv
<1>2. TypeInv /\ SkipInv => NoCardSkipped
  <2> SUFFICES ASSUME TypeInv, SkipInv, NEW c \in Cards, NeedsSync(c)
               PROVE  \/ card[c].updated > Position(saved)
                      \/ Offered(c, card[c].content)
    BY DEF NoCardSkipped, Offered
  <2>1. IsMark(Position(saved))
    BY DEF Position, IsMark
  <2>2. Position(saved) \in Nat
    BY <2>1, SkipTypes DEF TypeInv
  <2>3. Due(card[c])
    BY DEF Due, NeedsSync
  <2>. QED  BY <2>1, <2>2, <2>3 DEF SkipInv, MarkInv, Awaits
<1>. QED  BY <1>1, <1>2, SkipInvInit, TypeInvInit, TypeInvStep, PTL DEF Spec

=============================================================================
