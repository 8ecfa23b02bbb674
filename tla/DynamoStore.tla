---------------------------- MODULE DynamoStore ----------------------------
(***************************************************************************)
(* state/dynamo_store.py: the calls of the state store that take several   *)
(* requests of DynamoDB, and the conditional updates on which two callers  *)
(* compete.  A request on an item is atomic; a get or put of a whole item  *)
(* that no other call depends on is left out.  The index card_by_key lags  *)
(* behind the items it indexes.                                            *)
(*                                                                         *)
(* When no two calls about the same file or headword overlap, and reads    *)
(* and the index have caught up, the store does what PendingEdits and      *)
(* CardTable promise.  Nothing in the code sees to that; Exclusive says    *)
(* whether it is so.                                                       *)
(***************************************************************************)
EXTENDS Naturals, FiniteSets

CONSTANTS
    Files,      \* files with edits
    Keys,       \* headwords
    Contents,   \* contents of a card, its delivery state included
    Batches,    \* batches issued to an agent
    Clients,    \* processes and threads that use the store
    Quiet,      \* quiet_seconds
    MaxDelay,   \* max_delay_seconds
    Absent,     \* no item
    Exclusive,  \* calls about one item do not overlap and read it up to date
    MaxTime,    \* bound: readings of the clock
    MaxCards,   \* bound: card ids made
    MaxToken,   \* bound: page tokens
    MaxFaults   \* bound: calls cut short

ASSUME SettlingType == Quiet \in Nat /\ MaxDelay \in Nat
ASSUME ExclusiveType == Exclusive \in BOOLEAN
ASSUME BoundsType == /\ MaxTime \in Nat /\ MaxCards \in Nat
                     /\ MaxToken \in Nat /\ MaxFaults \in Nat

VARIABLES
    row,    \* row[f]: the item of the pending edit of f
    item,   \* item[i]: the item of the card with id i
    index,  \* index[i]: the same item in the index card_by_key
    token,  \* page_token of a drive channel
    acked,  \* the batches whose acked_at is set
    call,   \* local variables of the call each client is in
    won,    \* history: how often a token was advanced, a batch acknowledged
    clock,  \* what datetime.now reads
    used    \* how much of each bound is used up

cards == <<item, index>>
vars == <<row, item, index, token, acked, call, won, clock, used>>

Ids == 1..MaxCards
Tokens == 0..MaxToken

\* An item that was made by an update has no attributes but those the update
\* sets: it is not whole.
Row == [whole : BOOLEAN, first : Nat, last : Nat, ready : Nat, hard : Nat, force : BOOLEAN]
Card == [key : Keys, content : Contents]

ASSUME AbsentDistinct ==
    /\ Absent \notin Files \cup Keys \cup Contents \cup Row \cup Card
    /\ Absent \notin [id : Nat, content : Contents]

IdleCall == [pc |-> "idle", about |-> Absent, now |-> 0, content |-> Absent,
             id |-> 0, token |-> 0]

Init ==
    /\ row = [f \in Files |-> Absent]
    /\ item = [i \in Ids |-> Absent]
    /\ index = [i \in Ids |-> Absent]
    /\ token = 0
    /\ acked = {}
    /\ call = [p \in Clients |-> IdleCall]
    /\ won = [tokens |-> [t \in Tokens |-> 0], batches |-> [b \in Batches |-> 0]]
    /\ clock = 0
    /\ used = [ids |-> 0, faults |-> 0]

\* May p begin a call about x?
Free(p, x) ==
    /\ call[p].pc = "idle"
    /\ Exclusive => \A q \in Clients : call[q].about # x

Return(p) == call' = [call EXCEPT ![p] = IdleCall]

----------------------------------------------------------------------------
(* upsert_pending_edit_debounced: get, put or update, and get again *)

BeginSighting(p, f) ==
    /\ Free(p, f)
    /\ clock < MaxTime
    /\ clock' = clock + 1
    /\ call' = [call EXCEPT ![p] =
           [IdleCall EXCEPT !.pc = "get", !.about = f, !.now = clock']]
    /\ UNCHANGED <<row, cards, token, acked, won, used>>

\* The read is eventually consistent: what is seen may be out of date.
GetRow(p) ==
    /\ call[p].pc = "get"
    /\ \E seen \in BOOLEAN :
          /\ Exclusive => seen = (row[call[p].about] # Absent)
          /\ call' = [call EXCEPT ![p].pc = IF seen THEN "update" ELSE "put"]
    /\ UNCHANGED <<row, cards, token, acked, won, clock, used>>

NewRow(now) == [whole |-> TRUE, first |-> now, last |-> now, ready |-> now + Quiet,
                hard |-> now + MaxDelay, force |-> FALSE]

PutRow(p) ==
    /\ call[p].pc = "put"
    /\ row' = [row EXCEPT ![call[p].about] = NewRow(call[p].now)]
    /\ call' = [call EXCEPT ![p].pc = "return"]
    /\ UNCHANGED <<cards, token, acked, won, clock, used>>

\* Mutant: the hard deadline slides as well.
SlideAll(r, now) == [NewRow(now) EXCEPT !.force = r.force, !.first = r.first]

\* update_item sets two attributes, of whatever item there is by now.
Slide(r, now) ==
    IF r = Absent
    THEN [whole |-> FALSE, first |-> 0, last |-> now, ready |-> now + Quiet,
          hard |-> 0, force |-> FALSE]
    ELSE [r EXCEPT !.last = now, !.ready = now + Quiet]

UpdateRow(p) ==
    /\ call[p].pc = "update"
    /\ row' = [row EXCEPT ![call[p].about] = Slide(@, call[p].now)]
    /\ call' = [call EXCEPT ![p].pc = "return"]
    /\ UNCHANGED <<cards, token, acked, won, clock, used>>

\* The row is read a last time; a missing or partial one raises an exception.
ReturnRow(p) ==
    /\ call[p].pc = "return"
    /\ Return(p)
    /\ UNCHANGED <<row, cards, token, acked, won, clock, used>>

\* clear_pending_edit: a conditional delete.
ClearPendingEdit(p, f, guard) ==
    /\ Free(p, f)
    /\ row[f] # Absent
    /\ row[f].last <= guard
    /\ row' = [row EXCEPT ![f] = Absent]
    /\ UNCHANGED <<cards, token, acked, call, won, clock, used>>

\* force_pending_edit, of a row that is there: nothing in src calls it, and of a
\* missing row it would make an item that no scan lists.
ForcePendingEdit(p, f) ==
    /\ Free(p, f)
    /\ row[f] # Absent
    /\ row' = [row EXCEPT ![f].force = TRUE]
    /\ UNCHANGED <<cards, token, acked, call, won, clock, used>>

----------------------------------------------------------------------------
(* upsert_card: a query of the index, and a put of the whole item *)

CaughtUp(k) ==
    \A i \in Ids : (item[i] # Absent /\ item[i].key = k) => index[i] = item[i]

\* The index catches up with an item in the background.
Propagate(i) ==
    /\ index[i] # item[i]
    /\ index' = [index EXCEPT ![i] = item[i]]
    /\ UNCHANGED <<row, item, token, acked, call, won, clock, used>>

BeginUpsertCard(p, k, content) ==
    /\ Free(p, k)
    /\ Exclusive => CaughtUp(k)
    /\ call' = [call EXCEPT ![p] =
           [IdleCall EXCEPT !.pc = "query", !.about = k, !.content = content]]
    /\ UNCHANGED <<row, cards, token, acked, won, clock, used>>

\* Mutant: the row is looked up by the id of the record, which is new.
FoundNone(k) == {}

Found(k) == {i \in Ids : index[i] # Absent /\ index[i].key = k}

\* Any one entry of the headword: Limit is 1, and the order is not defined.  A
\* card that is found as it should be is left alone.
QueryIndex(p) ==
    LET k == call[p].about IN
    /\ call[p].pc = "query"
    /\ \/ /\ Found(k) = {}
          /\ used.ids < MaxCards
          /\ used' = [used EXCEPT !.ids = @ + 1]
          /\ call' = [call EXCEPT ![p] = [@ EXCEPT !.pc = "putcard", !.id = used'.ids]]
       \/ \E i \in Found(k) :
             /\ call' = [call EXCEPT ![p] =
                    IF index[i].content = @.content THEN IdleCall
                    ELSE [@ EXCEPT !.pc = "putcard", !.id = i]]
             /\ UNCHANGED used
    /\ UNCHANGED <<row, cards, token, acked, won, clock>>

\* Mutant: an updated card moves to an id of its own.
PutUnderNewId(p) ==
    LET i == CHOOSE j \in Ids : item[j] = Absent IN
    /\ call[p].pc = "putcard"
    /\ item' = [item EXCEPT ![call[p].id] = Absent,
                            ![i] = [key |-> call[p].about, content |-> call[p].content]]
    /\ Return(p)
    /\ UNCHANGED <<row, index, token, acked, won, clock, used>>

\* Mutant: the record is stored without its headword.
PutWithoutKey(p) ==
    /\ call[p].pc = "putcard"
    /\ item' = [item EXCEPT ![call[p].id] = [content |-> call[p].content]]
    /\ Return(p)
    /\ UNCHANGED <<row, index, token, acked, won, clock, used>>

PutCard(p) ==
    /\ call[p].pc = "putcard"
    /\ item' = [item EXCEPT ![call[p].id] =
                    [key |-> call[p].about, content |-> call[p].content]]
    /\ Return(p)
    /\ UNCHANGED <<row, index, token, acked, won, clock, used>>

----------------------------------------------------------------------------
(* The conditional updates *)

\* A pull reads the channel's record and advances the token later.
GetDriveChannel(p) ==
    /\ call[p].pc = "idle"
    /\ token < MaxToken
    /\ call' = [call EXCEPT ![p] = [IdleCall EXCEPT !.pc = "advance", !.token = token]]
    /\ UNCHANGED <<row, cards, token, acked, won, clock, used>>

\* Mutant: update_item without its condition.
TokenFree(expected) == TRUE

TokenIs(expected) == token = expected

AdvanceToken(p) ==
    /\ call[p].pc = "advance"
    /\ IF TokenIs(call[p].token)
       THEN /\ token' = call[p].token + 1
            /\ won' = [won EXCEPT !.tokens[call[p].token] = @ + 1]
       ELSE UNCHANGED <<token, won>>
    /\ Return(p)
    /\ UNCHANGED <<row, cards, acked, clock, used>>

\* ack_batch reads the batch and marks it later.
GetIssuedBatch(p, b) ==
    /\ call[p].pc = "idle"
    /\ b \notin acked
    /\ call' = [call EXCEPT ![p] = [IdleCall EXCEPT !.pc = "ack", !.about = b]]
    /\ UNCHANGED <<row, cards, token, acked, won, clock, used>>

MarkBatchAcked(p) ==
    LET b == call[p].about IN
    /\ call[p].pc = "ack"
    /\ IF b \notin acked
       THEN /\ acked' = acked \cup {b}
            /\ won' = [won EXCEPT !.batches[b] = @ + 1]
       ELSE UNCHANGED <<acked, won>>
    /\ Return(p)
    /\ UNCHANGED <<row, cards, token, clock, used>>

\* The function is stopped, or a request fails, in the middle of a call.
CutShort(p) ==
    /\ call[p].pc # "idle"
    /\ used.faults < MaxFaults
    /\ used' = [used EXCEPT !.faults = @ + 1]
    /\ Return(p)
    /\ UNCHANGED <<row, cards, token, acked, won, clock>>

ClientStep(p) ==
    \/ \E f \in Files :
          \/ BeginSighting(p, f)
          \/ ForcePendingEdit(p, f)
          \/ \E guard \in 0..clock : ClearPendingEdit(p, f, guard)
    \/ GetRow(p) \/ PutRow(p) \/ UpdateRow(p) \/ ReturnRow(p)
    \/ \E k \in Keys, content \in Contents : BeginUpsertCard(p, k, content)
    \/ QueryIndex(p) \/ PutCard(p)
    \/ GetDriveChannel(p) \/ AdvanceToken(p)
    \/ \E b \in Batches : GetIssuedBatch(p, b)
    \/ MarkBatchAcked(p)
    \/ CutShort(p)

Next ==
    \/ \E p \in Clients : ClientStep(p)
    \/ \E i \in Ids : Propagate(i)

Spec == Init /\ [][Next]_vars

----------------------------------------------------------------------------
(* Properties *)

TypeOK ==
    /\ row \in [Files -> Row \cup {Absent}]
    /\ item \in [Ids -> Card \cup {Absent}]
    /\ index \in [Ids -> Card \cup {Absent}]
    /\ token \in Tokens
    /\ acked \subseteq Batches
    /\ call \in [Clients ->
           [pc : {"idle", "get", "put", "update", "return", "query", "putcard",
                  "advance", "ack"},
            about : Files \cup Keys \cup Batches \cup {Absent}, now : Nat,
            content : Contents \cup {Absent}, id : {0} \cup Ids, token : Tokens]]
    /\ won \in [tokens : [Tokens -> Nat], batches : [Batches -> Nat]]
    /\ clock \in 0..MaxTime
    /\ used \in [ids : 0..MaxCards, faults : 0..MaxFaults]

\* Of two pulls that read the same token one advances it, and of two
\* acknowledgements of a batch one counts, however the calls overlap
\* (dynamo_store.py:438-457 and 740-752).
OneWinner ==
    /\ \A t \in Tokens : won.tokens[t] <= 1
    /\ \A b \in Batches : won.batches[b] <= 1

\* The rows a scan for pending edits may return.
Listable == {f \in Files : row[f] # Absent /\ row[f].whole}

PendingRows ==
    [f \in Listable |->
        [first |-> row[f].first, last |-> row[f].last, ready |-> row[f].ready,
         hard |-> row[f].hard, force |-> row[f].force]]

Pending == INSTANCE PendingEdits WITH pending <- PendingRows

\* The table of pending edits keeps the promise of the store, calls cut short
\* in the middle included (dynamo_store.py:459-561).
ImplementsPendingEdits == Pending!Spec

CardsOf(k) == {i \in Ids : item[i] # Absent /\ item[i].key = k}

CardRows ==
    [k \in Keys |->
        IF CardsOf(k) = {} THEN Absent
        ELSE LET i == CHOOSE j \in CardsOf(k) : TRUE
             IN  [id |-> i, content |-> item[i].content]]

Table == INSTANCE CardTable WITH card <- CardRows

\* So does the table of cards: a headword keeps the id it was first given
\* (dynamo_store.py:242-355).
ImplementsCardTable == Table!Spec

\* No headword has two cards.
OneCardPerKey == \A k \in Keys : Cardinality(CardsOf(k)) <= 1
=============================================================================
