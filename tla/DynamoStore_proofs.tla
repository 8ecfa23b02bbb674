------------------------- MODULE DynamoStore_proofs -------------------------
(***************************************************************************)
(* Theorems about DynamoStore, for every set of files, headwords, batches  *)
(* and clients and every bound: which calls have one winner however they   *)
(* overlap, and that the store is the one PendingEdits and CardTable       *)
(* promise when calls about one thing do not overlap.                      *)
(***************************************************************************)
EXTENDS DynamoStore, FiniteSetTheorems, TLAPS

----------------------------------------------------------------------------
(* Type correctness *)

CallState ==
    [pc : {"idle", "get", "put", "update", "return", "query", "putcard",
           "advance", "ack"},
     about : Files \cup Keys \cup Batches \cup {Absent}, now : Nat,
     content : Contents \cup {Absent}, id : {0} \cup Ids, token : Tokens]

\* The calls of the two kinds that take several requests.
Sighting(p) == call[p].pc \in {"get", "put", "update", "return"}
Upserting(p) == call[p].pc \in {"query", "putcard"}

\* A call that is about to use a local variable has set it.
ShapeInv ==
    \A p \in Clients :
        /\ Sighting(p) => call[p].about \in Files
        /\ Upserting(p) => call[p].about \in Keys /\ call[p].content \in Contents
        /\ call[p].pc = "putcard" => call[p].id \in Ids
        /\ call[p].pc = "advance" => call[p].token < MaxToken
        /\ call[p].pc = "ack" => call[p].about \in Batches

TypeInv == TypeOK /\ ShapeInv

LEMMA IdleTypes == IdleCall \in CallState
  BY BoundsType DEF IdleCall, CallState, Tokens

LEMMA CallTypes == ASSUME TypeInv, NEW p \in Clients PROVE call[p] \in CallState
  BY DEF TypeInv, TypeOK, CallState

\* What a step has to show when it changes the call of one client alone.
LEMMA OneCall ==
    ASSUME TypeInv, NEW p \in Clients, NEW c \in CallState,
           call' = [call EXCEPT ![p] = c],
           c.pc \in {"get", "put", "update", "return"} => c.about \in Files,
           c.pc \in {"query", "putcard"} => c.about \in Keys /\ c.content \in Contents,
           c.pc = "putcard" => c.id \in Ids,
           c.pc = "advance" => c.token < MaxToken,
           c.pc = "ack" => c.about \in Batches
    PROVE  ShapeInv' /\ call' \in [Clients -> CallState]
<1>1. call \in [Clients -> CallState]
  BY DEF TypeInv, TypeOK, CallState
<1>2. call' \in [Clients -> CallState]
  BY <1>1
<1>3. \A q \in Clients : call'[q] = IF q = p THEN c ELSE call[q]
  BY <1>1
<1>4. ShapeInv'
  BY <1>3 DEF TypeInv, ShapeInv, Sighting, Upserting
<1>. QED  BY <1>2, <1>4

\* So a client that returns leaves the types as they are.
LEMMA ReturnTypes ==
    ASSUME TypeInv, NEW p \in Clients, Return(p)
    PROVE  ShapeInv' /\ call' \in [Clients -> CallState]
  BY IdleTypes, OneCall DEF Return, IdleCall

\* Every step keeps the types, one case for each action.
LEMMA TypeStep == TypeInv /\ [Next]_vars => TypeInv'
<1> SUFFICES ASSUME TypeInv, [Next]_vars PROVE TypeInv'
  OBVIOUS
<1> USE DEF cards
<1>a. ShapeInv /\ call \in [Clients -> CallState]
  BY DEF TypeInv, TypeOK, CallState
<1>b. /\ row \in [Files -> Row \cup {Absent}]
      /\ item \in [Ids -> Card \cup {Absent}]
      /\ index \in [Ids -> Card \cup {Absent}]
      /\ token \in Tokens
      /\ acked \subseteq Batches
      /\ won \in [tokens : [Tokens -> Nat], batches : [Batches -> Nat]]
      /\ clock \in 0..MaxTime
      /\ used \in [ids : 0..MaxCards, faults : 0..MaxFaults]
  BY DEF TypeInv, TypeOK
<1>c. ASSUME ShapeInv' /\ call' \in [Clients -> CallState],
             row' \in [Files -> Row \cup {Absent}],
             item' \in [Ids -> Card \cup {Absent}],
             index' \in [Ids -> Card \cup {Absent}],
             token' \in Tokens,
             acked' \subseteq Batches,
             won' \in [tokens : [Tokens -> Nat], batches : [Batches -> Nat]],
             clock' \in 0..MaxTime,
             used' \in [ids : 0..MaxCards, faults : 0..MaxFaults]
      PROVE  TypeInv'
  BY <1>c DEF TypeInv, TypeOK, CallState
<1>1. CASE UNCHANGED vars
  <2>1. UNCHANGED <<row, item, index, token, acked, call, won, clock, used>>
    BY <1>1 DEF vars
  <2>2. ShapeInv'
    BY <2>1, <1>a DEF ShapeInv, Sighting, Upserting
  <2>. QED  BY <1>a, <1>b, <1>c, <2>1, <2>2
<1>2. ASSUME NEW p \in Clients, NEW f \in Files, BeginSighting(p, f) PROVE TypeInv'
  <2>. DEFINE c == [IdleCall EXCEPT !.pc = "get", !.about = f, !.now = clock']
  <2>1. clock' \in 0..MaxTime /\ clock' \in Nat
    BY <1>2, <1>b, BoundsType DEF BeginSighting
  <2>2. c \in CallState /\ c.pc = "get" /\ c.about = f
    BY <2>1, IdleTypes DEF CallState
  <2>3. call' = [call EXCEPT ![p] = c]
    BY <1>2 DEF BeginSighting
  <2>. HIDE DEF c
  <2>4. ShapeInv' /\ call' \in [Clients -> CallState]
    BY <2>2, <2>3, OneCall
  <2>. QED  BY <1>2, <1>b, <1>c, <2>1, <2>4 DEF BeginSighting
<1>3. ASSUME NEW p \in Clients, GetRow(p) PROVE TypeInv'
  <2>0. PICK seen \in BOOLEAN :
            call' = [call EXCEPT ![p].pc = IF seen THEN "update" ELSE "put"]
    BY <1>3 DEF GetRow
  <2>. DEFINE c == [call[p] EXCEPT !.pc = IF seen THEN "update" ELSE "put"]
  <2>1. call[p] \in CallState /\ call[p].pc = "get" /\ call[p].about \in Files
    BY <1>3, <1>a DEF GetRow, ShapeInv, Sighting
  <2>2. c \in CallState /\ c.pc \in {"put", "update"} /\ c.about = call[p].about
    BY <2>1 DEF CallState
  <2>3. call' = [call EXCEPT ![p] = c]
    BY <2>0, <1>a
  <2>. HIDE DEF c
  <2>4. ShapeInv' /\ call' \in [Clients -> CallState]
    BY <2>1, <2>2, <2>3, OneCall
  <2>. QED  BY <1>3, <1>b, <1>c, <2>4 DEF GetRow
<1>4. ASSUME NEW p \in Clients, PutRow(p) \/ UpdateRow(p) PROVE TypeInv'
  <2>. DEFINE c == [call[p] EXCEPT !.pc = "return"]
  <2>1. call[p] \in CallState /\ call[p].about \in Files
    BY <1>4, <1>a DEF PutRow, UpdateRow, ShapeInv, Sighting
  <2>2. c \in CallState /\ c.pc = "return" /\ c.about = call[p].about
    BY <2>1 DEF CallState
  <2>3. call' = [call EXCEPT ![p] = c]
    BY <1>4, <1>a DEF PutRow, UpdateRow
  <2>. HIDE DEF c
  <2>4. ShapeInv' /\ call' \in [Clients -> CallState]
    BY <2>1, <2>2, <2>3, OneCall
  <2>5. call[p].now \in Nat /\ call[p].now + Quiet \in Nat /\ call[p].now + MaxDelay \in Nat
    BY <2>1, SettlingType DEF CallState
  <2>6. NewRow(call[p].now) \in Row
    BY <2>5 DEF NewRow, Row
  <2>7. Slide(row[call[p].about], call[p].now) \in Row
    <3>1. row[call[p].about] \in Row \cup {Absent}
      BY <2>1, <1>b
    <3>2. CASE row[call[p].about] = Absent
      BY <2>5, <3>2 DEF Slide, Row
    <3>3. CASE row[call[p].about] # Absent
      BY <2>5, <3>1, <3>3 DEF Slide, Row
    <3>. QED  BY <3>2, <3>3
  <2>8. row' \in [Files -> Row \cup {Absent}]
    BY <1>4, <1>b, <2>6, <2>7 DEF PutRow, UpdateRow
  <2>. QED  BY <1>4, <1>b, <1>c, <2>4, <2>8 DEF PutRow, UpdateRow
<1>5. ASSUME NEW p \in Clients, ReturnRow(p) PROVE TypeInv'
  BY <1>5, <1>b, <1>c, ReturnTypes DEF ReturnRow
<1>6. ASSUME NEW p \in Clients, NEW f \in Files, NEW guard,
             ClearPendingEdit(p, f, guard)
      PROVE  TypeInv'
  <2>1. row' \in [Files -> Row \cup {Absent}]
    BY <1>6, <1>b DEF ClearPendingEdit
  <2>2. ShapeInv'
    BY <1>6, <1>a DEF ClearPendingEdit, ShapeInv, Sighting, Upserting
  <2>. QED  BY <1>6, <1>a, <1>b, <1>c, <2>1, <2>2 DEF ClearPendingEdit
<1>7. ASSUME NEW p \in Clients, NEW f \in Files, ForcePendingEdit(p, f) PROVE TypeInv'
  <2>1. row[f] \in Row
    BY <1>7, <1>b DEF ForcePendingEdit
  <2>2. [row[f] EXCEPT !.force = TRUE] \in Row
    BY <2>1 DEF Row
  <2>3. row' \in [Files -> Row \cup {Absent}]
    BY <1>7, <1>b, <2>2 DEF ForcePendingEdit
  <2>4. ShapeInv'
    BY <1>7, <1>a DEF ForcePendingEdit, ShapeInv, Sighting, Upserting
  <2>. QED  BY <1>7, <1>a, <1>b, <1>c, <2>3, <2>4 DEF ForcePendingEdit
<1>8. ASSUME NEW p \in Clients, NEW k \in Keys, NEW content \in Contents,
             BeginUpsertCard(p, k, content)
      PROVE  TypeInv'
  <2>. DEFINE c == [IdleCall EXCEPT !.pc = "query", !.about = k, !.content = content]
  <2>1. c \in CallState /\ c.pc = "query" /\ c.about = k /\ c.content = content
    BY IdleTypes DEF CallState
  <2>2. call' = [call EXCEPT ![p] = c]
    BY <1>8 DEF BeginUpsertCard
  <2>. HIDE DEF c
  <2>3. ShapeInv' /\ call' \in [Clients -> CallState]
    BY <2>1, <2>2, OneCall
  <2>. QED  BY <1>8, <1>b, <1>c, <2>3 DEF BeginUpsertCard
<1>9. ASSUME NEW p \in Clients, QueryIndex(p) PROVE TypeInv'
  <2>1. call[p] \in CallState /\ call[p].about \in Keys /\ call[p].content \in Contents
    BY <1>9, <1>a DEF QueryIndex, ShapeInv, Upserting
  <2>2. CASE /\ Found(call[p].about) = {}
             /\ used.ids < MaxCards
             /\ used' = [used EXCEPT !.ids = @ + 1]
             /\ call' = [call EXCEPT ![p] = [@ EXCEPT !.pc = "putcard", !.id = used'.ids]]
    <3>. DEFINE c == [call[p] EXCEPT !.pc = "putcard", !.id = used'.ids]
    <3>0. used.ids + 1 \in 1..MaxCards
      BY <2>2, <1>b, BoundsType
    <3>1. used' \in [ids : 0..MaxCards, faults : 0..MaxFaults] /\ used'.ids \in Ids
      BY <2>2, <3>0, <1>b, BoundsType DEF Ids
    <3>2. c \in CallState /\ c.pc = "putcard" /\ c.id \in Ids
          /\ c.about = call[p].about /\ c.content = call[p].content
      BY <2>1, <3>1 DEF CallState
    <3>3. call' = [call EXCEPT ![p] = c]
      BY <2>2, <1>a
    <3>. HIDE DEF c
    <3>4. ShapeInv' /\ call' \in [Clients -> CallState]
      BY <2>1, <3>2, <3>3, OneCall
    <3>. QED  BY <1>9, <1>b, <1>c, <3>1, <3>4 DEF QueryIndex
  <2>3. ASSUME NEW i \in Found(call[p].about),
               call' = [call EXCEPT ![p] =
                   IF index[i].content = call[p].content THEN IdleCall
                   ELSE [call[p] EXCEPT !.pc = "putcard", !.id = i]],
               UNCHANGED used
        PROVE  TypeInv'
    <3>1. i \in Ids
      BY DEF Found
    <3>2. CASE index[i].content = call[p].content
      <4>1. Return(p)
        BY <2>3, <3>2 DEF Return
      <4>. QED  BY <1>9, <1>b, <1>c, <2>3, <4>1, ReturnTypes DEF QueryIndex
    <3>3. CASE index[i].content # call[p].content
      <4>. DEFINE c == [call[p] EXCEPT !.pc = "putcard", !.id = i]
      <4>1. c \in CallState /\ c.pc = "putcard" /\ c.id = i
            /\ c.about = call[p].about /\ c.content = call[p].content
        BY <2>1, <3>1 DEF CallState
      <4>2. call' = [call EXCEPT ![p] = c]
        BY <2>3, <3>3
      <4>. HIDE DEF c
      <4>3. ShapeInv' /\ call' \in [Clients -> CallState]
        BY <2>1, <3>1, <4>1, <4>2, OneCall
      <4>. QED  BY <1>9, <1>b, <1>c, <2>3, <4>3 DEF QueryIndex
    <3>. QED  BY <3>2, <3>3
  <2>. QED  BY <1>9, <2>2, <2>3 DEF QueryIndex
<1>10. ASSUME NEW p \in Clients, PutCard(p) PROVE TypeInv'
  <2>1. call[p].about \in Keys /\ call[p].content \in Contents
    BY <1>10, <1>a DEF PutCard, ShapeInv, Upserting
  <2>2. [key |-> call[p].about, content |-> call[p].content] \in Card
    BY <2>1 DEF Card
  <2>3. item' \in [Ids -> Card \cup {Absent}]
    BY <1>10, <1>b, <2>2 DEF PutCard
  <2>. QED  BY <1>10, <1>b, <1>c, <2>3, ReturnTypes DEF PutCard
<1>11. ASSUME NEW p \in Clients, GetDriveChannel(p) PROVE TypeInv'
  <2>. DEFINE c == [IdleCall EXCEPT !.pc = "advance", !.token = token]
  <2>1. c \in CallState /\ c.pc = "advance" /\ c.token = token
    BY <1>b, IdleTypes DEF CallState
  <2>2. call' = [call EXCEPT ![p] = c]
    BY <1>11 DEF GetDriveChannel
  <2>. HIDE DEF c
  <2>3. ShapeInv' /\ call' \in [Clients -> CallState]
    BY <1>11, <2>1, <2>2, OneCall DEF GetDriveChannel
  <2>. QED  BY <1>11, <1>b, <1>c, <2>3 DEF GetDriveChannel
<1>12. ASSUME NEW p \in Clients, AdvanceToken(p) PROVE TypeInv'
  <2>1. call[p].token \in Tokens /\ call[p].token < MaxToken
    BY <1>12, <1>a DEF AdvanceToken, ShapeInv, CallState
  <2>2. token' \in Tokens
    BY <1>12, <1>b, <2>1, BoundsType DEF AdvanceToken, Tokens
  <2>3. won' \in [tokens : [Tokens -> Nat], batches : [Batches -> Nat]]
    BY <1>12, <1>b, <2>1 DEF AdvanceToken
  <2>. QED  BY <1>12, <1>b, <1>c, <2>2, <2>3, ReturnTypes DEF AdvanceToken
<1>13. ASSUME NEW p \in Clients, NEW b \in Batches, GetIssuedBatch(p, b) PROVE TypeInv'
  <2>. DEFINE c == [IdleCall EXCEPT !.pc = "ack", !.about = b]
  <2>1. c \in CallState /\ c.pc = "ack" /\ c.about = b
    BY IdleTypes DEF CallState
  <2>2. call' = [call EXCEPT ![p] = c]
    BY <1>13 DEF GetIssuedBatch
  <2>. HIDE DEF c
  <2>3. ShapeInv' /\ call' \in [Clients -> CallState]
    BY <2>1, <2>2, OneCall
  <2>. QED  BY <1>13, <1>b, <1>c, <2>3 DEF GetIssuedBatch
<1>14. ASSUME NEW p \in Clients, MarkBatchAcked(p) PROVE TypeInv'
  <2>1. call[p].about \in Batches
    BY <1>14, <1>a DEF MarkBatchAcked, ShapeInv
  <2>2. acked' \subseteq Batches
    BY <1>14, <1>b, <2>1 DEF MarkBatchAcked
  <2>3. won' \in [tokens : [Tokens -> Nat], batches : [Batches -> Nat]]
    BY <1>14, <1>b, <2>1 DEF MarkBatchAcked
  <2>. QED  BY <1>14, <1>b, <1>c, <2>2, <2>3, ReturnTypes DEF MarkBatchAcked
<1>15. ASSUME NEW p \in Clients, CutShort(p) PROVE TypeInv'
  <2>1. used' \in [ids : 0..MaxCards, faults : 0..MaxFaults]
    BY <1>15, <1>b, BoundsType DEF CutShort
  <2>. QED  BY <1>15, <1>b, <1>c, <2>1, ReturnTypes DEF CutShort
<1>16. ASSUME NEW i \in Ids, Propagate(i) PROVE TypeInv'
  <2>1. index' \in [Ids -> Card \cup {Absent}]
    BY <1>16, <1>b DEF Propagate
  <2>2. ShapeInv'
    BY <1>16, <1>a DEF Propagate, ShapeInv, Sighting, Upserting
  <2>. QED  BY <1>16, <1>a, <1>b, <1>c, <2>1, <2>2 DEF Propagate
<1>17. ASSUME NEW p \in Clients, ClientStep(p) PROVE TypeInv'
  <2>1. CASE \E f \in Files : \/ BeginSighting(p, f)
                              \/ ForcePendingEdit(p, f)
                              \/ \E guard \in 0..clock : ClearPendingEdit(p, f, guard)
    BY <2>1, <1>2, <1>6, <1>7
  <2>. QED  BY <1>17, <2>1, <1>3, <1>4, <1>5, <1>8, <1>9, <1>10, <1>11, <1>12, <1>13,
               <1>14, <1>15 DEF ClientStep
<1>18. TypeInv'
  BY <1>1, <1>16, <1>17 DEF Next
<1>. QED  BY <1>18

LEMMA TypeInit == Init => TypeInv
<1> SUFFICES ASSUME Init PROVE TypeInv
  OBVIOUS
<1>1. call \in [Clients -> CallState] /\ \A p \in Clients : call[p].pc = "idle"
  BY IdleTypes DEF Init, IdleCall
<1>2. ShapeInv
  BY <1>1 DEF ShapeInv, Sighting, Upserting
<1>3. won \in [tokens : [Tokens -> Nat], batches : [Batches -> Nat]]
  BY DEF Init
<1>. QED  BY <1>1, <1>2, <1>3, BoundsType DEF Init, TypeInv, TypeOK, CallState, Tokens

LEMMA TypeInvCorrect == Spec => []TypeInv
  BY TypeInit, TypeStep, PTL DEF Spec

\* The variables stay in their types, and a call never uses a local variable
\* it has not set.
THEOREM TypeCorrect == Spec => []TypeOK
<1>1. TypeInv => TypeOK
  BY DEF TypeInv
<1>. QED  BY <1>1, TypeInvCorrect, PTL

----------------------------------------------------------------------------
(* The conditional updates *)

\* A token has been advanced once when the table is past it, and never before;
\* and likewise a batch.
WinnerInv ==
    /\ \A t \in Tokens : won.tokens[t] = IF t < token THEN 1 ELSE 0
    /\ \A b \in Batches : won.batches[b] = IF b \in acked THEN 1 ELSE 0

LEMMA WinnerStep == TypeInv /\ WinnerInv /\ [Next]_vars => WinnerInv'
<1> SUFFICES ASSUME TypeInv, WinnerInv, [Next]_vars PROVE WinnerInv'
  OBVIOUS
<1>a. /\ token \in Tokens
      /\ won \in [tokens : [Tokens -> Nat], batches : [Batches -> Nat]]
  BY DEF TypeInv, TypeOK
<1>1. ASSUME UNCHANGED <<token, acked, won>> PROVE WinnerInv'
  BY <1>1 DEF WinnerInv
<1>2. ASSUME NEW p \in Clients, AdvanceToken(p) PROVE WinnerInv'
  <2>1. call[p].token \in Tokens /\ call[p].token < MaxToken /\ UNCHANGED acked
    BY <1>2, CallTypes DEF AdvanceToken, TypeInv, ShapeInv, CallState
  <2>2. CASE TokenIs(call[p].token)
    <3>1. token' = token + 1 /\ won' = [won EXCEPT !.tokens[token] = @ + 1]
      BY <1>2, <2>2 DEF AdvanceToken, TokenIs
    <3>2. /\ won'.batches = won.batches
          /\ \A t \in Tokens : won'.tokens[t] = IF t = token THEN won.tokens[t] + 1
                                                ELSE won.tokens[t]
      BY <1>a, <3>1
    <3>3. \A t \in Tokens : won'.tokens[t] = IF t < token + 1 THEN 1 ELSE 0
      BY <1>a, <3>2, BoundsType DEF WinnerInv, Tokens
    <3>. QED  BY <2>1, <3>1, <3>2, <3>3 DEF WinnerInv
  <2>3. CASE ~TokenIs(call[p].token)
    BY <1>1, <1>2, <2>1, <2>3 DEF AdvanceToken
  <2>. QED  BY <2>2, <2>3
<1>3. ASSUME NEW p \in Clients, MarkBatchAcked(p) PROVE WinnerInv'
  <2>. DEFINE b == call[p].about
  <2>1. UNCHANGED token /\ b \in Batches
    BY <1>3 DEF MarkBatchAcked, TypeInv, ShapeInv
  <2>2. CASE b \notin acked
    <3>1. acked' = acked \cup {b} /\ won' = [won EXCEPT !.batches[b] = @ + 1]
      BY <1>3, <2>2 DEF MarkBatchAcked
    <3>2. /\ won'.tokens = won.tokens
          /\ \A a \in Batches : won'.batches[a] = IF a = b THEN won.batches[a] + 1
                                                  ELSE won.batches[a]
      BY <1>a, <2>1, <3>1
    <3>3. \A a \in Batches : won'.batches[a] = IF a \in acked' THEN 1 ELSE 0
      BY <2>2, <3>1, <3>2 DEF WinnerInv
    <3>. QED  BY <2>1, <3>2, <3>3 DEF WinnerInv
  <2>3. CASE b \in acked
    BY <1>1, <1>3, <2>1, <2>3 DEF MarkBatchAcked
  <2>. QED  BY <2>2, <2>3
<1>4. ASSUME NEW p \in Clients, ClientStep(p), ~AdvanceToken(p), ~MarkBatchAcked(p)
      PROVE  UNCHANGED <<token, acked, won>>
  BY <1>4 DEF ClientStep, BeginSighting, ForcePendingEdit, ClearPendingEdit, GetRow,
     PutRow, UpdateRow, ReturnRow, BeginUpsertCard, QueryIndex, PutCard,
     GetDriveChannel, GetIssuedBatch, CutShort
<1>5. ASSUME NEW i \in Ids, Propagate(i) PROVE UNCHANGED <<token, acked, won>>
  BY <1>5 DEF Propagate
<1>6. CASE UNCHANGED vars
  BY <1>1, <1>6 DEF vars
<1>. QED  BY <1>1, <1>2, <1>3, <1>4, <1>5, <1>6 DEF Next

\* Of two pulls that read the same token one advances it, and of two
\* acknowledgements of a batch one counts, however the calls of any number of
\* clients overlap and wherever they are cut short.
THEOREM OneWinnerAlways == Spec => []OneWinner
<1>1. Init => WinnerInv
  BY BoundsType DEF Init, WinnerInv, Tokens
<1>2. WinnerInv => OneWinner
  BY DEF WinnerInv, OneWinner
<1>. QED  BY <1>1, <1>2, WinnerStep, TypeInvCorrect, PTL DEF Spec

----------------------------------------------------------------------------
(* The table of cards, when the calls about a headword do not overlap *)

\* A client that is to put a card knows the one id its headword may have: the
\* index had caught up when it was queried, and nobody else puts that headword.
UpsertInv ==
    /\ \A i \in Ids : item[i] # Absent => i <= used.ids
    /\ \A i \in Ids : index[i] # Absent =>
           item[i] # Absent /\ item[i].key = index[i].key
    /\ \A i, j \in Ids :
           item[i] # Absent /\ item[j] # Absent /\ item[i].key = item[j].key => i = j
    /\ \A p \in Clients : call[p].pc = "query" => CaughtUp(call[p].about)
    /\ \A p \in Clients : call[p].pc = "putcard" =>
           /\ call[p].id <= used.ids
           /\ CardsOf(call[p].about) \subseteq {call[p].id}
           /\ item[call[p].id] # Absent => item[call[p].id].key = call[p].about
    /\ \A p, q \in Clients : p # q /\ Upserting(p) /\ Upserting(q) =>
           /\ call[p].about # call[q].about
           /\ call[p].pc = "putcard" /\ call[q].pc = "putcard" => call[p].id # call[q].id

\* A step that touches no card and leaves p in no upsert keeps the invariant.
LEMMA NoUpsert ==
    ASSUME UpsertInv, UNCHANGED <<item, index>>, used'.ids = used.ids,
           \A p \in Clients : call'[p] = call[p] \/ ~Upserting(p)'
    PROVE  UpsertInv'
  BY DEF UpsertInv, Upserting, CaughtUp, CardsOf

LEMMA UpsertStep == TypeInv /\ Exclusive /\ UpsertInv /\ [Next]_vars => UpsertInv'
<1> SUFFICES ASSUME TypeInv, Exclusive, UpsertInv, [Next]_vars PROVE UpsertInv'
  OBVIOUS
<1>a. ShapeInv /\ call \in [Clients -> CallState]
  BY DEF TypeInv, TypeOK, CallState
<1>b. /\ item \in [Ids -> Card \cup {Absent}]
      /\ index \in [Ids -> Card \cup {Absent}]
      /\ used \in [ids : 0..MaxCards, faults : 0..MaxFaults]
  BY DEF TypeInv, TypeOK
<1>1. ASSUME NEW p \in Clients, NEW k \in Keys, NEW content \in Contents,
             BeginUpsertCard(p, k, content)
      PROVE  UpsertInv'
  <2>1. /\ call' = [call EXCEPT ![p] =
               [IdleCall EXCEPT !.pc = "query", !.about = k, !.content = content]]
        /\ UNCHANGED <<item, index, used>>
    BY <1>1 DEF BeginUpsertCard, cards
  <2>2. call'[p].pc = "query" /\ call'[p].about = k
    BY <1>a, <2>1 DEF IdleCall
  <2>3. \A q \in Clients : q # p => call'[q] = call[q]
    BY <1>a, <2>1
  <2>4. CaughtUp(k) /\ \A q \in Clients : call[q].about # k
    BY <1>1 DEF BeginUpsertCard, Free
  <2>. QED  BY <2>1, <2>2, <2>3, <2>4 DEF UpsertInv, Upserting, CaughtUp, CardsOf
<1>2. ASSUME NEW p \in Clients, QueryIndex(p) PROVE UpsertInv'
  <2>. DEFINE k == call[p].about
  <2>1. /\ call[p].pc = "query" /\ call[p] \in CallState /\ k \in Keys
        /\ UNCHANGED <<item, index>>
    BY <1>2, <1>a DEF QueryIndex, cards, ShapeInv, Upserting
  <2>2. CaughtUp(k)
    BY <2>1 DEF UpsertInv
  <2>3. ASSUME NEW i \in Ids, call'[p].pc = "putcard", call'[p].id = i,
               call'[p].about = k, \A q \in Clients : q # p => call'[q] = call[q],
               i <= used'.ids, used.ids <= used'.ids,
               used.ids \in Nat, used'.ids \in Nat,
               CardsOf(k) \subseteq {i}, item[i] # Absent => item[i].key = k,
               \A q \in Clients : q # p /\ call[q].pc = "putcard" => call[q].id # i
        PROVE  UpsertInv'
    <3>1. \A q \in Clients : call'[q].pc = "query" => CaughtUp(call[q].about)'
      BY <2>1, <2>3 DEF UpsertInv, CaughtUp
    <3>2. \A q \in Clients : call'[q].pc = "putcard" =>
              /\ call'[q].id <= used'.ids
              /\ CardsOf(call[q].about)' \subseteq {call'[q].id}
              /\ item'[call'[q].id] # Absent => item'[call'[q].id].key = call'[q].about
      <4>1. \A q \in Clients : call[q].pc = "putcard" => call[q].id \in Ids
        BY <1>a DEF ShapeInv
      <4>. QED  BY <2>1, <2>3, <4>1 DEF UpsertInv, CardsOf, Ids
    <3>3. \A j \in Ids : item'[j] # Absent => j <= used'.ids
      BY <2>1, <2>3 DEF UpsertInv, Ids
    <3>. QED  BY <2>1, <2>3, <3>1, <3>2, <3>3 DEF UpsertInv, Upserting
  <2>4. CASE /\ Found(k) = {}
             /\ used.ids < MaxCards
             /\ used' = [used EXCEPT !.ids = @ + 1]
             /\ call' = [call EXCEPT ![p] = [@ EXCEPT !.pc = "putcard", !.id = used'.ids]]
    <3>1. used.ids \in Nat /\ used'.ids = used.ids + 1 /\ used'.ids \in Ids
      BY <2>4, <1>b, BoundsType DEF Ids
    <3>2. /\ call'[p].pc = "putcard" /\ call'[p].id = used'.ids /\ call'[p].about = k
          /\ \A q \in Clients : q # p => call'[q] = call[q]
      BY <2>4, <2>1, <1>a DEF CallState
    <3>3. CardsOf(k) = {}
      BY <2>2, <2>4 DEF CaughtUp, CardsOf, Found
    <3>4. item[used'.ids] = Absent
      BY <3>1 DEF UpsertInv
    <3>5. \A q \in Clients : call[q].pc = "putcard" =>
              call[q].id <= used.ids /\ call[q].id \in Nat
      BY <1>a DEF UpsertInv, CallState, Ids
    <3>. QED  BY <2>3, <3>1, <3>2, <3>3, <3>4, <3>5
  <2>5. ASSUME NEW i \in Found(k),
               call' = [call EXCEPT ![p] =
                   IF index[i].content = call[p].content THEN IdleCall
                   ELSE [call[p] EXCEPT !.pc = "putcard", !.id = i]],
               UNCHANGED used
        PROVE  UpsertInv'
    <3>1. CASE index[i].content = call[p].content
      <4>1. call' = [call EXCEPT ![p] = IdleCall]
        BY <2>5, <3>1
      <4>2. ~Upserting(p)' /\ \A q \in Clients : q # p => call'[q] = call[q]
        BY <1>a, <4>1 DEF Upserting, IdleCall
      <4>3. \A q \in Clients : call'[q] = call[q] \/ ~Upserting(q)'
        BY <4>2
      <4>. QED  BY <2>1, <2>5, <4>3, NoUpsert
    <3>2. CASE index[i].content # call[p].content
      <4>1. /\ call'[p].pc = "putcard" /\ call'[p].id = i /\ call'[p].about = k
            /\ \A q \in Clients : q # p => call'[q] = call[q]
        BY <2>5, <3>2, <2>1, <1>a DEF CallState
      <4>2. i \in Ids /\ item[i] # Absent /\ item[i].key = k
        BY DEF Found, UpsertInv
      <4>3. CardsOf(k) \subseteq {i}
        BY <4>2 DEF UpsertInv, CardsOf
      <4>4. \A q \in Clients : q # p /\ call[q].pc = "putcard" => call[q].id # i
        BY <2>1, <4>2 DEF UpsertInv, Upserting
      <4>5. used.ids \in Nat /\ used'.ids = used.ids /\ i <= used.ids
        BY <1>b, <2>5, <4>2 DEF UpsertInv
      <4>. QED  BY <2>3, <4>1, <4>2, <4>3, <4>4, <4>5
    <3>. QED  BY <3>1, <3>2
  <2>. QED  BY <1>2, <2>4, <2>5 DEF QueryIndex
<1>3. ASSUME NEW p \in Clients, PutCard(p) PROVE UpsertInv'
  <2>. DEFINE k == call[p].about
              n == call[p].id
  <2>1. /\ call[p].pc = "putcard" /\ n \in Ids /\ k \in Keys
        /\ UNCHANGED <<index, used>>
    BY <1>3, <1>a DEF PutCard, ShapeInv, Upserting
  <2>2. /\ item'[n].key = k /\ item'[n] # Absent
        /\ \A i \in Ids : i # n => item'[i] = item[i]
    <3>1. [key |-> k, content |-> call[p].content] \in Card
      BY <2>1, <1>a DEF Card, ShapeInv, Upserting
    <3>. QED  BY <1>3, <1>b, <2>1, <3>1, AbsentDistinct DEF PutCard
  <2>3. call'[p].pc = "idle" /\ \A q \in Clients : q # p => call'[q] = call[q]
    BY <1>3, <1>a DEF PutCard, Return, IdleCall
  <2>4. /\ n <= used.ids /\ CardsOf(k) \subseteq {n}
        /\ item[n] # Absent => item[n].key = k
    BY <2>1 DEF UpsertInv
  <2>5. \A q \in Clients : q # p /\ Upserting(q) =>
            /\ call[q].about # k
            /\ call[q].pc = "putcard" => call[q].id # n /\ call[q].id \in Ids
    BY <2>1, <1>a DEF UpsertInv, Upserting, ShapeInv
  <2>6. \A i \in Ids : item'[i] # Absent => i <= used'.ids
    BY <2>1, <2>2, <2>4 DEF UpsertInv
  <2>7. \A i \in Ids : index'[i] # Absent => item'[i] # Absent /\ item'[i].key = index'[i].key
    BY <2>1, <2>2, <2>4 DEF UpsertInv
  <2>8. \A i, j \in Ids :
            item'[i] # Absent /\ item'[j] # Absent /\ item'[i].key = item'[j].key => i = j
    BY <2>1, <2>2, <2>4 DEF UpsertInv, CardsOf
  <2>9. \A q \in Clients : call'[q].pc = "query" => CaughtUp(call[q].about)'
    BY <2>1, <2>2, <2>3, <2>5 DEF UpsertInv, CaughtUp, Upserting
  <2>10. \A q \in Clients : call'[q].pc = "putcard" =>
             /\ call'[q].id <= used'.ids
             /\ CardsOf(call[q].about)' \subseteq {call'[q].id}
             /\ item'[call'[q].id] # Absent => item'[call'[q].id].key = call'[q].about
    BY <2>1, <2>2, <2>3, <2>5 DEF UpsertInv, CardsOf, Upserting
  <2>11. \A q, r \in Clients : q # r /\ Upserting(q)' /\ Upserting(r)' =>
             /\ call'[q].about # call'[r].about
             /\ call'[q].pc = "putcard" /\ call'[r].pc = "putcard" => call'[q].id # call'[r].id
    BY <2>3 DEF UpsertInv, Upserting
  <2>. QED  BY <2>6, <2>7, <2>8, <2>9, <2>10, <2>11 DEF UpsertInv
<1>4. ASSUME NEW i \in Ids, Propagate(i) PROVE UpsertInv'
  <2>1. /\ UNCHANGED <<item, call, used>>
        /\ index'[i] = item[i]
        /\ \A j \in Ids : j # i => index'[j] = index[j]
    BY <1>4, <1>b DEF Propagate
  <2>. QED  BY <2>1 DEF UpsertInv, Upserting, CaughtUp, CardsOf
<1>5. ASSUME NEW p \in Clients, ClientStep(p), ~QueryIndex(p), ~PutCard(p),
             ~\E k \in Keys, content \in Contents : BeginUpsertCard(p, k, content)
      PROVE  UpsertInv'
  <2>1. UNCHANGED <<item, index>>
    BY <1>5 DEF ClientStep, BeginSighting, ForcePendingEdit, ClearPendingEdit, GetRow,
       PutRow, UpdateRow, ReturnRow, GetDriveChannel, AdvanceToken, GetIssuedBatch,
       MarkBatchAcked, CutShort, cards
  <2>2. used'.ids = used.ids
    BY <1>5, <1>b DEF ClientStep, BeginSighting, ForcePendingEdit, ClearPendingEdit, GetRow,
       PutRow, UpdateRow, ReturnRow, GetDriveChannel, AdvanceToken, GetIssuedBatch,
       MarkBatchAcked, CutShort
  <2>3. \A q \in Clients : q # p => call'[q] = call[q]
    BY <1>5, <1>a DEF ClientStep, BeginSighting, ForcePendingEdit, ClearPendingEdit, GetRow,
       PutRow, UpdateRow, ReturnRow, GetDriveChannel, AdvanceToken, GetIssuedBatch,
       MarkBatchAcked, CutShort, Return
  <2>4. call'[p] = call[p] \/ ~Upserting(p)'
    <3>1. ASSUME Return(p) PROVE ~Upserting(p)'
      BY <3>1, <1>a DEF Return, Upserting, IdleCall
    <3>2. ASSUME NEW f \in Files, BeginSighting(p, f) PROVE ~Upserting(p)'
      BY <3>2, <1>a DEF BeginSighting, Upserting, IdleCall
    <3>3. ASSUME GetRow(p) \/ PutRow(p) \/ UpdateRow(p) PROVE ~Upserting(p)'
      BY <3>3, <1>a DEF GetRow, PutRow, UpdateRow, Upserting, CallState
    <3>4. ASSUME GetDriveChannel(p) PROVE ~Upserting(p)'
      BY <3>4, <1>a DEF GetDriveChannel, Upserting, IdleCall
    <3>5. ASSUME NEW b \in Batches, GetIssuedBatch(p, b) PROVE ~Upserting(p)'
      BY <3>5, <1>a DEF GetIssuedBatch, Upserting, IdleCall
    <3>. QED  BY <1>5, <3>1, <3>2, <3>3, <3>4, <3>5 DEF ClientStep, ForcePendingEdit,
              ClearPendingEdit, ReturnRow, AdvanceToken, MarkBatchAcked, CutShort
  <2>5. \A q \in Clients : call'[q] = call[q] \/ ~Upserting(q)'
    BY <2>3, <2>4
  <2>. QED  BY <2>1, <2>2, <2>5, NoUpsert
<1>6. CASE UNCHANGED vars
  BY <1>6, NoUpsert DEF vars, cards
<1>. QED  BY <1>1, <1>2, <1>3, <1>4, <1>5, <1>6 DEF Next

LEMMA UpsertInit == Init => UpsertInv
  BY DEF Init, UpsertInv, IdleCall, Upserting

LEMMA UpsertInvCorrect == Exclusive => (Spec => []UpsertInv)
<1> SUFFICES ASSUME Exclusive PROVE Spec => []UpsertInv
  OBVIOUS
<1>1. TypeInv /\ UpsertInv /\ [Next]_vars => UpsertInv'
  BY UpsertStep
<1>. QED  BY <1>1, UpsertInit, TypeInvCorrect, PTL DEF Spec

\* A headword has one card, provided calls about it do not overlap and the index
\* has caught up with the last one; other calls may overlap with it, and each
\* may be cut short.
THEOREM OneCardPerKeyExclusively == Exclusive => (Spec => []OneCardPerKey)
<1> SUFFICES ASSUME Exclusive PROVE Spec => []OneCardPerKey
  OBVIOUS
<1>1. TypeInv /\ UpsertInv => OneCardPerKey
  <2> SUFFICES ASSUME TypeInv, UpsertInv, NEW k \in Keys
               PROVE  Cardinality(CardsOf(k)) <= 1
    BY DEF OneCardPerKey
  <2>1. CASE CardsOf(k) = {}
    BY <2>1, FS_EmptySet
  <2>2. ASSUME NEW i \in CardsOf(k) PROVE Cardinality(CardsOf(k)) <= 1
    <3>1. CardsOf(k) = {i}
      BY DEF CardsOf, UpsertInv
    <3>. QED  BY <3>1, FS_Singleton
  <2>. QED  BY <2>1, <2>2
<1>. QED  BY <1>1, UpsertInvCorrect, TypeInvCorrect, PTL

\* The row of a headword with a card is the row of that card.
LEMMA RowOfCard ==
    ASSUME UpsertInv, NEW i \in Ids, item[i] # Absent, item[i].key \in Keys
    PROVE  CardRows[item[i].key] = [id |-> i, content |-> item[i].content]
<1>1. CardsOf(item[i].key) = {i}
  BY DEF CardsOf, UpsertInv
<1>2. (CHOOSE j \in CardsOf(item[i].key) : TRUE) = i
  BY <1>1
<1>. QED  BY <1>1, <1>2 DEF CardRows

LEMMA RowOfNone ==
    ASSUME NEW k \in Keys, CardsOf(k) = {}
    PROVE  CardRows[k] = Absent
  BY DEF CardRows

\* Putting a card creates the row of its headword, or changes the content of the
\* row that is there; no other step touches the table.
LEMMA CardTableStep ==
    TypeInv /\ Exclusive /\ UpsertInv /\ UpsertInv' /\ [Next]_vars => [Table!Next]_CardRows
<1> SUFFICES ASSUME TypeInv, Exclusive, UpsertInv, UpsertInv', [Next]_vars
             PROVE  [Table!Next]_CardRows
  OBVIOUS
<1>1. ASSUME UNCHANGED item PROVE UNCHANGED CardRows
  <2>1. \A k \in Keys : CardsOf(k)' = CardsOf(k)
    BY <1>1 DEF CardsOf
  <2>. QED  BY <1>1, <2>1 DEF CardRows
<1>2. ASSUME NEW p \in Clients, PutCard(p) PROVE Table!Next
  <2>. DEFINE k == call[p].about
              n == call[p].id
              x == call[p].content
  <2>1. k \in Keys /\ n \in Ids /\ x \in Contents /\ n \in Nat
    BY <1>2 DEF PutCard, TypeInv, ShapeInv, Upserting, Ids
  <2>2. /\ item \in [Ids -> Card \cup {Absent}]
        /\ item' = [item EXCEPT ![n] = [key |-> k, content |-> x]]
    BY <1>2 DEF PutCard, TypeInv, TypeOK
  <2>3. [key |-> k, content |-> x] # Absent
    BY <2>1, AbsentDistinct DEF Card
  <2>4. /\ item'[n] = [key |-> k, content |-> x]
        /\ \A i \in Ids : i # n => item'[i] = item[i]
    BY <2>1, <2>2
  <2>5. CardsOf(k) \subseteq {n} /\ (item[n] # Absent => item[n].key = k)
    BY <1>2 DEF PutCard, UpsertInv
  <2>6. \A m \in Keys : m = k => CardsOf(m)' = {n}
    BY <2>1, <2>3, <2>4, <2>5 DEF CardsOf
  <2>7. CardRows'[k] = [id |-> n, content |-> x]
    <3>1. ASSUME NEW m \in Keys, m = k PROVE CardRows'[m] = [id |-> n, content |-> x]
      <4>1. CardsOf(m)' = {n} /\ (CHOOSE j \in CardsOf(m)' : TRUE) = n
        BY <2>6, <3>1
      <4>. QED  BY <2>4, <4>1 DEF CardRows
    <3>. QED  BY <2>1, <3>1
  <2>8. CardRows'[k] # Absent /\ CardRows'[k].id = n
    BY <2>1, <2>7, AbsentDistinct
  <2>9. ASSUME NEW j \in Keys, j # k
        PROVE  /\ CardRows'[j] = CardRows[j]
               /\ CardRows[j] # Absent => CardRows[j].id # n
    <3>1. CardsOf(j)' = CardsOf(j) /\ n \notin CardsOf(j)
      BY <2>3, <2>4, <2>5, <2>9 DEF CardsOf
    <3>2. CASE CardsOf(j) = {}
      BY <3>1, <3>2 DEF CardRows
    <3>3. ASSUME NEW i \in CardsOf(j)
          PROVE  /\ CardRows'[j] = CardRows[j]
                 /\ CardRows[j] # Absent => CardRows[j].id # n
      <4>1. i \in Ids /\ item[i] # Absent /\ item[i].key = j /\ i # n
        BY <3>1, <3>3 DEF CardsOf
      <4>2. CardRows[j] = [id |-> i, content |-> item[i].content]
        BY <4>1, RowOfCard
      <4>3. CardsOf(j) = {i}
        BY <4>1 DEF CardsOf, UpsertInv
      <4>4. CardRows'[j] = [id |-> i, content |-> item'[i].content]
        <5>1. (CHOOSE a \in CardsOf(j)' : TRUE) = i
          BY <3>1, <4>3
        <5>. QED  BY <3>1, <4>3, <5>1 DEF CardRows
      <4>. QED  BY <2>4, <4>1, <4>2, <4>4
    <3>. QED  BY <3>2, <3>3
  <2>10. DOMAIN CardRows' = Keys
    BY DEF CardRows
  <2>11. CASE CardsOf(k) = {}
    <3>1. CardRows[k] = Absent
      BY <2>1, <2>11, RowOfNone
    <3>2. Table!Create(k)
      BY <2>8, <2>9, <3>1 DEF Table!Create, Table!Others
    <3>. QED  BY <2>1, <2>10, <3>2 DEF Table!Next
  <2>12. CASE CardsOf(k) # {}
    <3>1. item[n] # Absent /\ item[n].key = k
      BY <2>5, <2>12 DEF CardsOf
    <3>2. item[n] \in Card /\ item[n].content \in Contents
      BY <2>1, <2>2, <3>1 DEF Card
    <3>3. CardRows[k] = [id |-> n, content |-> item[n].content]
      BY <2>1, <3>1, RowOfCard
    <3>4. CardRows[k] # Absent /\ CardRows[k].id = n
      BY <2>1, <3>2, <3>3, AbsentDistinct
    <3>5. Table!Update(k)
      BY <2>8, <2>9, <3>4 DEF Table!Update, Table!Others
    <3>. QED  BY <2>1, <2>10, <3>5 DEF Table!Next
  <2>. QED  BY <2>11, <2>12
<1>3. ASSUME NEW p \in Clients, ClientStep(p), ~PutCard(p) PROVE UNCHANGED item
  BY <1>3 DEF ClientStep, BeginSighting, ForcePendingEdit, ClearPendingEdit, GetRow,
     PutRow, UpdateRow, ReturnRow, BeginUpsertCard, QueryIndex, GetDriveChannel,
     AdvanceToken, GetIssuedBatch, MarkBatchAcked, CutShort, cards
<1>4. ASSUME NEW i \in Ids, Propagate(i) PROVE UNCHANGED item
  BY <1>4 DEF Propagate
<1>5. CASE UNCHANGED vars
  BY <1>1, <1>5 DEF vars, cards
<1>. QED  BY <1>1, <1>2, <1>3, <1>4, <1>5 DEF Next

\* Then the store is the table of cards that the rest of the code takes it for:
\* each headword has one row, and keeps the id it was first given.
THEOREM CardTableImplemented == Exclusive => (Spec => ImplementsCardTable)
<1> SUFFICES ASSUME Exclusive PROVE Spec => ImplementsCardTable
  OBVIOUS
<1>1. Init => Table!Init
  BY DEF Init, Table!Init, CardRows, CardsOf
<1>2. TypeInv /\ UpsertInv /\ UpsertInv' /\ [Next]_vars => [Table!Next]_CardRows
  BY CardTableStep
<1>. QED  BY <1>1, <1>2, UpsertInvCorrect, TypeInvCorrect, PTL
          DEF Spec, ImplementsCardTable, Table!Spec

----------------------------------------------------------------------------
(* The table of pending edits, when the calls about a file do not overlap *)

\* A sighting that is to put a row still finds none, one that is to update a row
\* still finds it, and no row is a partial one.
SightingInv ==
    /\ \A f \in Files : row[f] # Absent => row[f].whole
    /\ \A p \in Clients :
           /\ call[p].pc = "put" => row[call[p].about] = Absent
           /\ call[p].pc = "update" => row[call[p].about] # Absent
    /\ \A p, q \in Clients :
           p # q /\ Sighting(p) /\ Sighting(q) => call[p].about # call[q].about

\* A step that touches no row and leaves p in no sighting keeps the invariant.
LEMMA NoSighting ==
    ASSUME SightingInv, UNCHANGED row,
           \A p \in Clients : call'[p] = call[p] \/ ~Sighting(p)'
    PROVE  SightingInv'
  BY DEF SightingInv, Sighting

\* A step of a sighting changes one client's call and the row of its file.
LEMMA SightingStep ==
    TypeInv /\ Exclusive /\ SightingInv /\ [Next]_vars => SightingInv'
<1> SUFFICES ASSUME TypeInv, Exclusive, SightingInv, [Next]_vars PROVE SightingInv'
  OBVIOUS
<1>a. ShapeInv /\ call \in [Clients -> CallState] /\ row \in [Files -> Row \cup {Absent}]
  BY DEF TypeInv, TypeOK, CallState
<1>1. ASSUME NEW p \in Clients, NEW f \in Files, BeginSighting(p, f) PROVE SightingInv'
  <2>1. call'[p].pc = "get" /\ call'[p].about = f
    BY <1>1, <1>a DEF BeginSighting, IdleCall
  <2>2. UNCHANGED row /\ \A q \in Clients : q # p => call'[q] = call[q]
    BY <1>1, <1>a DEF BeginSighting
  <2>3. \A q \in Clients : call[q].about # f
    BY <1>1 DEF BeginSighting, Free
  <2>. QED  BY <2>1, <2>2, <2>3 DEF SightingInv, Sighting
<1>2. ASSUME NEW p \in Clients, GetRow(p) PROVE SightingInv'
  <2>0. /\ row[call[p].about] = Absent
             => call' = [call EXCEPT ![p] = [call[p] EXCEPT !.pc = "put"]]
        /\ row[call[p].about] # Absent
             => call' = [call EXCEPT ![p] = [call[p] EXCEPT !.pc = "update"]]
    BY <1>2 DEF GetRow
  <2>1. /\ call'[p].pc = IF row[call[p].about] = Absent THEN "put" ELSE "update"
        /\ call'[p].about = call[p].about
    BY <2>0, <1>a DEF CallState
  <2>2. UNCHANGED row /\ \A q \in Clients : q # p => call'[q] = call[q]
    BY <1>2, <1>a DEF GetRow
  <2>3. Sighting(p)
    BY <1>2 DEF GetRow, Sighting
  <2>. QED  BY <2>1, <2>2, <2>3 DEF SightingInv, Sighting
<1>3. ASSUME NEW p \in Clients, PutRow(p) \/ UpdateRow(p) PROVE SightingInv'
  <2>. DEFINE f == call[p].about
  <2>1. f \in Files /\ Sighting(p)
    BY <1>3, <1>a DEF PutRow, UpdateRow, ShapeInv, Sighting
  <2>2. /\ call'[p].pc = "return" /\ call'[p].about = f
        /\ \A q \in Clients : q # p => call'[q] = call[q]
    BY <1>3, <1>a DEF PutRow, UpdateRow, CallState
  <2>3. row'[f] # Absent /\ row'[f].whole
    <3>1. call[p].now \in Nat /\ call[p].now + Quiet \in Nat /\ call[p].now + MaxDelay \in Nat
      BY <1>a, SettlingType DEF CallState
    <3>2. CASE PutRow(p)
      <4>1. row'[f] = NewRow(call[p].now)
        BY <1>a, <2>1, <3>2 DEF PutRow
      <4>2. NewRow(call[p].now) \in Row /\ NewRow(call[p].now).whole
        BY <3>1 DEF NewRow, Row
      <4>. QED  BY <4>1, <4>2, AbsentDistinct
    <3>3. CASE UpdateRow(p)
      <4>1. row[f] \in Row /\ row[f].whole
        BY <1>a, <2>1, <3>3 DEF UpdateRow, SightingInv
      <4>2. row'[f] = [row[f] EXCEPT !.last = call[p].now, !.ready = call[p].now + Quiet]
        BY <1>a, <2>1, <3>3, <4>1, AbsentDistinct DEF UpdateRow, Slide
      <4>3. row'[f] \in Row /\ row'[f].whole
        BY <3>1, <4>1, <4>2 DEF Row
      <4>. QED  BY <4>3, AbsentDistinct
    <3>. QED  BY <1>3, <3>2, <3>3
  <2>4. \A g \in Files : g # f => row'[g] = row[g]
    BY <1>3, <1>a DEF PutRow, UpdateRow
  <2>5. \A q \in Clients : q # p /\ Sighting(q) => call[q].about # f /\ call[q].about \in Files
    BY <2>1, <1>a DEF SightingInv, ShapeInv
  <2>6. \A g \in Files : row'[g] # Absent => row'[g].whole
    BY <2>3, <2>4 DEF SightingInv
  <2>7. ASSUME NEW q \in Clients
        PROVE  /\ call'[q].pc = "put" => row'[call'[q].about] = Absent
               /\ call'[q].pc = "update" => row'[call'[q].about] # Absent
    BY <2>2, <2>4, <2>5 DEF SightingInv, Sighting
  <2>8. ASSUME NEW q \in Clients, NEW r \in Clients, q # r, Sighting(q)', Sighting(r)'
        PROVE  call'[q].about # call'[r].about
    BY <2>1, <2>2, <2>8 DEF SightingInv, Sighting
  <2>. QED  BY <2>6, <2>7, <2>8 DEF SightingInv
<1>4. ASSUME NEW p \in Clients, NEW f \in Files,
             \/ \E guard \in 0..clock : ClearPendingEdit(p, f, guard)
             \/ ForcePendingEdit(p, f)
      PROVE  SightingInv'
  <2>1. \A q \in Clients : call[q].about # f
    BY <1>4 DEF ClearPendingEdit, ForcePendingEdit, Free
  <2>2. UNCHANGED call /\ \A g \in Files : g # f => row'[g] = row[g]
    BY <1>4, <1>a DEF ClearPendingEdit, ForcePendingEdit
  <2>3. row'[f] # Absent => row'[f].whole
    BY <1>4, <1>a DEF ClearPendingEdit, ForcePendingEdit, SightingInv, Row
  <2>4. \A q \in Clients : call[q].pc \in {"put", "update"} =>
            call[q].about \in Files /\ row'[call[q].about] = row[call[q].about]
    BY <1>a, <2>1, <2>2 DEF ShapeInv, Sighting
  <2>. QED  BY <2>2, <2>3, <2>4 DEF SightingInv, Sighting
<1>5. ASSUME NEW p \in Clients, ClientStep(p),
             ~GetRow(p), ~PutRow(p), ~UpdateRow(p),
             ~\E f \in Files :
                 \/ BeginSighting(p, f)
                 \/ ForcePendingEdit(p, f)
                 \/ \E guard \in 0..clock : ClearPendingEdit(p, f, guard)
      PROVE  SightingInv'
  <2>1. UNCHANGED row /\ \A q \in Clients : q # p => call'[q] = call[q]
    BY <1>5, <1>a DEF ClientStep, ReturnRow, BeginUpsertCard, QueryIndex, PutCard,
       GetDriveChannel, AdvanceToken, GetIssuedBatch, MarkBatchAcked, CutShort, Return
  <2>2. ~Sighting(p)'
    <3>1. ASSUME Return(p) PROVE ~Sighting(p)'
      BY <3>1, <1>a DEF Return, Sighting, IdleCall
    <3>2. ASSUME NEW k \in Keys, NEW x \in Contents, BeginUpsertCard(p, k, x)
          PROVE  ~Sighting(p)'
      BY <3>2, <1>a DEF BeginUpsertCard, Sighting, IdleCall
    <3>3. ASSUME QueryIndex(p) PROVE ~Sighting(p)'
      <4>1. CASE call' = [call EXCEPT ![p] = [@ EXCEPT !.pc = "putcard", !.id = used'.ids]]
        BY <4>1, <1>a DEF Sighting, CallState
      <4>2. ASSUME NEW i \in Found(call[p].about),
                   call' = [call EXCEPT ![p] =
                       IF index[i].content = call[p].content THEN IdleCall
                       ELSE [call[p] EXCEPT !.pc = "putcard", !.id = i]]
            PROVE  ~Sighting(p)'
        <5>1. CASE index[i].content = call[p].content
          BY <4>2, <5>1, <1>a DEF Sighting, IdleCall
        <5>2. CASE index[i].content # call[p].content
          BY <4>2, <5>2, <1>a DEF Sighting, CallState
        <5>. QED  BY <5>1, <5>2
      <4>. QED  BY <3>3, <4>1, <4>2 DEF QueryIndex
    <3>4. ASSUME GetDriveChannel(p) PROVE ~Sighting(p)'
      BY <3>4, <1>a DEF GetDriveChannel, Sighting, IdleCall
    <3>5. ASSUME NEW b \in Batches, GetIssuedBatch(p, b) PROVE ~Sighting(p)'
      BY <3>5, <1>a DEF GetIssuedBatch, Sighting, IdleCall
    <3>. QED  BY <1>5, <3>1, <3>2, <3>3, <3>4, <3>5 DEF ClientStep, ReturnRow, PutCard,
              AdvanceToken, MarkBatchAcked, CutShort
  <2>3. \A q \in Clients : call'[q] = call[q] \/ ~Sighting(q)'
    BY <2>1, <2>2
  <2>. QED  BY <2>1, <2>3, NoSighting
<1>6. ASSUME NEW i \in Ids, Propagate(i) PROVE SightingInv'
  BY <1>6, NoSighting DEF Propagate
<1>7. CASE UNCHANGED vars
  BY <1>7, NoSighting DEF vars
<1>8. ASSUME NEW p \in Clients, ClientStep(p) PROVE SightingInv'
  BY <1>1, <1>2, <1>3, <1>4, <1>5, <1>8
<1>. QED  BY <1>6, <1>7, <1>8 DEF Next

LEMMA SightingInvCorrect == Exclusive => (Spec => []SightingInv)
<1> SUFFICES ASSUME Exclusive PROVE Spec => []SightingInv
  OBVIOUS
<1>1. TypeInv /\ SightingInv /\ [Next]_vars => SightingInv'
  BY SightingStep
<1>2. Init => SightingInv
  BY DEF Init, SightingInv, Sighting, IdleCall
<1>. QED  BY <1>1, <1>2, TypeInvCorrect, PTL DEF Spec

\* What a scan shows of a row.
Shown(r) == [first |-> r.first, last |-> r.last, ready |-> r.ready,
             hard |-> r.hard, force |-> r.force]

LEMMA ShownRows ==
    ASSUME SightingInv
    PROVE  /\ DOMAIN PendingRows = {f \in Files : row[f] # Absent}
           /\ PendingRows = [f \in {g \in Files : row[g] # Absent} |-> Shown(row[f])]
  BY DEF SightingInv, PendingRows, Listable, Shown

\* Forcing a row, seen from outside.
LEMMA ForceRow ==
    ASSUME NEW r \in Row, NEW x \in BOOLEAN, NEW s, s = [r EXCEPT !.force = x]
    PROVE  s \in Row /\ Shown(s) = [Shown(r) EXCEPT !.force = x]
<1>1. s \in Row
  BY DEF Row
<1>2. /\ s.first = r.first /\ s.last = r.last /\ s.ready = r.ready
      /\ s.hard = r.hard /\ s.force = x
  BY DEF Row
<1>3. ASSUME NEW y, s.force = y PROVE Shown(s) = [Shown(r) EXCEPT !.force = y]
  BY <1>2, <1>3 DEF Shown
<1>. QED  BY <1>1, <1>2, <1>3

\* Of the requests of a sighting one writes, the put or the update; they, a clear
\* and a force are the steps of the table, and no other step touches it.
LEMMA PendingStep ==
    TypeInv /\ Exclusive /\ SightingInv /\ SightingInv' /\ [Next]_vars
        => [Pending!Next]_PendingRows
<1> SUFFICES ASSUME TypeInv, Exclusive, SightingInv, SightingInv', [Next]_vars
             PROVE  [Pending!Next]_PendingRows
  OBVIOUS
<1>a. ShapeInv /\ call \in [Clients -> CallState] /\ row \in [Files -> Row \cup {Absent}]
  BY DEF TypeInv, TypeOK, CallState
<1>b. /\ PendingRows = [f \in {g \in Files : row[g] # Absent} |-> Shown(row[f])]
      /\ PendingRows' = [f \in {g \in Files : row'[g] # Absent} |-> Shown(row'[f])]
  BY ShownRows DEF SightingInv, PendingRows, Listable, Shown
<1>1. ASSUME UNCHANGED row PROVE UNCHANGED PendingRows
  BY <1>1, <1>b
<1>2. ASSUME NEW p \in Clients, PutRow(p) PROVE Pending!Next
  <2>. DEFINE f == call[p].about
              now == call[p].now
  <2>1. f \in Files /\ row[f] = Absent
    BY <1>2, <1>a DEF PutRow, ShapeInv, Sighting, SightingInv
  <2>2. now \in Nat /\ now + Quiet \in Nat /\ now + MaxDelay \in Nat
    BY <1>a, SettlingType DEF CallState
  <2>3. row'[f] = NewRow(now) /\ \A g \in Files : g # f => row'[g] = row[g]
    BY <1>2, <1>a, <2>1 DEF PutRow
  <2>4. NewRow(now) \in Row /\ NewRow(now) # Absent
    <3>1. NewRow(now) \in Row
      BY <2>2 DEF NewRow, Row
    <3>. QED  BY <3>1, AbsentDistinct
  <2>5. Shown(row'[f]) = [first |-> now, last |-> now, ready |-> now + Quiet,
                          hard |-> now + MaxDelay, force |-> FALSE]
    BY <2>3 DEF Shown, NewRow
  <2>6. {g \in Files : row'[g] # Absent} = {g \in Files : row[g] # Absent} \cup {f}
    BY <2>1, <2>3, <2>4
  <2>7. PendingRows'[f].last = now
    BY <1>b, <2>1, <2>5, <2>6
  <2>8. Pending!FirstSighting(f)
    BY <1>b, <2>1, <2>3, <2>5, <2>6, <2>7 DEF Pending!FirstSighting, Pending!With
  <2>. QED  BY <2>1, <2>8 DEF Pending!Next
<1>3. ASSUME NEW p \in Clients, UpdateRow(p) PROVE Pending!Next
  <2>. DEFINE f == call[p].about
              now == call[p].now
  <2>1. f \in Files /\ row[f] # Absent /\ row[f] \in Row
    BY <1>3, <1>a DEF UpdateRow, ShapeInv, Sighting, SightingInv
  <2>2. now \in Nat /\ now + Quiet \in Nat
    BY <1>a, SettlingType DEF CallState
  <2>3. /\ row'[f] = [row[f] EXCEPT !.last = now, !.ready = now + Quiet]
        /\ \A g \in Files : g # f => row'[g] = row[g]
    BY <1>3, <1>a, <2>1 DEF UpdateRow, Slide
  <2>4. /\ row'[f] \in Row
        /\ Shown(row'[f]) = [Shown(row[f]) EXCEPT !.last = now, !.ready = now + Quiet]
    <3>. DEFINE s == row'[f]
                r == row[f]
                n == now + Quiet
    <3>1. s \in Row
      BY <2>1, <2>2, <2>3 DEF Row
    <3>2. /\ s.first = r.first /\ s.last = now /\ s.ready = n
          /\ s.hard = r.hard /\ s.force = r.force
      BY <2>1, <2>3 DEF Row
    <3>. HIDE DEF f, now, s, r, n
    <3>3. Shown(s) = [Shown(r) EXCEPT !.last = now, !.ready = n]
      <4>. DEFINE F == [a \in {"first", "last", "ready", "hard", "force"} |->
                           IF a = "ready" THEN n ELSE IF a = "last" THEN now ELSE Shown(r)[a]]
      <4>1. Shown(s) = F
        BY <3>2 DEF Shown
      <4>2. [Shown(r) EXCEPT !.last = now, !.ready = n] = F
        BY DEF Shown
      <4>. QED  BY <4>1, <4>2
    <3>. QED  BY <3>1, <3>3 DEF s, r, n
  <2>5. row'[f] # Absent
    BY <2>4, AbsentDistinct
  <2>6. {g \in Files : row'[g] # Absent} = {g \in Files : row[g] # Absent}
    BY <2>1, <2>3, <2>5
  <2>7. PendingRows'[f].last = now
    BY <1>b, <2>1, <2>4, <2>6 DEF Shown
  <2>8. Pending!NextSighting(f)
    <3>1. PendingRows[f] = Shown(row[f]) /\ f \in DOMAIN PendingRows \cap DOMAIN PendingRows'
      BY <1>b, <2>1, <2>6
    <3>2. PendingRows' = Pending!With(f, Shown(row'[f]))
      BY <1>b, <2>1, <2>3, <2>6 DEF Pending!With
    <3>. QED  BY <2>4, <2>7, <3>1, <3>2 DEF Pending!NextSighting
  <2>. QED  BY <2>1, <2>8 DEF Pending!Next
<1>4. ASSUME NEW p \in Clients, NEW f \in Files, NEW guard, ClearPendingEdit(p, f, guard)
      PROVE  Pending!Next
  <2>1. row[f] # Absent /\ row'[f] = Absent /\ \A g \in Files : g # f => row'[g] = row[g]
    BY <1>4, <1>a DEF ClearPendingEdit
  <2>2. Pending!Clear(f)
    BY <1>b, <2>1 DEF Pending!Clear
  <2>. QED  BY <2>2 DEF Pending!Next
<1>5. ASSUME NEW p \in Clients, NEW f \in Files, ForcePendingEdit(p, f)
      PROVE  Pending!Next
  <2>1. row[f] # Absent /\ row[f] \in Row
    BY <1>5, <1>a DEF ForcePendingEdit
  <2>2. /\ row'[f] = [row[f] EXCEPT !.force = TRUE]
        /\ \A g \in Files : g # f => row'[g] = row[g]
    BY <1>5, <1>a DEF ForcePendingEdit
  <2>3. row'[f] \in Row /\ row'[f] # Absent
    BY <2>1, <2>2, ForceRow, AbsentDistinct
  <2>4. Shown(row'[f]) = [Shown(row[f]) EXCEPT !.force = TRUE]
    BY <2>1, <2>2, ForceRow
  <2>5. Pending!Force(f)
    <3>1. {g \in Files : row'[g] # Absent} = {g \in Files : row[g] # Absent}
      BY <2>1, <2>2, <2>3
    <3>2. PendingRows[f] = Shown(row[f]) /\ f \in DOMAIN PendingRows
      BY <1>b, <2>1
    <3>3. PendingRows' = [PendingRows EXCEPT ![f] = Shown(row'[f])]
      BY <1>b, <2>1, <2>2, <3>1
    <3>4. PendingRows' = [PendingRows EXCEPT ![f].force = TRUE]
      BY <2>4, <3>2, <3>3
    <3>. QED  BY <3>2, <3>4 DEF Pending!Force
  <2>. QED  BY <2>5 DEF Pending!Next
<1>6. ASSUME NEW p \in Clients, ClientStep(p), ~PutRow(p), ~UpdateRow(p),
             ~\E f \in Files : \/ ForcePendingEdit(p, f)
                               \/ \E guard \in 0..clock : ClearPendingEdit(p, f, guard)
      PROVE  UNCHANGED row
  BY <1>6 DEF ClientStep, BeginSighting, GetRow, ReturnRow, BeginUpsertCard, QueryIndex,
     PutCard, GetDriveChannel, AdvanceToken, GetIssuedBatch, MarkBatchAcked, CutShort
<1>7. ASSUME NEW i \in Ids, Propagate(i) PROVE UNCHANGED row
  BY <1>7 DEF Propagate
<1>8. CASE UNCHANGED vars
  BY <1>1, <1>8 DEF vars
<1>9. ASSUME NEW p \in Clients, ClientStep(p) PROVE [Pending!Next]_PendingRows
  BY <1>1, <1>2, <1>3, <1>4, <1>5, <1>6, <1>9
<1>. QED  BY <1>1, <1>7, <1>8, <1>9 DEF Next

\* Then the store is the table of pending edits that the rest of the code takes
\* it for: a file has one row, the first sighting fixes its hard deadline, later
\* ones slide its quiet window only, and nothing but a clear removes it.
THEOREM PendingEditsImplemented == Exclusive => (Spec => ImplementsPendingEdits)
<1> SUFFICES ASSUME Exclusive PROVE Spec => ImplementsPendingEdits
  OBVIOUS
<1>1. Init => Pending!Init
  BY DEF Init, Pending!Init, PendingRows, Listable
<1>2. TypeInv /\ SightingInv /\ SightingInv' /\ [Next]_vars => [Pending!Next]_PendingRows
  BY PendingStep
<1>. QED  BY <1>1, <1>2, SightingInvCorrect, TypeInvCorrect, PTL
          DEF Spec, ImplementsPendingEdits, Pending!Spec
=============================================================================
