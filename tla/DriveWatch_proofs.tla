-------------------------- MODULE DriveWatch_proofs --------------------------
(***************************************************************************)
(* Theorems about DriveWatch, for every life of a channel, every margin of *)
(* its renewal and every bound.                                            *)
(***************************************************************************)
EXTENDS DriveWatch, FiniteSetTheorems, TLAPS

----------------------------------------------------------------------------
(* The inductive invariant: types *)

ClientState ==
    [pc : {"idle", "token", "watch", "record", "stop", "renew", "unwatch", "deactivate"},
     todo : SUBSET Channels, old : Channels \cup {0}, new : Channels \cup {0},
     token : Nat, expires : Nat, rec : Record \cup {Absent}]

Usage == [channels : 0..MaxChannels, orders : 0..MaxOrders, faults : 0..MaxFaults]

Registering == {"token", "watch", "record"}

\* What a client holds where it is.
ClientShape(C) ==
    /\ C.pc = "idle" => C.todo = {} /\ C.old = 0
    /\ C.pc = "renew" => C.old = 0
    /\ C.pc \in {"stop", "unwatch", "deactivate"} => C.old \in Channels
    /\ C.pc \in {"unwatch", "deactivate"} => C.rec \in Record
    /\ C.pc \in {"record", "stop"} => C.new \in Channels

OperatorShape(C) ==
    /\ C.pc \in {"idle", "unwatch", "deactivate"} \cup Registering
    /\ C.todo = {}
    /\ C.pc \in Registering => C.old = 0

RenewalShape(C) ==
    /\ C.pc \in {"idle", "renew", "stop"} \cup Registering
    /\ C.pc \in Registering => C.old \in Channels

TypeInv ==
    /\ day \in 0..MaxDays
    /\ log \in 0..MaxEdits
    /\ drive \in [Channels -> Nat]
    /\ notices \in [Channels -> Nat]
    /\ channel \in [Channels -> Record \cup {Absent}]
    /\ client \in [Clients -> ClientState]
    /\ \A p \in Clients : ClientShape(client[p])
    /\ OperatorShape(client["operator"])
    /\ RenewalShape(client["renewal"])
    /\ renewed \in BOOLEAN
    /\ seen \subseteq 1..MaxEdits
    /\ owed \subseteq 1..MaxEdits
    /\ wanted \in {"never", "yes", "over"}
    /\ used \in Usage

----------------------------------------------------------------------------
(* The inductive invariant: a channel that lives on *)

\* What a client is about to record or to stop; N: the number of channels.
Pending(C, N) ==
    /\ C.todo \cup ({C.old} \ {0}) \subseteq Recorded
    /\ C.pc = "record" =>
           /\ C.new <= N /\ C.new \notin Recorded
           /\ drive[C.new] = day + Life /\ C.expires = day + Life
    /\ C.pc = "stop" /\ wanted = "yes" =>
           /\ C.new \in Recorded /\ C.new # C.old
           /\ drive[C.new] = day + Life /\ channel[C.new].expires = day + Life

ChannelsInv ==
    /\ \A c \in Channels : c > used.channels => drive[c] = 0 /\ channel[c] = Absent
    /\ \A p \in Clients : Pending(client[p], used.channels)
    /\ \A p, q \in Clients :
           p # q /\ client[p].pc = "record" /\ client[q].pc = "record"
               => client[p].new # client[q].new
    /\ wanted = "never" => Recorded = {}
    /\ client["operator"].pc \in {"unwatch", "deactivate"} => wanted = "over"

\* A recorded channel whose days, with the faults there were, reach to the end of
\* the margin: beyond it once the renewal of the day is done with the channel.
Lasting(c) ==
    /\ c \in Recorded
    /\ channel[c].expires = drive[c]
    /\ drive[c] + used.faults >= day + Ahead
    /\ renewed => \/ drive[c] + used.faults > day + Ahead
                  \/ c \in client["renewal"].todo \cup {client["renewal"].old}

CoverInv == wanted = "yes" => \E c \in Channels : Lasting(c)

IInv == TypeInv /\ ChannelsInv /\ CoverInv

----------------------------------------------------------------------------
(* The steps of a client *)

\* A client between two channels.
Rests(C, todo) ==
    /\ C \in ClientState /\ C.pc \in {"idle", "renew"}
    /\ C.todo = todo /\ C.old = 0 /\ (C.pc = "idle" <=> todo = {})

\* What an idle client holds, and one that goes on to the next channel.
LEMMA FinishedRests ==
    /\ Rests(IdleClient, {}) /\ IdleClient \in ClientState
    /\ \A R \in ClientState : Rests(Finished(R), R.todo)
<1>1. Rests(IdleClient, {})
  BY DEF IdleClient, Rests, ClientState
<1>2. ASSUME NEW R \in ClientState PROVE Rests(Finished(R), R.todo)
  <2>1. CASE R.todo = {}
    BY <1>1, <2>1 DEF Finished
  <2>2. CASE R.todo # {}
    <3>. DEFINE C == [IdleClient EXCEPT !.pc = "renew", !.todo = R.todo]
    <3>1. Finished(R) = C
      BY <2>2 DEF Finished
    <3>2. C \in ClientState /\ C.pc = "renew" /\ C.todo = R.todo /\ C.old = 0
      BY DEF ClientState, IdleClient
    <3>. HIDE DEF C
    <3>. QED  BY <2>2, <3>1, <3>2 DEF Rests
  <2>. QED  BY <2>1, <2>2
<1>. QED  BY <1>1, <1>2 DEF Rests

\* Whatever ends a client's work on a channel: the client rests.
Ends(p) == FailCall(p) \/ Crash(p)

LEMMA EndMoves ==
    ASSUME TypeInv, NEW p \in Clients, Ends(p)
    PROVE  \E C : /\ client' = [client EXCEPT ![p] = C]
                  /\ Rests(C, client[p].todo) \/ Rests(C, {})
<1>1. client[p] \in ClientState
  BY DEF TypeInv
<1>2. \/ client' = [client EXCEPT ![p] = Finished(client[p])]
      \/ client' = [client EXCEPT ![p] = IdleClient]
  BY DEF Ends, FailCall, Crash, TypeInv
<1>. QED  BY <1>1, <1>2, FinishedRests

\* The page token is read, and the channel to replace is still the same.
LEMMA TokenMoves ==
    ASSUME TypeInv, NEW p \in Clients, GetStartPageToken(p)
    PROVE  \E C \in ClientState :
               /\ client' = [client EXCEPT ![p] = C]
               /\ client[p].pc = "token" /\ C.pc = "watch"
               /\ C.todo = client[p].todo /\ C.old = client[p].old
<1>. DEFINE C == [client[p] EXCEPT !.pc = "watch", !.token = log]
<1>1. client[p] \in ClientState /\ log \in Nat
  BY BoundsType DEF TypeInv
<1>2. C \in ClientState /\ C.pc = "watch" /\ C.todo = client[p].todo /\ C.old = client[p].old
  BY <1>1 DEF ClientState
<1>3. client' = [client EXCEPT ![p] = C] /\ client[p].pc = "token"
  BY DEF GetStartPageToken, TypeInv
<1>. HIDE DEF C
<1>. QED  BY <1>2, <1>3

\* Drive has a channel that nobody has yet on record.
LEMMA WatchMoves ==
    ASSUME TypeInv, NEW p \in Clients, WatchChanges(p)
    PROVE  \E C \in ClientState :
               /\ client' = [client EXCEPT ![p] = C]
               /\ client[p].pc = "watch" /\ C.pc = "record"
               /\ C.todo = client[p].todo /\ C.old = client[p].old
               /\ C.new = used.channels + 1 /\ C.expires = day + Life
               /\ C.new \in Channels
<1>. DEFINE c == used.channels + 1
            C == [client[p] EXCEPT !.pc = "record", !.new = c, !.expires = day + Life]
<1>1. client[p] \in ClientState /\ c \in Channels /\ day + Life \in Nat
  BY BoundsType, TimesType DEF TypeInv, WatchChanges, Channels, Usage
<1>2. client' = [client EXCEPT ![p] = C] /\ client[p].pc = "watch"
  BY DEF WatchChanges, TypeInv
<1>. HIDE DEF c
<1>3. C \in ClientState /\ C.pc = "record" /\ C.todo = client[p].todo
      /\ C.old = client[p].old /\ C.new = c /\ C.expires = day + Life
  BY <1>1 DEF ClientState
<1>. HIDE DEF C
<1>. QED  BY <1>1, <1>2, <1>3 DEF c

\* The channel is on record; one that replaces another stops that one next.
LEMMA RecordMoves ==
    ASSUME TypeInv, NEW p \in Clients, RecordChannel(p)
    PROVE  \E C \in ClientState :
               /\ client' = [client EXCEPT ![p] = C]
               /\ client[p].pc = "record"
               /\ \/ client[p].old = 0 /\ Rests(C, client[p].todo)
                  \/ /\ client[p].old # 0 /\ C.pc = "stop" /\ C.todo = client[p].todo
                     /\ C.old = client[p].old /\ C.new = client[p].new
<1>1. client[p] \in ClientState
  BY DEF TypeInv
<1>2. client[p].pc = "record"
      /\ client' = [client EXCEPT ![p] = IF client[p].old = 0 THEN Finished(client[p])
                                         ELSE [client[p] EXCEPT !.pc = "stop"]]
  BY DEF RecordChannel, TypeInv
<1>3. CASE client[p].old = 0
  BY <1>1, <1>2, <1>3, FinishedRests DEF Rests
<1>4. CASE client[p].old # 0
  <2>. DEFINE C == [client[p] EXCEPT !.pc = "stop"]
  <2>1. client' = [client EXCEPT ![p] = C]
    BY <1>2, <1>4
  <2>2. C \in ClientState /\ C.pc = "stop" /\ C.todo = client[p].todo
        /\ C.old = client[p].old /\ C.new = client[p].new
    BY <1>1 DEF ClientState
  <2>. HIDE DEF C
  <2>. QED  BY <1>2, <1>4, <2>1, <2>2
<1>. QED  BY <1>3, <1>4

\* The renewal of the day begins with all that is due.
LEMMA RenewalMoves ==
    ASSUME TypeInv, BeginRenewal
    PROVE  \E C : /\ client' = [client EXCEPT !["renewal"] = C]
                  /\ Rests(C, Expiring)
<1>. DEFINE R == [client["renewal"] EXCEPT !.todo = Expiring]
<1>1. client["renewal"] \in ClientState /\ Expiring \in SUBSET Channels
  BY DEF TypeInv, Clients, Expiring, Recorded
<1>2. R \in ClientState /\ R.todo = Expiring
  BY <1>1 DEF ClientState
<1>3. client' = [client EXCEPT !["renewal"] = Finished(R)]
  BY DEF BeginRenewal, TypeInv
<1>. HIDE DEF R
<1>. QED  BY <1>2, <1>3, FinishedRests

\* The renewal turns to a channel that is due, the operator to a new one.
LEMMA TurnMoves ==
    ASSUME TypeInv, NEW p \in Clients, NEW c \in Channels \cup {0},
           \/ p = "renewal" /\ RenewChannel(c) /\ c \in Channels
           \/ p = "operator" /\ BeginRegister /\ c = 0
    PROVE  \E C \in ClientState :
               /\ client' = [client EXCEPT ![p] = C]
               /\ C.pc = "token" /\ C.todo = client[p].todo \ {c} /\ C.old = c
<1>1. client[p] \in ClientState
  BY DEF TypeInv
<1>2. CASE p = "renewal" /\ RenewChannel(c) /\ c \in Channels
  <2>. DEFINE C == [IdleClient EXCEPT !.pc = "token", !.todo = client[p].todo \ {c}, !.old = c]
  <2>1. client' = [client EXCEPT ![p] = C]
    BY <1>2 DEF RenewChannel
  <2>2. C \in ClientState /\ C.pc = "token" /\ C.todo = client[p].todo \ {c} /\ C.old = c
    BY <1>1 DEF ClientState, IdleClient
  <2>. HIDE DEF C
  <2>. QED  BY <2>1, <2>2
<1>3. CASE p = "operator" /\ BeginRegister /\ c = 0
  <2>. DEFINE C == [IdleClient EXCEPT !.pc = "token"]
  <2>1. client' = [client EXCEPT ![p] = C]
    BY <1>3 DEF BeginRegister
  <2>2. C \in ClientState /\ C.pc = "token" /\ C.todo = {} /\ C.old = 0
    BY DEF ClientState, IdleClient
  <2>3. client[p].todo \ {c} = {}
    BY <1>3 DEF TypeInv, OperatorShape
  <2>. HIDE DEF C
  <2>. QED  BY <1>3, <2>1, <2>2, <2>3
<1>. QED  BY <1>2, <1>3

\* The operator's order to give up a channel, with the record as it was read.
LEMMA UnregisterMoves ==
    ASSUME TypeInv, NEW c \in Channels, BeginUnregister(c)
    PROVE  \E C \in ClientState :
               /\ client' = [client EXCEPT !["operator"] = C]
               /\ C.pc = "unwatch" /\ C.todo = {} /\ C.old = c /\ C.rec \in Record
<1>. DEFINE C == [IdleClient EXCEPT !.pc = "unwatch", !.old = c, !.rec = channel[c]]
<1>1. channel[c] \in Record
  BY DEF BeginUnregister, Recorded, TypeInv
<1>2. C \in ClientState /\ C.pc = "unwatch" /\ C.todo = {} /\ C.old = c /\ C.rec = channel[c]
  BY <1>1 DEF ClientState, IdleClient
<1>3. client' = [client EXCEPT !["operator"] = C]
  BY DEF BeginUnregister
<1>. HIDE DEF C
<1>. QED  BY <1>1, <1>2, <1>3

\* The channel is stopped at Drive, and its record is to be written.
LEMMA UnwatchMoves ==
    ASSUME TypeInv, Unwatch
    PROVE  \E C \in ClientState :
               /\ client' = [client EXCEPT !["operator"] = C]
               /\ \/ Rests(C, {})
                  \/ /\ C.pc = "deactivate" /\ C.todo = {} /\ C.rec \in Record
                     /\ C.old = client["operator"].old
<1>. DEFINE O == client["operator"]
            C == [O EXCEPT !.pc = "deactivate"]
<1>1. O \in ClientState /\ ClientShape(O) /\ OperatorShape(O) /\ O.pc = "unwatch"
  BY DEF TypeInv, Clients, Unwatch
<1>2. C \in ClientState /\ C.pc = "deactivate" /\ C.todo = {} /\ C.rec \in Record
      /\ C.old = O.old
  BY <1>1 DEF ClientState, ClientShape, OperatorShape
<1>3. \/ client' = [client EXCEPT !["operator"] = C]
      \/ client' = [client EXCEPT !["operator"] = IdleClient]
  BY DEF Unwatch, TypeInv, Clients
<1>. HIDE DEF C
<1>. QED  BY <1>2, <1>3, FinishedRests

\* The old channel is stopped, or its record written: on to the next one.
LEMMA StopMoves ==
    ASSUME TypeInv
    PROVE  /\ StopOld => \E C : /\ client' = [client EXCEPT !["renewal"] = C]
                                /\ Rests(C, client["renewal"].todo)
           /\ Deactivate => client' = [client EXCEPT !["operator"] = IdleClient]
<1>1. ASSUME StopOld
      PROVE  client' = [client EXCEPT !["renewal"] = Finished(client["renewal"])]
  BY <1>1 DEF StopOld, TypeInv
<1>2. client["renewal"] \in ClientState
  BY DEF TypeInv, Clients
<1>. QED  BY <1>1, <1>2, FinishedRests DEF Deactivate

----------------------------------------------------------------------------
(* Types *)

ClientsTyped ==
    /\ client \in [Clients -> ClientState]
    /\ \A p \in Clients : ClientShape(client[p])
    /\ OperatorShape(client["operator"])
    /\ RenewalShape(client["renewal"])

\* A step of one client leaves the other as it is.
LEMMA ClientsKept ==
    ASSUME TypeInv, NEW p \in Clients, NEW C \in ClientState,
           client' = [client EXCEPT ![p] = C], ClientShape(C),
           p = "operator" => OperatorShape(C), p = "renewal" => RenewalShape(C)
    PROVE  ClientsTyped'
<1>1. client' \in [Clients -> ClientState]
  BY DEF TypeInv
<1>2. \A q \in Clients : client'[q] = IF q = p THEN C ELSE client[q]
  BY DEF TypeInv
<1>3. \A q \in Clients : ClientShape(client'[q])
  BY <1>2 DEF TypeInv
<1>4. "operator" \in Clients /\ "renewal" \in Clients
  BY DEF Clients
<1>5. OperatorShape(client'["operator"]) /\ RenewalShape(client'["renewal"])
  BY <1>2, <1>4 DEF TypeInv
<1>. QED  BY <1>1, <1>3, <1>5 DEF ClientsTyped

\* A client that rests has nothing that could be ill typed; the operator has no
\* list of channels.
LEMMA RestsTyped ==
    ASSUME NEW C, NEW todo, Rests(C, todo)
    PROVE  C \in ClientState /\ ClientShape(C) /\ RenewalShape(C)
           /\ (todo = {} => OperatorShape(C))
  BY DEF Rests, ClientShape, OperatorShape, RenewalShape, Registering

\* Every initial state is well typed.
LEMMA TypeInit == Init => TypeInv
<1>. SUFFICES ASSUME Init PROVE TypeInv
  OBVIOUS
<1>1. IdleClient \in ClientState /\ IdleClient.pc = "idle" /\ IdleClient.todo = {}
      /\ IdleClient.old = 0
  BY DEF IdleClient, ClientState
<1>2. ClientShape(IdleClient) /\ OperatorShape(IdleClient) /\ RenewalShape(IdleClient)
  BY <1>1 DEF ClientShape, OperatorShape, RenewalShape, Registering
<1>. HIDE DEF IdleClient
<1>3. client \in [Clients -> ClientState] /\ \A p \in Clients : client[p] = IdleClient
  BY <1>1 DEF Init
<1>4. "operator" \in Clients /\ "renewal" \in Clients
  BY DEF Clients
<1>5. used \in Usage
  BY BoundsType DEF Init, Usage
<1>6. /\ day \in 0..MaxDays /\ log \in 0..MaxEdits
      /\ drive \in [Channels -> Nat] /\ notices \in [Channels -> Nat]
      /\ channel \in [Channels -> Record \cup {Absent}]
  BY BoundsType DEF Init
<1>7. renewed \in BOOLEAN /\ seen \subseteq 1..MaxEdits /\ owed \subseteq 1..MaxEdits
      /\ wanted \in {"never", "yes", "over"}
  BY DEF Init
<1>. QED  BY <1>2, <1>3, <1>4, <1>5, <1>6, <1>7 DEF TypeInv

\* Every step keeps the types.
LEMMA TypeStep == TypeInv /\ [Next]_vars => TypeInv'
<1>. SUFFICES ASSUME TypeInv, [Next]_vars PROVE TypeInv'
  OBVIOUS
<1>. USE DEF history
<1>1. "operator" \in Clients /\ "renewal" \in Clients /\ "operator" # "renewal"
  BY DEF Clients
<1>2. client \in [Clients -> ClientState] /\ ClientsTyped
  BY DEF TypeInv, ClientsTyped
<1>3. used.channels \in Nat /\ used.orders \in Nat /\ used.faults \in Nat
      /\ day \in Nat /\ log \in Nat
  BY BoundsType DEF TypeInv, Usage
<1>4. ASSUME ClientsTyped', day' = day, log' = log, notices' = notices,
             drive' \in [Channels -> Nat], channel' \in [Channels -> Record \cup {Absent}],
             renewed' \in BOOLEAN, seen' = seen, owed' = owed,
             wanted' \in {"never", "yes", "over"}, used' \in Usage
      PROVE  TypeInv'
  BY <1>4 DEF TypeInv, ClientsTyped
<1>5. ASSUME NEW p \in Clients, NEW C, NEW todo, Rests(C, todo), p = "operator" => todo = {},
             client' = [client EXCEPT ![p] = C]
      PROVE  ClientsTyped'
  BY <1>5, RestsTyped, ClientsKept
<1>6. CASE Edit
  <2>1. log' \in 0..MaxEdits /\ log' \in 1..MaxEdits
    BY <1>3, <1>6, BoundsType DEF Edit
  <2>2. notices' \in [Channels -> Nat]
    BY <1>6 DEF Edit, TypeInv
  <2>3. owed' \subseteq 1..MaxEdits
    BY <1>6, <2>1 DEF Edit, TypeInv
  <2>. QED  BY <1>6, <2>1, <2>2, <2>3 DEF Edit, TypeInv
<1>7. CASE NextDay
  <2>1. day' \in 0..MaxDays
    BY <1>3, <1>7, BoundsType DEF NextDay
  <2>. QED  BY <1>7, <2>1 DEF NextDay, TypeInv
<1>8. ASSUME NEW c \in Channels, Webhook(c) PROVE TypeInv'
  <2>1. notices' \in [Channels -> Nat]
    BY <1>8 DEF Webhook, TypeInv
  <2>2. seen' \subseteq 1..MaxEdits /\ channel' \in [Channels -> Record \cup {Absent}]
    <3>1. CASE Known(c)
      <4>. DEFINE row == [channel[c] EXCEPT !.token = log]
      <4>1. channel[c] \in Record
        BY <3>1 DEF Known, Recorded, TypeInv
      <4>2. row \in Record /\ channel[c].token \in Nat
        BY <1>3, <4>1 DEF Record
      <4>3. channel' = [channel EXCEPT ![c] = row] /\ seen' = seen \cup (channel[c].token + 1)..log
        BY <1>8, <3>1 DEF Webhook, TypeInv
      <4>4. (channel[c].token + 1)..log \subseteq 1..MaxEdits
        BY <1>3, <4>2, BoundsType DEF TypeInv
      <4>. HIDE DEF row
      <4>. QED  BY <4>2, <4>3, <4>4 DEF TypeInv
    <3>2. CASE ~Known(c)
      BY <1>8, <3>2 DEF Webhook, TypeInv
    <3>. QED  BY <3>1, <3>2
  <2>. QED  BY <1>8, <2>1, <2>2 DEF Webhook, TypeInv
<1>9. ASSUME NEW p \in Clients, GetStartPageToken(p) PROVE TypeInv'
  <2>1. PICK C \in ClientState :
            /\ client' = [client EXCEPT ![p] = C]
            /\ client[p].pc = "token" /\ C.pc = "watch"
            /\ C.todo = client[p].todo /\ C.old = client[p].old
    BY <1>9, TokenMoves
  <2>2. /\ ClientShape(C) /\ (p = "operator" => OperatorShape(C))
        /\ (p = "renewal" => RenewalShape(C))
    BY <1>2, <2>1 DEF ClientsTyped, ClientShape, OperatorShape, RenewalShape, Registering
  <2>3. ClientsTyped'
    BY <2>1, <2>2, ClientsKept
  <2>. QED  BY <1>4, <1>9, <2>3 DEF GetStartPageToken, TypeInv
<1>10. ASSUME NEW p \in Clients, WatchChanges(p) PROVE TypeInv'
  <2>1. PICK C \in ClientState :
            /\ client' = [client EXCEPT ![p] = C]
            /\ client[p].pc = "watch" /\ C.pc = "record"
            /\ C.todo = client[p].todo /\ C.old = client[p].old /\ C.new \in Channels
    BY <1>10, WatchMoves
  <2>2. /\ ClientShape(C) /\ (p = "operator" => OperatorShape(C))
        /\ (p = "renewal" => RenewalShape(C))
    BY <1>2, <2>1 DEF ClientsTyped, ClientShape, OperatorShape, RenewalShape, Registering
  <2>3. ClientsTyped'
    BY <2>1, <2>2, ClientsKept
  <2>4. used' \in Usage
    BY <1>3, <1>10, BoundsType DEF WatchChanges, TypeInv, Usage
  <2>5. drive' \in [Channels -> Nat]
    <3>1. day + Life \in Nat
      BY <1>3, TimesType
    <3>2. drive' = [drive EXCEPT ![used.channels + 1] = day + Life]
      BY <1>10 DEF WatchChanges
    <3>. QED  BY <3>1, <3>2 DEF TypeInv
  <2>. QED  BY <1>4, <1>10, <2>3, <2>4, <2>5 DEF WatchChanges, TypeInv
<1>11. ASSUME NEW p \in Clients, RecordChannel(p) PROVE TypeInv'
  <2>1. PICK C \in ClientState :
            /\ client' = [client EXCEPT ![p] = C]
            /\ client[p].pc = "record"
            /\ \/ client[p].old = 0 /\ Rests(C, client[p].todo)
               \/ /\ client[p].old # 0 /\ C.pc = "stop" /\ C.todo = client[p].todo
                  /\ C.old = client[p].old /\ C.new = client[p].new
    BY <1>11, RecordMoves
  <2>2. client[p] \in ClientState /\ client[p].new \in Channels
        /\ (p = "operator" => client[p].todo = {} /\ client[p].old = 0)
    BY <1>2, <2>1 DEF ClientsTyped, ClientShape, OperatorShape, Registering
  <2>3. ClientsTyped'
    <3>1. CASE client[p].old = 0 /\ Rests(C, client[p].todo)
      BY <1>5, <2>1, <2>2, <3>1
    <3>2. CASE /\ client[p].old # 0 /\ C.pc = "stop" /\ C.todo = client[p].todo
               /\ C.old = client[p].old /\ C.new = client[p].new
      <4>1. p # "operator" /\ client[p].old \in Channels
        BY <2>2, <3>2 DEF ClientState
      <4>2. ClientShape(C) /\ RenewalShape(C)
        BY <2>2, <3>2, <4>1 DEF ClientShape, RenewalShape, Registering
      <4>. QED  BY <2>1, <4>1, <4>2, ClientsKept
    <3>. QED  BY <2>1, <3>1, <3>2
  <2>4. channel' \in [Channels -> Record \cup {Absent}]
    <3>. DEFINE row == [expires |-> client[p].expires, token |-> client[p].token]
    <3>1. row \in Record
      BY <2>2 DEF ClientState, Record
    <3>2. channel' = [channel EXCEPT ![client[p].new] = row]
      BY <1>11 DEF RecordChannel
    <3>. HIDE DEF row
    <3>. QED  BY <3>1, <3>2 DEF TypeInv
  <2>5. wanted' \in {"never", "yes", "over"}
    BY <1>11 DEF RecordChannel, TypeInv
  <2>. QED  BY <1>4, <1>11, <2>3, <2>4, <2>5 DEF RecordChannel, TypeInv
<1>12. ASSUME NEW p \in Clients, Ends(p) PROVE TypeInv'
  <2>1. PICK C : /\ client' = [client EXCEPT ![p] = C]
                 /\ Rests(C, client[p].todo) \/ Rests(C, {})
    BY <1>12, EndMoves
  <2>2. p = "operator" => client[p].todo = {}
    BY DEF TypeInv, OperatorShape
  <2>3. ClientsTyped'
    BY <1>5, <2>1, <2>2
  <2>4. used' \in Usage
    BY <1>3, <1>12, BoundsType DEF Ends, FailCall, Crash, TypeInv, Usage
  <2>. QED  BY <1>4, <1>12, <2>3, <2>4 DEF Ends, FailCall, Crash, TypeInv
<1>13. CASE BeginRegister
  <2>1. PICK C \in ClientState :
            /\ client' = [client EXCEPT !["operator"] = C]
            /\ C.pc = "token" /\ C.todo = client["operator"].todo \ {0} /\ C.old = 0
    BY <1>1, <1>13, TurnMoves
  <2>2. ClientShape(C) /\ OperatorShape(C)
    BY <1>2, <2>1 DEF ClientsTyped, ClientShape, OperatorShape, Registering
  <2>3. ClientsTyped'
    BY <1>1, <2>1, <2>2, ClientsKept
  <2>4. used' \in Usage
    BY <1>3, <1>13, BoundsType DEF BeginRegister, TypeInv, Usage
  <2>. QED  BY <1>4, <1>13, <2>3, <2>4 DEF BeginRegister, TypeInv
<1>14. ASSUME NEW c \in Channels, RenewChannel(c) PROVE TypeInv'
  <2>1. PICK C \in ClientState :
            /\ client' = [client EXCEPT !["renewal"] = C]
            /\ C.pc = "token" /\ C.todo = client["renewal"].todo \ {c} /\ C.old = c
    BY <1>1, <1>14, TurnMoves
  <2>2. ClientShape(C) /\ RenewalShape(C)
    BY <2>1 DEF ClientShape, RenewalShape, Registering
  <2>3. ClientsTyped'
    BY <1>1, <2>1, <2>2, ClientsKept
  <2>. QED  BY <1>4, <1>14, <2>3 DEF RenewChannel, TypeInv
<1>15. CASE BeginRenewal
  <2>1. PICK C : client' = [client EXCEPT !["renewal"] = C] /\ Rests(C, Expiring)
    BY <1>15, RenewalMoves
  <2>2. ClientsTyped'
    BY <1>1, <1>5, <2>1
  <2>. QED  BY <1>4, <1>15, <2>2 DEF BeginRenewal, TypeInv
<1>16. CASE StopOld
  <2>1. PICK C : client' = [client EXCEPT !["renewal"] = C] /\ Rests(C, client["renewal"].todo)
    BY <1>16, StopMoves
  <2>2. ClientsTyped'
    BY <1>1, <1>5, <2>1
  <2>3. drive' \in [Channels -> Nat]
    BY <1>16 DEF StopOld, TypeInv
  <2>. QED  BY <1>4, <1>16, <2>2, <2>3 DEF StopOld, TypeInv
<1>17. ASSUME NEW c \in Channels, BeginUnregister(c) PROVE TypeInv'
  <2>1. PICK C \in ClientState :
            /\ client' = [client EXCEPT !["operator"] = C]
            /\ C.pc = "unwatch" /\ C.todo = {} /\ C.old = c /\ C.rec \in Record
    BY <1>17, UnregisterMoves
  <2>2. ClientShape(C) /\ OperatorShape(C)
    BY <2>1 DEF ClientShape, OperatorShape, Registering
  <2>3. ClientsTyped'
    BY <1>1, <2>1, <2>2, ClientsKept
  <2>4. used' \in Usage
    BY <1>3, <1>17, BoundsType DEF BeginUnregister, TypeInv, Usage
  <2>. QED  BY <1>4, <1>17, <2>3, <2>4 DEF BeginUnregister, TypeInv
<1>18. CASE Unwatch
  <2>1. PICK C \in ClientState :
            /\ client' = [client EXCEPT !["operator"] = C]
            /\ \/ Rests(C, {})
               \/ /\ C.pc = "deactivate" /\ C.todo = {} /\ C.rec \in Record
                  /\ C.old = client["operator"].old
    BY <1>18, UnwatchMoves
  <2>2. client["operator"].old \in Channels
    BY <1>1, <1>2, <1>18 DEF Unwatch, ClientsTyped, ClientShape
  <2>3. ClientShape(C) /\ OperatorShape(C)
    <3>1. CASE Rests(C, {})
      BY <3>1, RestsTyped
    <3>2. CASE C.pc = "deactivate"
      BY <2>1, <2>2, <3>2 DEF ClientShape, OperatorShape, Registering, Rests
    <3>. QED  BY <2>1, <3>1, <3>2
  <2>4. ClientsTyped'
    BY <1>1, <2>1, <2>3, ClientsKept
  <2>5. drive' \in [Channels -> Nat]
    BY <1>18 DEF Unwatch, TypeInv
  <2>. QED  BY <1>4, <1>18, <2>4, <2>5 DEF Unwatch, TypeInv
<1>19. CASE Deactivate
  <2>1. client' = [client EXCEPT !["operator"] = IdleClient]
    BY <1>19, StopMoves
  <2>2. ClientsTyped'
    BY <1>1, <1>5, <2>1, FinishedRests
  <2>3. client["operator"].rec \in Record
    BY <1>1, <1>2, <1>19 DEF Deactivate, ClientsTyped, ClientShape
  <2>. DEFINE row == [client["operator"].rec EXCEPT !.expires = 0]
  <2>4. row \in Record /\ channel' = [channel EXCEPT ![client["operator"].old] = row]
    BY <1>19, <2>3 DEF Deactivate, Record
  <2>. HIDE DEF row
  <2>5. channel' \in [Channels -> Record \cup {Absent}]
    BY <2>4 DEF TypeInv
  <2>. QED  BY <1>4, <1>19, <2>2, <2>5 DEF Deactivate, TypeInv
<1>20. CASE UNCHANGED vars
  BY <1>20 DEF vars, TypeInv
<1>. QED  BY <1>6, <1>7, <1>8, <1>9, <1>10, <1>11, <1>12, <1>13, <1>14, <1>15, <1>16, <1>17,
             <1>18, <1>19, <1>20 DEF Next, ClientStep, Ends

\* Every variable holds what the code can put there.
THEOREM TypeCorrect == Spec => []TypeOK
<1>1. TypeInv => TypeOK
  BY DEF TypeInv, TypeOK, ClientState, Usage
<1>. QED  BY <1>1, TypeInit, TypeStep, PTL DEF Spec

----------------------------------------------------------------------------
(* Channels without a record *)

Recording == {client[p].new : p \in {q \in Clients : client[q].pc = "record"}}
Orphans == Live \ (Recorded \cup Recording)

OrphanInv == Cardinality(Orphans) <= used.faults

\* Channels are finitely many.
LEMMA OrphansFinite == IsFiniteSet(Orphans) /\ Cardinality(Orphans) \in Nat
<1>1. IsFiniteSet(Channels)
  BY BoundsType, FS_Interval DEF Channels
<1>2. Orphans \subseteq Channels
  BY DEF Orphans, Live
<1>. QED  BY <1>1, <1>2, FS_Subset, FS_CardinalityType

\* Only a fault between watch and record makes a channel an orphan.
LEMMA OrphanStep == TypeInv /\ TypeInv' /\ ChannelsInv /\ OrphanInv /\ [Next]_vars => OrphanInv'
<1>. SUFFICES ASSUME TypeInv, TypeInv', ChannelsInv, OrphanInv, [Next]_vars PROVE OrphanInv'
  OBVIOUS
<1>. USE DEF history
<1>1. used.faults \in Nat /\ used.channels \in Nat /\ day \in Nat
  BY BoundsType DEF TypeInv, Usage
<1>2. ASSUME Orphans' \subseteq Orphans, used'.faults = used.faults PROVE OrphanInv'
  <2>1. Cardinality(Orphans') <= Cardinality(Orphans) /\ Cardinality(Orphans') \in Nat
        /\ Cardinality(Orphans) \in Nat
    BY <1>2, OrphansFinite, FS_Subset, FS_CardinalityType
  <2>2. Cardinality(Orphans') <= used'.faults
    BY <1>1, <1>2, <2>1 DEF OrphanInv
  <2>. QED  BY <2>2 DEF OrphanInv
<1>3. ASSUME NEW c, Orphans' \subseteq Orphans \cup {c}, used'.faults = used.faults + 1
      PROVE  OrphanInv'
  <2>1. /\ IsFiniteSet(Orphans \cup {c}) /\ Cardinality(Orphans) \in Nat
        /\ Cardinality(Orphans \cup {c}) <= Cardinality(Orphans) + 1
        /\ Cardinality(Orphans \cup {c}) \in Nat
    BY OrphansFinite, FS_AddElement, FS_CardinalityType
  <2>2. Cardinality(Orphans') <= Cardinality(Orphans \cup {c}) /\ Cardinality(Orphans') \in Nat
    BY <1>3, <2>1, FS_Subset, FS_CardinalityType
  <2>3. Cardinality(Orphans') <= used'.faults
    BY <1>1, <1>3, <2>1, <2>2 DEF OrphanInv
  <2>. QED  BY <2>3 DEF OrphanInv
\* A client that is not about to record a channel, and is not afterwards.
<1>4. ASSUME NEW p \in Clients, NEW C, client' = [client EXCEPT ![p] = C],
             client[p].pc # "record", C.pc # "record"
      PROVE  Recording' = Recording
  <2>1. \A q \in Clients : client'[q] = IF q = p THEN C ELSE client[q]
    BY <1>4 DEF TypeInv
  <2>. QED  BY <1>4, <2>1 DEF Recording
<1>5. ASSUME Live' \subseteq Live, Recorded' = Recorded, Recording' = Recording,
             used'.faults = used.faults
      PROVE  OrphanInv'
  BY <1>2, <1>5 DEF Orphans
<1>6. CASE Edit \/ UNCHANGED vars
  <2>1. UNCHANGED <<day, drive, channel, client, used>>
    BY <1>6 DEF Edit, vars
  <2>. QED  BY <1>5, <2>1 DEF Live, Recorded, Recording
<1>7. CASE NextDay
  <2>1. Live' \subseteq Live
    BY <1>1, <1>7 DEF NextDay, Live, TypeInv
  <2>2. Recorded' = Recorded /\ Recording' = Recording /\ used' = used
    BY <1>7 DEF NextDay, Recorded, Recording
  <2>. QED  BY <1>5, <2>1, <2>2
<1>8. ASSUME NEW c \in Channels, Webhook(c) PROVE OrphanInv'
  <2>1. Live' = Live /\ Recording' = Recording /\ used' = used
    BY <1>8 DEF Webhook, Live, Recording
  <2>2. Recorded' = Recorded
    <3>1. CASE Known(c)
      <4>1. channel' = [channel EXCEPT ![c] = [channel[c] EXCEPT !.token = log]]
        BY <1>8, <3>1 DEF Webhook, TypeInv
      <4>2. channel[c] # Absent /\ channel[c] \in Record /\ c \in Recorded
        BY <3>1 DEF Known, Recorded, TypeInv
      <4>. DEFINE row == [channel[c] EXCEPT !.token = log]
      <4>3. row \in Record
        BY <4>2, BoundsType DEF Record, TypeInv
      <4>. HIDE DEF row
      <4>4. channel' = [channel EXCEPT ![c] = row]
        BY <4>1 DEF row
      <4>. QED  BY <4>2, <4>3, <4>4, AbsentDistinct DEF Recorded, TypeInv
    <3>2. CASE ~Known(c)
      BY <1>8, <3>2 DEF Webhook, Recorded
    <3>. QED  BY <3>1, <3>2
  <2>. QED  BY <1>5, <2>1, <2>2
<1>9. ASSUME NEW p \in Clients, WatchChanges(p) PROVE OrphanInv'
  <2>1. PICK C \in ClientState :
            /\ client' = [client EXCEPT ![p] = C]
            /\ client[p].pc = "watch" /\ C.pc = "record"
            /\ C.new = used.channels + 1 /\ C.new \in Channels
    BY <1>9, WatchMoves
  <2>2. \A q \in Clients : client'[q] = IF q = p THEN C ELSE client[q]
    BY <2>1 DEF TypeInv
  <2>3. Recording' = Recording \cup {used.channels + 1}
    BY <2>1, <2>2 DEF Recording
  <2>4. drive' = [drive EXCEPT ![used.channels + 1] = day + Life] /\ day' = day
        /\ channel' = channel /\ used'.faults = used.faults
    BY <1>9 DEF WatchChanges, TypeInv, Usage
  <2>5. Live' \subseteq Live \cup {used.channels + 1} /\ Recorded' = Recorded
    BY <2>4 DEF Live, Recorded, TypeInv
  <2>. QED  BY <1>2, <2>3, <2>4, <2>5 DEF Orphans
<1>10. ASSUME NEW p \in Clients, RecordChannel(p) PROVE OrphanInv'
  <2>1. PICK C \in ClientState :
            /\ client' = [client EXCEPT ![p] = C]
            /\ client[p].pc = "record" /\ C.pc # "record"
    BY <1>10, RecordMoves DEF Rests
  <2>2. \A q \in Clients : client'[q] = IF q = p THEN C ELSE client[q]
    BY <2>1 DEF TypeInv
  <2>3. Recording \subseteq Recording' \cup {client[p].new}
    BY <2>1, <2>2 DEF Recording
  <2>. DEFINE row == [expires |-> client[p].expires, token |-> client[p].token]
  <2>4. client[p].new \in Channels /\ row \in Record
    BY <2>1 DEF TypeInv, ClientShape, ClientState, Record
  <2>5. channel' = [channel EXCEPT ![client[p].new] = row]
        /\ drive' = drive /\ day' = day /\ used' = used
    BY <1>10 DEF RecordChannel
  <2>. HIDE DEF row
  <2>6. Recorded' = Recorded \cup {client[p].new} /\ Live' = Live
    BY <2>4, <2>5, AbsentDistinct DEF Recorded, Live, TypeInv
  <2>. QED  BY <1>2, <2>3, <2>5, <2>6 DEF Orphans
<1>11. ASSUME NEW p \in Clients, Ends(p) PROVE OrphanInv'
  <2>1. PICK C : /\ client' = [client EXCEPT ![p] = C]
                 /\ Rests(C, client[p].todo) \/ Rests(C, {})
    BY <1>11, EndMoves
  <2>2. \A q \in Clients : client'[q] = IF q = p THEN C ELSE client[q]
    BY <2>1 DEF TypeInv
  <2>3. Recording \subseteq Recording' \cup {client[p].new}
    BY <2>1, <2>2 DEF Recording
  <2>4. used'.faults = used.faults + 1 /\ Live' = Live /\ Recorded' = Recorded
    BY <1>11 DEF Ends, FailCall, Crash, TypeInv, Usage, Live, Recorded
  <2>. QED  BY <1>3, <2>3, <2>4 DEF Orphans
<1>12. ASSUME NEW p \in Clients, NEW C, client' = [client EXCEPT ![p] = C],
              client[p].pc # "record", C.pc # "record",
              day' = day, drive' = drive, channel' = channel, used'.faults = used.faults
       PROVE  OrphanInv'
  <2>1. Live' = Live /\ Recorded' = Recorded
    BY <1>12 DEF Live, Recorded
  <2>. QED  BY <1>4, <1>5, <1>12, <2>1
<1>13. "operator" \in Clients /\ "renewal" \in Clients
  BY DEF Clients
<1>14. ASSUME NEW p \in Clients, GetStartPageToken(p) PROVE OrphanInv'
  BY <1>12, <1>14, TokenMoves DEF GetStartPageToken
<1>15. CASE BeginRegister
  <2>1. used'.faults = used.faults
    BY <1>15 DEF BeginRegister, TypeInv, Usage
  <2>2. \E C : client' = [client EXCEPT !["operator"] = C] /\ C.pc = "token"
    BY <1>13, <1>15, TurnMoves
  <2>. QED  BY <1>12, <1>13, <1>15, <2>1, <2>2 DEF BeginRegister
<1>16. ASSUME NEW c \in Channels, RenewChannel(c) PROVE OrphanInv'
  <2>1. \E C : client' = [client EXCEPT !["renewal"] = C] /\ C.pc = "token"
    BY <1>13, <1>16, TurnMoves
  <2>. QED  BY <1>12, <1>13, <1>16, <2>1 DEF RenewChannel
<1>17. CASE BeginRenewal
  <2>1. \E C : client' = [client EXCEPT !["renewal"] = C] /\ C.pc # "record"
    BY <1>17, RenewalMoves DEF Rests
  <2>. QED  BY <1>12, <1>13, <1>17, <2>1 DEF BeginRenewal
<1>18. ASSUME NEW c \in Channels, BeginUnregister(c) PROVE OrphanInv'
  <2>1. used'.faults = used.faults
    BY <1>18 DEF BeginUnregister, TypeInv, Usage
  <2>2. \E C : client' = [client EXCEPT !["operator"] = C] /\ C.pc = "unwatch"
    BY <1>18, UnregisterMoves
  <2>. QED  BY <1>12, <1>13, <1>18, <2>1, <2>2 DEF BeginUnregister
<1>19. ASSUME NEW p \in Clients,
              \/ p = "renewal" /\ StopOld
              \/ p = "operator" /\ Unwatch
       PROVE  OrphanInv'
  <2>1. \E C : client' = [client EXCEPT ![p] = C] /\ C.pc # "record"
    BY <1>19, StopMoves, UnwatchMoves DEF Rests
  <2>2. client[p].pc # "record" /\ day' = day /\ channel' = channel /\ used' = used
    BY <1>19 DEF StopOld, Unwatch
  <2>3. \E c : drive' = [drive EXCEPT ![c] = 0]
    BY <1>19 DEF StopOld, Unwatch
  <2>4. Live' \subseteq Live
    BY <1>1, <2>2, <2>3 DEF Live, TypeInv
  <2>5. Recorded' = Recorded /\ Recording' = Recording
    BY <1>4, <2>1, <2>2 DEF Recorded
  <2>. QED  BY <1>5, <2>2, <2>4, <2>5
<1>20. CASE Deactivate
  <2>1. client' = [client EXCEPT !["operator"] = IdleClient] /\ IdleClient.pc # "record"
        /\ client["operator"].pc = "deactivate" /\ drive' = drive /\ day' = day /\ used' = used
    BY <1>20 DEF Deactivate, IdleClient
  <2>2. Recording' = Recording /\ Live' = Live
    BY <1>4, <1>13, <2>1 DEF Live
  <2>3. client["operator"].rec \in Record /\ client["operator"].old \in Recorded
    BY <1>13, <2>1 DEF TypeInv, ClientShape, ChannelsInv, Pending, Channels
  <2>. DEFINE row == [client["operator"].rec EXCEPT !.expires = 0]
  <2>4. row \in Record /\ channel' = [channel EXCEPT ![client["operator"].old] = row]
    BY <1>20, <2>3 DEF Deactivate, Record
  <2>. HIDE DEF row
  <2>5. Recorded' = Recorded
    BY <2>3, <2>4, AbsentDistinct DEF Recorded, TypeInv
  <2>. QED  BY <1>5, <2>1, <2>2, <2>5
<1>21. CASE StopOld
  BY <1>13, <1>19, <1>21, Zenon
<1>22. CASE Unwatch
  BY <1>13, <1>19, <1>22, Zenon
<1>. QED  BY <1>6, <1>7, <1>8, <1>9, <1>10, <1>11, <1>14, <1>15, <1>16, <1>17, <1>18,
             <1>20, <1>21, <1>22 DEF Next, ClientStep, Ends

----------------------------------------------------------------------------
(* What the clients are about to do, and the records there are *)

\* A step of a client that neither records a channel nor has one to record, and
\* stops or deactivates recorded channels alone.
LEMMA CalmStep ==
    ASSUME TypeInv, ChannelsInv, NEW p \in Clients, NEW C \in ClientState,
           client' = [client EXCEPT ![p] = C], C.pc \notin {"record", "stop"},
           C.todo \cup ({C.old} \ {0}) \subseteq Recorded,
           day' = day, used'.channels = used.channels, Recorded' = Recorded,
           \A c \in Channels \ Recorded : drive'[c] = drive[c] /\ channel'[c] = channel[c],
           \/ drive' = drive /\ channel' = channel
           \/ p = "renewal"
           \/ wanted' = "over",
           wanted' \in {wanted, "over"},
           p = "operator" /\ C.pc \in {"unwatch", "deactivate"} => wanted' = "over"
    PROVE  ChannelsInv'
<1>1. \A q \in Clients : client'[q] = IF q = p THEN C ELSE client[q]
  BY DEF TypeInv
<1>2. "operator" \in Clients /\ "renewal" \in Clients
      /\ \A q \in Clients : q # "renewal" => q = "operator"
  BY DEF Clients
<1>3. \A q \in Clients : client[q] \in ClientState /\ ClientShape(client[q])
  BY DEF TypeInv
<1>4. \A c \in Channels : c > used'.channels => drive'[c] = 0 /\ channel'[c] = Absent
  <2>1. \A c \in Channels : c > used.channels => c \notin Recorded
    BY DEF ChannelsInv, Recorded
  <2>. QED  BY <2>1 DEF ChannelsInv
<1>5. ASSUME NEW q \in Clients PROVE Pending(client[q], used.channels)'
  <2>1. CASE q = p
    BY <1>1, <2>1 DEF Pending
  <2>2. CASE q # p
    <3>1. client'[q] = client[q] /\ Pending(client[q], used.channels)
      BY <1>1, <2>2 DEF ChannelsInv
    <3>2. client[q].pc = "record" =>
              client[q].new \in Channels /\ drive'[client[q].new] = drive[client[q].new]
      BY <1>3, <3>1 DEF Pending, ClientShape
    <3>3. client[q].pc = "stop" /\ wanted' = "yes" =>
              wanted = "yes" /\ drive' = drive /\ channel' = channel
      <4>1. client["operator"].pc # "stop"
        BY DEF TypeInv, OperatorShape, Registering
      <4>. QED  BY <1>2, <2>2, <4>1
    <3>. QED  BY <3>1, <3>2, <3>3 DEF Pending
  <2>. QED  BY <2>1, <2>2
<1>6. \A q, s \in Clients :
          q # s /\ client'[q].pc = "record" /\ client'[s].pc = "record"
              => client'[q].new # client'[s].new
  BY <1>1 DEF ChannelsInv
<1>7. /\ wanted' = "never" => Recorded' = {}
      /\ client'["operator"].pc \in {"unwatch", "deactivate"} => wanted' = "over"
  BY <1>1, <1>2 DEF ChannelsInv
<1>. QED  BY <1>4, <1>5, <1>6, <1>7 DEF ChannelsInv

\* Nothing is under way, initially.
LEMMA ChannelsInit == Init => ChannelsInv
<1>. SUFFICES ASSUME Init PROVE ChannelsInv
  OBVIOUS
<1>1. IdleClient.pc = "idle" /\ IdleClient.todo = {} /\ IdleClient.old = 0
  BY DEF IdleClient
<1>2. \A p \in Clients : client[p] = IdleClient
  BY DEF Init
<1>3. \A p \in Clients : Pending(client[p], used.channels)
  BY <1>1, <1>2 DEF Pending
<1>4. "operator" \in Clients
  BY DEF Clients
<1>. QED  BY <1>1, <1>2, <1>3, <1>4 DEF Init, ChannelsInv, Recorded

\* Every step keeps what is under way in order.
LEMMA ChannelsStep == TypeInv /\ TypeInv' /\ ChannelsInv /\ [Next]_vars => ChannelsInv'
<1>. SUFFICES ASSUME TypeInv, TypeInv', ChannelsInv, [Next]_vars PROVE ChannelsInv'
  OBVIOUS
<1>. USE DEF history
<1>1. used.faults \in Nat /\ used.channels \in Nat /\ day \in Nat
  BY BoundsType DEF TypeInv, Usage
<1>2. "operator" \in Clients /\ "renewal" \in Clients
      /\ \A q \in Clients : q # "renewal" => q = "operator"
  BY DEF Clients
<1>3. \A q \in Clients :
          /\ client[q] \in ClientState /\ ClientShape(client[q])
          /\ Pending(client[q], used.channels)
  BY DEF TypeInv, ChannelsInv
<1>4. OperatorShape(client["operator"]) /\ RenewalShape(client["renewal"])
  BY DEF TypeInv
<1>5. \A c \in Channels : c > used.channels => c \notin Recorded
  BY DEF ChannelsInv, Recorded
<1>6. ASSUME NEW p \in Clients, NEW C, NEW todo, Rests(C, todo), todo \subseteq Recorded,
             client' = [client EXCEPT ![p] = C],
             day' = day, drive' = drive, channel' = channel, wanted' = wanted,
             used'.channels = used.channels
      PROVE  ChannelsInv'
  <2>1. C \in ClientState /\ C.pc \in {"idle", "renew"} /\ C.todo = todo /\ C.old = 0
    BY <1>6 DEF Rests
  <2>2. Recorded' = Recorded
    BY <1>6 DEF Recorded
  <2>. QED  BY <1>6, <2>1, <2>2, CalmStep
<1>7. CASE Edit \/ UNCHANGED vars
  <2>1. UNCHANGED <<day, drive, channel, client, used, wanted>>
    BY <1>7 DEF Edit, vars
  <2>2. \A q \in Clients : Pending(client[q], used.channels)'
    BY <1>3, <2>1 DEF Pending, Recorded
  <2>. QED  BY <2>1, <2>2 DEF ChannelsInv, Recorded
<1>8. CASE NextDay
  <2>1. UNCHANGED <<drive, channel, client, used, wanted>>
        /\ \A q \in Clients : client[q].pc = "idle"
    BY <1>8 DEF NextDay
  <2>2. \A q \in Clients : Pending(client[q], used.channels)'
    BY <1>3, <2>1 DEF Pending, Recorded
  <2>. QED  BY <2>1, <2>2 DEF ChannelsInv, Recorded
<1>9. ASSUME NEW c \in Channels, Webhook(c) PROVE ChannelsInv'
  <2>1. UNCHANGED <<day, drive, client, used, wanted>>
    BY <1>9 DEF Webhook
  <2>2. Recorded' = Recorded
        /\ \A d \in Channels : (d \in Recorded => channel'[d].expires = channel[d].expires)
                               /\ (d \notin Recorded => channel'[d] = channel[d])
    <3>1. CASE Known(c)
      <4>. DEFINE row == [channel[c] EXCEPT !.token = log]
      <4>1. channel[c] # Absent /\ channel[c] \in Record /\ c \in Recorded
        BY <3>1 DEF Known, Recorded, TypeInv
      <4>2. row \in Record /\ row.expires = channel[c].expires
        BY <4>1, BoundsType DEF Record, TypeInv
      <4>3. channel' = [channel EXCEPT ![c] = row]
        BY <1>9, <3>1 DEF Webhook, TypeInv
      <4>. HIDE DEF row
      <4>. QED  BY <4>1, <4>2, <4>3, AbsentDistinct DEF Recorded, TypeInv
    <3>2. CASE ~Known(c)
      BY <1>9, <3>2 DEF Webhook, Recorded
    <3>. QED  BY <3>1, <3>2
  <2>3. ASSUME NEW q \in Clients PROVE Pending(client[q], used.channels)'
    <3>1. client[q].pc = "stop" => client[q].new \in Channels
      BY <1>3 DEF ClientShape
    <3>. QED  BY <1>3, <2>1, <2>2, <3>1 DEF Pending
  <2>4. \A d \in Channels : d > used.channels => drive[d] = 0 /\ channel'[d] = Absent
    BY <1>5, <2>2 DEF ChannelsInv
  <2>. QED  BY <2>1, <2>2, <2>3, <2>4 DEF ChannelsInv
<1>10. ASSUME NEW p \in Clients, GetStartPageToken(p) PROVE ChannelsInv'
  <2>1. PICK C \in ClientState :
            /\ client' = [client EXCEPT ![p] = C]
            /\ client[p].pc = "token" /\ C.pc = "watch"
            /\ C.todo = client[p].todo /\ C.old = client[p].old
    BY <1>10, TokenMoves
  <2>2. C.todo \cup ({C.old} \ {0}) \subseteq Recorded
    BY <1>3, <2>1 DEF Pending
  <2>3. UNCHANGED <<day, drive, channel, used, wanted>> /\ Recorded' = Recorded
    BY <1>10 DEF GetStartPageToken, Recorded
  <2>. QED  BY <2>1, <2>2, <2>3, CalmStep
<1>11. ASSUME NEW p \in Clients, WatchChanges(p) PROVE ChannelsInv'
  <2>. DEFINE n == used.channels + 1
  <2>1. PICK C \in ClientState :
            /\ client' = [client EXCEPT ![p] = C]
            /\ client[p].pc = "watch" /\ C.pc = "record"
            /\ C.todo = client[p].todo /\ C.old = client[p].old
            /\ C.new = n /\ C.expires = day + Life /\ C.new \in Channels
    BY <1>11, WatchMoves
  <2>2. drive' = [drive EXCEPT ![n] = day + Life] /\ used'.channels = n
        /\ UNCHANGED <<day, channel, wanted>>
    BY <1>11 DEF WatchChanges, TypeInv, Usage
  <2>3. n \in Channels /\ n > used.channels /\ n \in Nat /\ n \notin Recorded
        /\ \A c \in Channels : c <= used.channels => c <= n /\ c # n
    BY <1>1, <1>5, <2>1 DEF Channels
  <2>. HIDE DEF n
  <2>4. \A q \in Clients : client'[q] = IF q = p THEN C ELSE client[q]
    BY <2>1 DEF TypeInv
  <2>5. drive'[n] = day + Life /\ \A c \in Channels : c # n => drive'[c] = drive[c]
    BY <2>2, <2>3 DEF TypeInv
  <2>6. Recorded' = Recorded
    BY <2>2 DEF Recorded
  <2>7. ASSUME NEW q \in Clients PROVE Pending(client[q], used.channels)'
    <3>1. CASE q = p
      BY <1>3, <2>1, <2>2, <2>3, <2>4, <2>5, <2>6, <3>1 DEF Pending
    <3>2. CASE q # p
      <4>1. client'[q] = client[q] /\ Pending(client[q], used.channels)
        BY <1>3, <2>4, <3>2
      <4>2. client[q].pc = "record" =>
                client[q].new <= n /\ drive'[client[q].new] = drive[client[q].new]
        BY <1>3, <2>3, <2>5, <4>1 DEF Pending, ClientShape
      <4>3. client[q].pc = "stop" /\ wanted = "yes" =>
                drive'[client[q].new] = drive[client[q].new]
        BY <1>3, <2>3, <2>5, <4>1 DEF Pending, ClientShape
      <4>. QED  BY <2>2, <2>6, <4>1, <4>2, <4>3 DEF Pending
    <3>. QED  BY <3>1, <3>2
  <2>8. \A q \in Clients \ {p} : client'[q].pc = "record" => client'[q].new # n
    BY <1>3, <2>3, <2>4 DEF Pending, ClientShape
  <2>9. \A q, s \in Clients :
            q # s /\ client'[q].pc = "record" /\ client'[s].pc = "record"
                => client'[q].new # client'[s].new
    BY <2>1, <2>4, <2>8 DEF ChannelsInv
  <2>10. \A c \in Channels : c > used'.channels => drive'[c] = 0 /\ channel'[c] = Absent
    <3>1. \A c \in Channels : c > n => c > used.channels /\ c # n
      BY <1>1, <2>3 DEF n, Channels
    <3>. QED  BY <2>2, <2>5, <3>1 DEF ChannelsInv
  <2>11. client'["operator"].pc \in {"unwatch", "deactivate"} => wanted' = "over"
    BY <1>2, <2>1, <2>2, <2>4 DEF ChannelsInv
  <2>. QED  BY <2>2, <2>6, <2>7, <2>9, <2>10, <2>11 DEF ChannelsInv
<1>12. ASSUME NEW p \in Clients, RecordChannel(p) PROVE ChannelsInv'
  <2>. DEFINE n == client[p].new
              row == [expires |-> client[p].expires, token |-> client[p].token]
  <2>1. PICK C \in ClientState :
            /\ client' = [client EXCEPT ![p] = C]
            /\ client[p].pc = "record"
            /\ \/ client[p].old = 0 /\ Rests(C, client[p].todo)
               \/ /\ client[p].old # 0 /\ C.pc = "stop" /\ C.todo = client[p].todo
                  /\ C.old = client[p].old /\ C.new = client[p].new
    BY <1>12, RecordMoves
  <2>2. channel' = [channel EXCEPT ![n] = row] /\ UNCHANGED <<day, drive, used>>
        /\ wanted' = IF p = "operator" /\ wanted = "never" THEN "yes" ELSE wanted
    BY <1>12 DEF RecordChannel
  <2>3. n \in Channels /\ n <= used.channels /\ n \notin Recorded
        /\ drive[n] = day + Life /\ row.expires = day + Life
    BY <1>3, <2>1 DEF Pending, ClientShape
  <2>4. row \in Record
    BY <1>3, <2>1 DEF ClientState, Record
  <2>. HIDE DEF n, row
  <2>5. \A q \in Clients : client'[q] = IF q = p THEN C ELSE client[q]
    BY <2>1 DEF TypeInv
  <2>6. Recorded' = Recorded \cup {n} /\ channel'[n] = row
        /\ \A c \in Channels : c # n => channel'[c] = channel[c]
    BY <2>2, <2>3, <2>4, AbsentDistinct DEF Recorded, TypeInv
  <2>7. ASSUME NEW q \in Clients PROVE Pending(client[q], used.channels)'
    <3>1. CASE q = p
      <4>1. C.todo \cup ({C.old} \ {0}) \subseteq Recorded'
        BY <1>3, <2>1, <2>6 DEF Pending, Rests
      <4>2. C.pc # "record" /\ (C.pc = "stop" => C.new = n /\ C.old # n)
        <5>1. CASE Rests(C, client[p].todo)
          BY <5>1 DEF Rests
        <5>2. CASE C.pc = "stop" /\ C.new = client[p].new /\ C.old = client[p].old
                   /\ client[p].old # 0
          <6>1. C.old \in Recorded
            BY <1>3, <5>2 DEF Pending
          <6>. QED  BY <2>3, <5>2, <6>1 DEF n
        <5>. QED  BY <2>1, <5>1, <5>2
      <4>. QED  BY <2>2, <2>3, <2>5, <2>6, <3>1, <4>1, <4>2 DEF Pending
    <3>2. CASE q # p
      <4>1. client'[q] = client[q] /\ Pending(client[q], used.channels)
        BY <1>3, <2>5, <3>2
      <4>2. client[q].pc = "record" => client[q].new # n
        BY <2>1, <3>2 DEF ChannelsInv, n
      <4>3. client[q].pc = "stop" => client[q].old \in Recorded /\ wanted # "never"
        BY <1>3, <4>1 DEF Pending, ClientShape, ChannelsInv, Channels
      <4>4. client[q].pc = "stop" /\ wanted' = "yes" =>
                wanted = "yes" /\ client[q].new \in Recorded
                /\ channel'[client[q].new] = channel[client[q].new]
        <5>1. client[q].pc = "stop" => client[q].new \in Channels
          BY <1>3 DEF ClientShape
        <5>. QED  BY <2>2, <2>3, <2>6, <4>1, <4>3, <5>1 DEF Pending
      <4>. QED  BY <2>2, <2>6, <4>1, <4>2, <4>4 DEF Pending
    <3>. QED  BY <3>1, <3>2
  <2>8. C.pc # "record"
    BY <2>1 DEF Rests
  <2>9. \A q, s \in Clients :
            q # s /\ client'[q].pc = "record" /\ client'[s].pc = "record"
                => client'[q].new # client'[s].new
    BY <2>5, <2>8 DEF ChannelsInv
  <2>10. \A c \in Channels : c > used'.channels => drive'[c] = 0 /\ channel'[c] = Absent
    <3>1. \A c \in Channels : c > used.channels => c # n
      BY <1>1, <2>3 DEF Channels
    <3>. QED  BY <2>2, <2>6, <3>1 DEF ChannelsInv
  <2>11. wanted' # "never"
    <3>1. CASE p = "operator"
      BY <2>2, <3>1
    <3>2. CASE p = "renewal"
      <4>1. client[p].old \in Channels /\ client[p].old \in Recorded
        BY <1>3, <1>4, <2>1, <3>2 DEF RenewalShape, Registering, Pending, Channels
      <4>. QED  BY <2>2, <3>2, <4>1 DEF ChannelsInv
    <3>. QED  BY <1>2, <3>1, <3>2
  <2>12. client'["operator"].pc \in {"unwatch", "deactivate"} => wanted' = "over"
    <3>1. C.pc \notin {"unwatch", "deactivate"}
      BY <2>1 DEF Rests
    <3>. QED  BY <1>2, <2>2, <2>5, <3>1 DEF ChannelsInv
  <2>. QED  BY <2>7, <2>9, <2>10, <2>11, <2>12 DEF ChannelsInv
<1>13. ASSUME NEW p \in Clients, Ends(p) PROVE ChannelsInv'
  <2>1. PICK C : /\ client' = [client EXCEPT ![p] = C]
                 /\ Rests(C, client[p].todo) \/ Rests(C, {})
    BY <1>13, EndMoves
  <2>2. client[p].todo \subseteq Recorded /\ {} \subseteq Recorded
    BY <1>3 DEF Pending
  <2>3. UNCHANGED <<day, drive, channel, wanted>> /\ used'.channels = used.channels
    BY <1>13 DEF Ends, FailCall, Crash, TypeInv, Usage
  <2>4. PICK todo : Rests(C, todo) /\ todo \subseteq Recorded
    BY <2>1, <2>2
  <2>. QED  BY <1>6, <2>1, <2>3, <2>4
<1>14. CASE BeginRegister
  <2>1. PICK C \in ClientState :
            /\ client' = [client EXCEPT !["operator"] = C]
            /\ C.pc = "token" /\ C.todo = client["operator"].todo \ {0} /\ C.old = 0
    BY <1>2, <1>14, TurnMoves
  <2>2. C.todo \cup ({C.old} \ {0}) \subseteq Recorded
    BY <1>2, <1>3, <2>1 DEF Pending
  <2>3. UNCHANGED <<day, drive, channel, wanted>> /\ used'.channels = used.channels
        /\ Recorded' = Recorded
    BY <1>14 DEF BeginRegister, TypeInv, Usage, Recorded
  <2>. QED  BY <1>2, <2>1, <2>2, <2>3, CalmStep
<1>15. ASSUME NEW c \in Channels, RenewChannel(c) PROVE ChannelsInv'
  <2>1. PICK C \in ClientState :
            /\ client' = [client EXCEPT !["renewal"] = C]
            /\ C.pc = "token" /\ C.todo = client["renewal"].todo \ {c} /\ C.old = c
    BY <1>2, <1>15, TurnMoves
  <2>2. c \in client["renewal"].todo
    BY <1>15 DEF RenewChannel
  <2>3. C.todo \cup ({C.old} \ {0}) \subseteq Recorded
    BY <1>2, <1>3, <2>1, <2>2 DEF Pending
  <2>4. UNCHANGED <<day, drive, channel, used, wanted>> /\ Recorded' = Recorded
    BY <1>15 DEF RenewChannel, Recorded
  <2>. QED  BY <1>2, <2>1, <2>3, <2>4, CalmStep
<1>16. CASE BeginRenewal
  <2>1. PICK C : client' = [client EXCEPT !["renewal"] = C] /\ Rests(C, Expiring)
    BY <1>16, RenewalMoves
  <2>2. Expiring \subseteq Recorded
    BY DEF Expiring
  <2>3. UNCHANGED <<day, drive, channel, used, wanted>>
    BY <1>16 DEF BeginRenewal
  <2>. QED  BY <1>2, <1>6, <2>1, <2>2, <2>3
<1>17. ASSUME NEW c \in Channels, BeginUnregister(c) PROVE ChannelsInv'
  <2>1. PICK C \in ClientState :
            /\ client' = [client EXCEPT !["operator"] = C]
            /\ C.pc = "unwatch" /\ C.todo = {} /\ C.old = c
    BY <1>17, UnregisterMoves
  <2>2. UNCHANGED <<day, drive, channel>> /\ used'.channels = used.channels
        /\ wanted' = "over" /\ Recorded' = Recorded /\ c \in Recorded
    BY <1>17 DEF BeginUnregister, TypeInv, Usage, Recorded
  <2>3. C.todo \cup ({C.old} \ {0}) \subseteq Recorded
    BY <2>1, <2>2
  <2>. QED  BY <1>2, <2>1, <2>2, <2>3, CalmStep
<1>18. CASE StopOld
  <2>1. PICK C : client' = [client EXCEPT !["renewal"] = C] /\ Rests(C, client["renewal"].todo)
    BY <1>18, StopMoves
  <2>2. client["renewal"].old \in Recorded /\ client["renewal"].todo \subseteq Recorded
    BY <1>2, <1>3, <1>18 DEF StopOld, Pending, ClientShape, Channels
  <2>3. UNCHANGED <<day, channel, used, wanted>> /\ Recorded' = Recorded
        /\ \A c \in Channels \ Recorded : drive'[c] = drive[c]
    BY <1>18, <2>2 DEF StopOld, Recorded, TypeInv
  <2>4. C \in ClientState /\ C.pc \notin {"record", "stop"}
        /\ C.todo \cup ({C.old} \ {0}) \subseteq Recorded
    BY <2>1, <2>2 DEF Rests
  <2>. QED  BY <1>2, <2>1, <2>3, <2>4, CalmStep
<1>19. CASE Unwatch
  <2>1. PICK C \in ClientState :
            /\ client' = [client EXCEPT !["operator"] = C]
            /\ \/ Rests(C, {})
               \/ /\ C.pc = "deactivate" /\ C.todo = {}
                  /\ C.old = client["operator"].old
    BY <1>19, UnwatchMoves
  <2>2. client["operator"].old \in Recorded /\ wanted = "over"
    BY <1>2, <1>3, <1>19 DEF Unwatch, Pending, ClientShape, Channels, ChannelsInv
  <2>3. UNCHANGED <<day, channel, used, wanted>> /\ Recorded' = Recorded
        /\ \A c \in Channels \ Recorded : drive'[c] = drive[c]
    BY <1>19, <2>2 DEF Unwatch, Recorded, TypeInv
  <2>4. C.pc \notin {"record", "stop"} /\ C.todo \cup ({C.old} \ {0}) \subseteq Recorded
    BY <2>1, <2>2 DEF Rests
  <2>. QED  BY <1>2, <2>1, <2>2, <2>3, <2>4, CalmStep
<1>20. CASE Deactivate
  <2>1. client' = [client EXCEPT !["operator"] = IdleClient]
        /\ client["operator"].pc = "deactivate" /\ UNCHANGED <<drive, day, used, wanted>>
    BY <1>20 DEF Deactivate
  <2>2. client["operator"].rec \in Record /\ client["operator"].old \in Recorded
        /\ wanted = "over"
    BY <1>2, <1>3, <2>1 DEF ClientShape, ChannelsInv, Pending, Channels
  <2>. DEFINE row == [client["operator"].rec EXCEPT !.expires = 0]
  <2>3. row \in Record /\ channel' = [channel EXCEPT ![client["operator"].old] = row]
    BY <1>20, <2>2 DEF Deactivate, Record
  <2>. HIDE DEF row
  <2>4. Recorded' = Recorded /\ \A c \in Channels \ Recorded : channel'[c] = channel[c]
    BY <2>2, <2>3, AbsentDistinct DEF Recorded, TypeInv
  <2>5. IdleClient \in ClientState /\ IdleClient.pc = "idle" /\ IdleClient.todo = {}
        /\ IdleClient.old = 0
    BY DEF IdleClient, ClientState
  <2>. HIDE DEF IdleClient
  <2>. QED  BY <1>2, <2>1, <2>2, <2>4, <2>5, CalmStep
<1>. QED  BY <1>7, <1>8, <1>9, <1>10, <1>11, <1>12, <1>13, <1>14, <1>15, <1>16, <1>17,
             <1>18, <1>19, <1>20 DEF Next, ClientStep, Ends

\* A channel that notifies a webhook which does not know it is the work of a
\* fault between watch and record.
THEOREM OrphansAreFaultsAlways == Spec => []OrphansAreFaults
<1>1. Init => OrphanInv
  <2>1. ASSUME Init PROVE OrphanInv
    <3>1. Orphans = {}
      BY <2>1 DEF Init, Orphans, Live
    <3>2. used.faults = 0
      BY <2>1 DEF Init
    <3>. QED  BY <3>1, <3>2, FS_EmptySet DEF OrphanInv
  <2>. QED  BY <2>1
<1>2. OrphanInv => OrphansAreFaults
  BY DEF OrphanInv, OrphansAreFaults, Orphans, Recording
<1>. QED  BY <1>1, <1>2, TypeInit, TypeStep, ChannelsInit, ChannelsStep, OrphanStep, PTL DEF Spec

----------------------------------------------------------------------------
(* A watch that is wanted is there *)

\* A channel that lasts is live: the faults are fewer than the days of margin.
LEMMA LastingLive ==
    ASSUME TypeInv, NEW c \in Channels, Lasting(c)
    PROVE  drive[c] > day /\ c \in Live \cap Recorded
<1>1. used.faults \in Nat /\ used.faults <= MaxFaults /\ day \in Nat /\ drive[c] \in Nat
  BY BoundsType DEF TypeInv, Usage
<1>2. drive[c] + used.faults >= day + Ahead /\ MaxFaults < Ahead /\ c \in Recorded
  BY RetryMargin DEF Lasting
<1>. QED  BY <1>1, <1>2, BoundsType, TimesType DEF Live

\* The step of a watch that goes on: some channel lasts on, whichever the step.
LEMMA CoverStep == TypeInv /\ TypeInv' /\ ChannelsInv /\ CoverInv /\ [Next]_vars => CoverInv'
<1>. SUFFICES ASSUME TypeInv, TypeInv', ChannelsInv, CoverInv, [Next]_vars, wanted' = "yes"
              PROVE  \E c \in Channels : Lasting(c)'
  BY DEF CoverInv
<1>. USE DEF history
<1>1. /\ used.faults \in Nat /\ day \in Nat /\ Life \in Nat /\ Ahead \in Nat /\ Ahead < Life
      /\ \A c \in Channels : drive[c] \in Nat
  BY BoundsType, TimesType DEF TypeInv, Usage
<1>2. "operator" \in Clients /\ "renewal" \in Clients
  BY DEF Clients
<1>3. \A q \in Clients :
          /\ client[q] \in ClientState /\ ClientShape(client[q])
          /\ Pending(client[q], used.channels)
  BY DEF TypeInv, ChannelsInv
<1>. DEFINE Work == client["renewal"].todo \cup {client["renewal"].old}
\* The step of another process keeps any channel that lasts.
<1>4. ASSUME NEW c \in Channels, Lasting(c), drive'[c] = drive[c],
             channel'[c] # Absent, channel'[c].expires = channel[c].expires,
             day' = day, renewed' = renewed, used'.faults >= used.faults, used'.faults \in Nat,
             c \in Work => c \in Work' \/ used'.faults > used.faults
      PROVE  Lasting(c)'
  <2>1. c \in Recorded' /\ channel'[c].expires = drive'[c]
    BY <1>4 DEF Lasting, Recorded
  <2>2. drive'[c] + used'.faults >= day' + Ahead
    BY <1>1, <1>4 DEF Lasting
  <2>3. renewed' => drive'[c] + used'.faults > day' + Ahead \/ c \in Work'
    <3>1. CASE ~renewed
      BY <1>4, <3>1
    <3>2. CASE drive[c] + used.faults > day + Ahead
      BY <1>1, <1>4, <3>2
    <3>3. CASE c \in Work /\ used'.faults > used.faults
      BY <1>1, <1>4, <3>3 DEF Lasting
    <3>4. CASE c \in Work'
      BY <3>4
    <3>. QED  BY <1>4, <3>1, <3>2, <3>3, <3>4 DEF Lasting
  <2>. QED  BY <2>1, <2>2, <2>3 DEF Lasting
\* A channel registered this day lasts beyond the margin.
<1>5. ASSUME NEW c \in Channels, channel'[c] # Absent, channel'[c].expires = day + Life,
             drive'[c] = day + Life, day' = day, used'.faults = used.faults
      PROVE  Lasting(c)'
  <2>1. c \in Recorded'
    BY <1>5 DEF Recorded
  <2>. QED  BY <1>1, <1>5, <2>1 DEF Lasting
<1>6. ASSUME NEW p \in Clients, RecordChannel(p) PROVE \E c \in Channels : Lasting(c)'
  <2>. DEFINE n == client[p].new
              row == [expires |-> client[p].expires, token |-> client[p].token]
  <2>1. client[p].pc = "record" /\ channel' = [channel EXCEPT ![n] = row]
        /\ UNCHANGED <<day, drive, used>>
    BY <1>6 DEF RecordChannel
  <2>2. n \in Channels /\ drive[n] = day + Life /\ row.expires = day + Life /\ row \in Record
    BY <1>3, <2>1 DEF Pending, ClientShape, ClientState, Record
  <2>. HIDE DEF n, row
  <2>3. channel'[n] = row /\ row # Absent
    BY <2>1, <2>2, AbsentDistinct DEF TypeInv
  <2>. QED  BY <1>5, <2>1, <2>2, <2>3
<1>7. CASE \A p \in Clients : ~RecordChannel(p)
  <2>1. wanted = "yes"
    BY <1>7 DEF Next, ClientStep, Edit, NextDay, Webhook, RenewChannel, BeginUnregister,
                GetStartPageToken, WatchChanges, FailCall, Crash, BeginRegister,
                BeginRenewal, StopOld, Unwatch, Deactivate, vars
  <2>2. PICK c \in Channels : Lasting(c)
    BY <2>1 DEF CoverInv
  <2>3. channel[c] # Absent /\ c \in Recorded /\ drive[c] > day /\ c # 0 /\ drive[c] \in Nat
    BY <1>1, <2>2, LastingLive DEF Lasting, Recorded, Channels
  <2>4. ASSUME day' = day, drive'[c] = drive[c], channel' = channel, renewed' = renewed,
               used'.faults = used.faults, c \in Work => c \in Work'
        PROVE  Lasting(c)'
    <3>. HIDE DEF Work
    <3>. QED  BY <1>1, <1>4, <2>2, <2>3, <2>4
  <2>5. CASE Edit \/ UNCHANGED vars
    <3>1. UNCHANGED <<day, drive, channel, client, renewed, used>>
      BY <2>5 DEF Edit, vars
    <3>2. Work' = Work
      BY <3>1
    <3>. QED  BY <2>4, <3>1, <3>2
  <2>6. CASE NextDay
    <3>1. client["renewal"].pc = "idle" /\ renewed /\ ~renewed' /\ day' = day + 1
          /\ UNCHANGED <<drive, channel, used>>
      BY <1>2, <2>6 DEF NextDay
    <3>2. c \notin Work
      BY <1>2, <1>3, <2>3, <3>1 DEF ClientShape
    <3>3. drive[c] + used.faults > day + Ahead /\ channel[c].expires = drive[c]
      BY <2>2, <3>1, <3>2 DEF Lasting
    <3>4. drive[c] + used.faults >= (day + 1) + Ahead
      BY <1>1, <2>3, <3>3
    <3>5. Recorded' = Recorded
      BY <3>1 DEF Recorded
    <3>6. Lasting(c)'
      BY <2>3, <3>1, <3>3, <3>4, <3>5 DEF Lasting
    <3>. QED  BY <3>6
  <2>7. ASSUME NEW d \in Channels, Webhook(d) PROVE Lasting(c)'
    <3>1. UNCHANGED <<day, drive, client, renewed, used>>
      BY <2>7 DEF Webhook
    <3>2. channel'[c] # Absent /\ channel'[c].expires = channel[c].expires
      <4>1. CASE Known(d)
        <5>. DEFINE row == [channel[d] EXCEPT !.token = log]
        <5>1. channel[d] \in Record
          BY <4>1 DEF Known, Recorded, TypeInv
        <5>2. row \in Record /\ row.expires = channel[d].expires
          BY <5>1, BoundsType DEF Record, TypeInv
        <5>3. channel' = [channel EXCEPT ![d] = row]
          BY <2>7, <4>1 DEF Webhook, TypeInv
        <5>. HIDE DEF row
        <5>. QED  BY <2>3, <5>2, <5>3, AbsentDistinct DEF TypeInv
      <4>2. CASE ~Known(d)
        BY <2>3, <2>7, <4>2 DEF Webhook
      <4>. QED  BY <4>1, <4>2
    <3>3. Work' = Work
      BY <3>1
    <3>. HIDE DEF Work
    <3>. QED  BY <1>1, <1>4, <2>2, <3>1, <3>2, <3>3
  \* What the renewal is at work on, when one client moves.
  <2>8. ASSUME NEW p \in Clients, NEW C, client' = [client EXCEPT ![p] = C],
               p = "renewal" => C.todo \cup {C.old} = Work
        PROVE  Work' = Work
    <3>1. client'["renewal"] = IF p = "renewal" THEN C ELSE client["renewal"]
      BY <1>2, <2>8 DEF TypeInv
    <3>. QED  BY <2>8, <3>1
  <2>9. ASSUME NEW p \in Clients, GetStartPageToken(p) PROVE Lasting(c)'
    <3>1. Work' = Work
      BY <2>8, <2>9, TokenMoves
    <3>. HIDE DEF Work
    <3>. QED  BY <2>4, <2>9, <3>1 DEF GetStartPageToken
  <2>10. ASSUME NEW p \in Clients, WatchChanges(p) PROVE Lasting(c)'
    <3>1. Work' = Work
      BY <2>8, <2>10, WatchMoves
    <3>2. c # used.channels + 1
      <4>1. used.channels \in Nat /\ ~(c > used.channels)
        BY <2>3 DEF ChannelsInv, TypeInv, Usage
      <4>. QED  BY <4>1 DEF Channels
    <3>3. drive'[c] = drive[c] /\ UNCHANGED <<day, channel, renewed>>
          /\ used'.faults = used.faults
      BY <2>10, <3>2 DEF WatchChanges, TypeInv, Usage
    <3>. HIDE DEF Work
    <3>. QED  BY <2>4, <3>1, <3>3
  <2>11. ASSUME NEW p \in Clients, Ends(p) PROVE Lasting(c)'
    <3>1. UNCHANGED <<day, drive, channel, renewed>> /\ used'.faults = used.faults + 1
      BY <2>11 DEF Ends, FailCall, Crash, TypeInv, Usage
    <3>2. used'.faults \in Nat /\ used'.faults > used.faults
      BY <1>1, <3>1
    <3>. HIDE DEF Work
    <3>. QED  BY <1>1, <1>4, <2>2, <2>3, <3>1, <3>2
  <2>12. CASE BeginRegister
    <3>1. Work' = Work
      <4>1. PICK C : client' = [client EXCEPT !["operator"] = C]
        BY <2>12 DEF BeginRegister
      <4>. QED  BY <1>2, <2>8, <4>1
    <3>2. UNCHANGED <<day, drive, channel, renewed>> /\ used'.faults = used.faults
      BY <2>12 DEF BeginRegister, TypeInv, Usage
    <3>. HIDE DEF Work
    <3>. QED  BY <2>4, <3>1, <3>2
  <2>13. ASSUME NEW d \in Channels, RenewChannel(d) PROVE Lasting(c)'
    <3>1. PICK C \in ClientState :
              /\ client' = [client EXCEPT !["renewal"] = C]
              /\ C.todo = client["renewal"].todo \ {d} /\ C.old = d
      BY <1>2, <2>13, TurnMoves
    <3>2. client'["renewal"] = C /\ client["renewal"].old = 0
      BY <1>2, <1>3, <2>13, <3>1 DEF RenewChannel, ClientShape, TypeInv
    <3>3. c \in Work => c \in Work'
      BY <2>3, <3>1, <3>2
    <3>. HIDE DEF Work
    <3>. QED  BY <2>4, <2>13, <3>3 DEF RenewChannel
  <2>14. CASE BeginRenewal
    <3>1. PICK C : client' = [client EXCEPT !["renewal"] = C] /\ Rests(C, Expiring)
      BY <2>14, RenewalMoves
    <3>2. client'["renewal"].todo = Expiring
      BY <1>2, <3>1 DEF TypeInv, Rests
    <3>3. UNCHANGED <<day, drive, channel, used>>
      BY <2>14 DEF BeginRenewal
    <3>4. /\ channel[c].expires = drive[c] /\ drive[c] + used.faults >= day + Ahead
      BY <2>2 DEF Lasting
    <3>5. c \in Expiring \/ drive[c] > day + Ahead
      BY <1>1, <2>3, <3>4 DEF Expiring
    <3>6. c \in Expiring \/ drive[c] + used.faults > day + Ahead
      BY <1>1, <2>3, <3>5
    <3>7. Recorded' = Recorded
      BY <3>3 DEF Recorded
    <3>. QED  BY <2>3, <3>2, <3>3, <3>4, <3>6, <3>7 DEF Lasting
  <2>15. CASE StopOld
    <3>. DEFINE n == client["renewal"].new
    <3>1. client["renewal"].pc = "stop" /\ UNCHANGED <<day, channel, used>>
          /\ drive' = [drive EXCEPT ![client["renewal"].old] = 0]
      BY <2>15 DEF StopOld
    <3>2. n \in Channels /\ n \in Recorded /\ n # client["renewal"].old
          /\ drive[n] = day + Life /\ channel[n].expires = day + Life
      BY <1>2, <1>3, <2>1, <3>1 DEF Pending, ClientShape
    <3>. HIDE DEF n
    <3>3. drive'[n] = drive[n] /\ channel'[n] # Absent
      BY <3>1, <3>2 DEF TypeInv, Recorded
    <3>. QED  BY <1>5, <3>1, <3>2, <3>3
  <2>16. ~Unwatch /\ ~Deactivate /\ \A d \in Channels : ~BeginUnregister(d)
    BY <2>1 DEF Unwatch, Deactivate, BeginUnregister, ChannelsInv
  <2>. QED  BY <1>7, <2>5, <2>6, <2>7, <2>9, <2>10, <2>11, <2>12, <2>13, <2>14, <2>15, <2>16
            DEF Next, ClientStep, Ends
<1>. QED  BY <1>6, <1>7

\* From the end of the first registration on there is at every moment a live
\* channel the webhook knows, although the renewals may fail or die at any step,
\* as long as there are fewer faults than days in the margin.
THEOREM CoveredAlways == Spec => []Covered
<1>1. Init => CoverInv
  BY DEF Init, CoverInv
<1>2. TypeInv /\ CoverInv => Covered
  <2>1. ASSUME TypeInv, CoverInv, wanted = "yes" PROVE Live \cap Recorded # {}
    BY <2>1, LastingLive DEF CoverInv
  <2>. QED  BY <2>1 DEF Covered
<1>. QED  BY <1>1, <1>2, TypeInit, TypeStep, ChannelsInit, ChannelsStep, CoverStep, PTL DEF Spec
=============================================================================
