----------------------------- MODULE DriveWatch -----------------------------
(***************************************************************************)
(* sync/drive_watch.py and the table drive_channels: watch channels are    *)
(* registered with Drive, renewed before they expire and stopped, by an    *)
(* operator at the command line and by the daily renewal.  A notification  *)
(* reaches the webhook, which pulls the changes after the page token of    *)
(* the channel, if it knows the channel; DriveEvents has the details.      *)
(*                                                                         *)
(* A call of Drive and an access to the table are single steps.  Time is   *)
(* counted in days: the renewal runs once a day.  Channels are numbered in *)
(* the order of their registration.                                        *)
(***************************************************************************)
EXTENDS Naturals, FiniteSets

CONSTANTS
    Life,         \* days a channel lives (_DEFAULT_EXPIRATION_HOURS)
    Ahead,        \* days before it expires that it is renewed (_RENEW_BEFORE_HOURS)
    Absent,       \* no record
    MaxChannels,  \* bound: channels registered
    MaxDays,      \* bound: days
    MaxEdits,     \* bound: edits on Drive
    MaxOrders,    \* bound: registrations and unregistrations by the operator
    MaxFaults     \* bound: calls that fail, processes that die

\* expires 0: no expiration.
Record == [expires : Nat, token : Nat]

\* A new channel is not due for renewal the next day: 7 days against 2.
ASSUME TimesType == Life \in Nat /\ Ahead \in Nat /\ Ahead < Life
\* One failed renewal is made good by that of the next day.
ASSUME RetryMargin == MaxFaults < Ahead
ASSUME AbsentDistinct == Absent \notin Record
ASSUME BoundsType == /\ MaxChannels \in Nat /\ MaxDays \in Nat
                     /\ MaxEdits \in Nat /\ MaxOrders \in Nat
                     /\ MaxFaults \in Nat

VARIABLES
    day,      \* what datetime.now reads
    log,      \* number of changes in Drive's change log
    drive,    \* drive[c]: the channel at Drive: its last day, 0 when stopped
    notices,  \* notices[c]: notifications under way
    channel,  \* table drive_channels
    client,   \* the operator's command and the renewal
    renewed,  \* the renewal of this day has been run
    seen,     \* history: the changes some pull has listed
    owed,     \* history: the changes made while the operator wanted a watch
    wanted,   \* history: the operator has a channel, and has not given up any
    used      \* how much of each bound is used up

history == <<seen, owed, wanted>>
vars == <<day, log, drive, notices, channel, client, renewed, history, used>>

Channels == 1..MaxChannels
Clients == {"operator", "renewal"}

\* old: the channel to replace or to stop; rec: its record; todo: the expiring
\* channels that were listed.
IdleClient == [pc |-> "idle", todo |-> {}, old |-> 0, new |-> 0, token |-> 0,
               expires |-> 0, rec |-> Absent]

Init ==
    /\ day = 0
    /\ log = 0
    /\ drive = [c \in Channels |-> 0]
    /\ notices = [c \in Channels |-> 0]
    /\ channel = [c \in Channels |-> Absent]
    /\ client = [p \in Clients |-> IdleClient]
    /\ renewed = FALSE
    /\ seen = {}
    /\ owed = {}
    /\ wanted = "never"
    /\ used = [channels |-> 0, orders |-> 0, faults |-> 0]

Live == {c \in Channels : drive[c] > day}
Recorded == {c \in Channels : channel[c] # Absent}

----------------------------------------------------------------------------
(* Drive *)

\* Every live channel is notified of a change.
Edit ==
    /\ log < MaxEdits
    /\ log' = log + 1
    /\ notices' = [c \in Channels |-> IF c \in Live THEN notices[c] + 1 ELSE notices[c]]
    /\ owed' = IF wanted = "yes" THEN owed \cup {log'} ELSE owed
    /\ UNCHANGED <<day, drive, channel, client, renewed, seen, wanted, used>>

\* A day ends when the renewal has been run; a command takes less than a day.
NextDay ==
    /\ day < MaxDays
    /\ renewed
    /\ \A p \in Clients : client[p].pc = "idle"
    /\ day' = day + 1
    /\ renewed' = FALSE
    /\ UNCHANGED <<log, drive, notices, channel, client, history, used>>

\* Mutant: only the channel that expires last is known.
KnownIfNewest(c) ==
    c \in Recorded /\ \A d \in Recorded : channel[d].expires <= channel[c].expires

\* The webhook asks for the record alone: the channel may have been stopped.
Known(c) == c \in Recorded

\* A notification of an unknown channel is ignored; others lead to a pull from
\* the page token of the record.
Webhook(c) ==
    /\ notices[c] > 0
    /\ notices' = [notices EXCEPT ![c] = @ - 1]
    /\ IF Known(c)
       THEN /\ seen' = seen \cup (channel[c].token + 1)..log
            /\ channel' = [channel EXCEPT ![c].token = log]
       ELSE UNCHANGED <<seen, channel>>
    /\ UNCHANGED <<day, log, drive, client, renewed, owed, wanted, used>>

----------------------------------------------------------------------------
(* register_watch_channel *)

\* The operator's order: drive watch register.
BeginRegister ==
    /\ client["operator"].pc = "idle"
    /\ used.orders < MaxOrders
    /\ client' = [client EXCEPT !["operator"] = [IdleClient EXCEPT !.pc = "token"]]
    /\ used' = [used EXCEPT !.orders = @ + 1]
    /\ UNCHANGED <<day, log, drive, notices, channel, renewed, history>>

GetStartPageToken(p) ==
    /\ client[p].pc = "token"
    /\ client' = [client EXCEPT ![p].pc = "watch", ![p].token = log]
    /\ UNCHANGED <<day, log, drive, notices, channel, renewed, history, used>>

\* Drive is assumed to answer with an expiration: without one the record has none
\* and is never renewed.
WatchChanges(p) ==
    /\ client[p].pc = "watch"
    /\ used.channels < MaxChannels
    /\ LET c == used.channels + 1 IN
       /\ drive' = [drive EXCEPT ![c] = day + Life]
       /\ client' = [client EXCEPT ![p].pc = "record", ![p].new = c,
                                   ![p].expires = day + Life]
       /\ used' = [used EXCEPT !.channels = c]
    /\ UNCHANGED <<day, log, notices, channel, renewed, history>>

\* To the next channel that expires, or the command is over.
Finished(R) == IF R.todo = {} THEN IdleClient
               ELSE [IdleClient EXCEPT !.pc = "renew", !.todo = R.todo]

\* Mutant: the new channel is recorded under the id of the old one.
RecordUnderOldId(p) ==
    /\ client[p].pc = "record"
    /\ LET c == IF client[p].old = 0 THEN client[p].new ELSE client[p].old IN
       channel' = [channel EXCEPT ![c] =
           [expires |-> client[p].expires, token |-> client[p].token]]
    /\ client' = [client EXCEPT ![p] =
           IF @.old = 0 THEN Finished(@) ELSE [@ EXCEPT !.pc = "stop"]]
    /\ wanted' = IF p = "operator" /\ wanted = "never" THEN "yes" ELSE wanted
    /\ UNCHANGED <<day, log, drive, notices, renewed, seen, owed, used>>

\* upsert_drive_channel; when the operator's command returns there is a watch.
RecordChannel(p) ==
    /\ client[p].pc = "record"
    /\ channel' = [channel EXCEPT ![client[p].new] =
           [expires |-> client[p].expires, token |-> client[p].token]]
    /\ client' = [client EXCEPT ![p] =
           IF @.old = 0 THEN Finished(@) ELSE [@ EXCEPT !.pc = "stop"]]
    /\ wanted' = IF p = "operator" /\ wanted = "never" THEN "yes" ELSE wanted
    /\ UNCHANGED <<day, log, drive, notices, renewed, seen, owed, used>>

----------------------------------------------------------------------------
(* renew_expiring_channels *)

\* Mutant: the channels that expire this day alone.
ExpiringToday ==
    {c \in Recorded : channel[c].expires # 0 /\ channel[c].expires <= day + 1}

\* Every record whose expiration is near or past: of live channels, and of those
\* that were replaced long ago.
Expiring ==
    {c \in Recorded : channel[c].expires # 0 /\ channel[c].expires <= day + Ahead}

BeginRenewal ==
    /\ client["renewal"].pc = "idle"
    /\ ~renewed
    /\ renewed' = TRUE
    /\ client' = [client EXCEPT !["renewal"] = Finished([@ EXCEPT !.todo = Expiring])]
    /\ UNCHANGED <<day, log, drive, notices, channel, history, used>>

RenewChannel(c) ==
    /\ client["renewal"].pc = "renew"
    /\ c \in client["renewal"].todo
    /\ client' = [client EXCEPT !["renewal"] =
           [IdleClient EXCEPT !.pc = "token", !.todo = client["renewal"].todo \ {c},
                              !.old = c]]
    /\ UNCHANGED <<day, log, drive, notices, channel, renewed, history, used>>

\* The old channel is stopped once the new one is on record.  Its record stays
\* as it is, so that late notifications still lead to a pull.
StopOld ==
    /\ client["renewal"].pc = "stop"
    /\ drive' = [drive EXCEPT ![client["renewal"].old] = 0]
    /\ client' = [client EXCEPT !["renewal"] = Finished(@)]
    /\ UNCHANGED <<day, log, notices, channel, renewed, history, used>>

----------------------------------------------------------------------------
(* unregister_watch_channel *)

BeginUnregister(c) ==
    /\ client["operator"].pc = "idle"
    /\ used.orders < MaxOrders
    /\ c \in Recorded
    /\ client' = [client EXCEPT !["operator"] =
           [IdleClient EXCEPT !.pc = "unwatch", !.old = c, !.rec = channel[c]]]
    /\ wanted' = "over"
    /\ used' = [used EXCEPT !.orders = @ + 1]
    /\ UNCHANGED <<day, log, drive, notices, channel, renewed, seen, owed>>

\* Drive refuses to stop a channel that is not live; the command ends there.
Unwatch ==
    LET c == client["operator"].old IN
    /\ client["operator"].pc = "unwatch"
    /\ drive' = [drive EXCEPT ![c] = 0]
    /\ client' = [client EXCEPT !["operator"] =
           IF c \in Live THEN [@ EXCEPT !.pc = "deactivate"] ELSE IdleClient]
    /\ UNCHANGED <<day, log, notices, channel, renewed, history, used>>

\* Mutant: a new record is written, without the page token.
DeactivateAnew ==
    /\ client["operator"].pc = "deactivate"
    /\ channel' = [channel EXCEPT ![client["operator"].old] = [expires |-> 0]]
    /\ client' = [client EXCEPT !["operator"] = IdleClient]
    /\ UNCHANGED <<day, log, drive, notices, renewed, history, used>>

\* The record that was read is written back, without expiration.
Deactivate ==
    /\ client["operator"].pc = "deactivate"
    /\ channel' = [channel EXCEPT ![client["operator"].old] =
           [client["operator"].rec EXCEPT !.expires = 0]]
    /\ client' = [client EXCEPT !["operator"] = IdleClient]
    /\ UNCHANGED <<day, log, drive, notices, renewed, history, used>>

----------------------------------------------------------------------------
(* Faults *)

\* An exception ends the operator's command; the renewal logs it and goes on to
\* the next channel, with the old one left as it is.
FailCall(p) ==
    /\ client[p].pc \in {"token", "watch", "record", "stop", "unwatch", "deactivate"}
    /\ used.faults < MaxFaults
    /\ client' = [client EXCEPT ![p] = Finished(@)]
    /\ used' = [used EXCEPT !.faults = @ + 1]
    /\ UNCHANGED <<day, log, drive, notices, channel, renewed, history>>

Crash(p) ==
    /\ client[p].pc # "idle"
    /\ used.faults < MaxFaults
    /\ client' = [client EXCEPT ![p] = IdleClient]
    /\ used' = [used EXCEPT !.faults = @ + 1]
    /\ UNCHANGED <<day, log, drive, notices, channel, renewed, history>>

ClientStep(p) == GetStartPageToken(p) \/ WatchChanges(p) \/ RecordChannel(p)

Next ==
    \/ Edit
    \/ NextDay
    \/ \E c \in Channels : Webhook(c) \/ RenewChannel(c) \/ BeginUnregister(c)
    \/ \E p \in Clients : ClientStep(p) \/ FailCall(p) \/ Crash(p)
    \/ BeginRegister
    \/ BeginRenewal
    \/ StopOld
    \/ Unwatch
    \/ Deactivate

\* Google delivers the notifications; nothing else is needed.
Fairness == \A c \in Channels : WF_vars(Webhook(c))

Spec == Init /\ [][Next]_vars /\ Fairness

----------------------------------------------------------------------------
(* Properties *)

TypeOK ==
    /\ day \in 0..MaxDays
    /\ log \in 0..MaxEdits
    /\ drive \in [Channels -> Nat]
    /\ notices \in [Channels -> Nat]
    /\ channel \in [Channels -> Record \cup {Absent}]
    /\ client \in [Clients ->
           [pc : {"idle", "token", "watch", "record", "stop", "renew", "unwatch",
                  "deactivate"},
            todo : SUBSET Channels, old : Channels \cup {0}, new : Channels \cup {0},
            token : Nat, expires : Nat, rec : Record \cup {Absent}]]
    /\ renewed \in BOOLEAN
    /\ seen \subseteq 1..MaxEdits
    /\ owed \subseteq 1..MaxEdits
    /\ wanted \in {"never", "yes", "over"}
    /\ used \in [channels : 0..MaxChannels, orders : 0..MaxOrders, faults : 0..MaxFaults]

\* From the end of the first registration on there is at every moment a live
\* channel the webhook knows, although a daily renewal may fail or die at any
\* step (drive_watch.py:145-176).
Covered == wanted = "yes" => Live \cap Recorded # {}

\* A channel that notifies a webhook which does not know it is the work of a
\* fault between watch and record (drive_watch.py:62-87).
OrphansAreFaults ==
    LET recording == {client[p].new : p \in {q \in Clients : client[q].pc = "record"}}
    IN  Cardinality(Live \ (Recorded \cup recording)) <= used.faults

\* Every change made while a watch is wanted is listed in the end, whichever
\* channels were replaced or stopped meanwhile, and however late the
\* notification comes (drive_webhook.py:68-99).
ChangeSeen == \A i \in 1..MaxEdits : (i \in owed) ~> (i \in seen)
=============================================================================
