--------------------------- MODULE NoticePipeline ---------------------------
(* How an execution reaches the user: the live journal and the general      *)
(* outbox write to system_events, the relay reads it and sends.  The three  *)
(* run in processes of their own and share nothing but the tables.          *)
EXTENDS LiveTradeJournal, EventOutbox, TelegramRelay

\* The keys of notices (live_trade_journal.py:194), of the outbox (a uuid, or
\* one of trade_journal.py:59) and of the health row have prefixes of their own.
ASSUME PipelineAssumption ==
    \A record \in Records : record.key # Health /\ record.key[2] = {}

\* They observe what a pass cannot have read, and nothing depends on them.
VARIABLES
    unread,   \* events inserted since the pass asked for events, which it may pass
    late      \* events that the cursor was past when they came, or that it passed
              \* at the end of a pass which had asked before they came

observed == <<unread, late>>
vars == <<clock, events, health, faults, journalVars, outbox, relayVars, observed>>

Init == EventsInit /\ JournalInit /\ OutboxInit /\ RelayInit /\ unread = {} /\ late = {}

Arrived == ToSet(events') \ Rows

\* The time of the latest row of the pass.
Latest == Max({saved.cursor} \cup {row.at : row \in ToSet(pass.batch)})

\* What comes before a row of the pass, or may come before an error it has yet to
\* ask for, is passed by the cursor unless the pass ends before.
Passable(row) == pass.step = "fetched" \/ (pass.step # "idle" /\ row.at < Latest)

ObserveInserted ==
    /\ unread' = unread \cup Keys({row \in Arrived : Passable(row)})
    /\ late' = late \cup Keys({row \in Arrived : row.at < saved.cursor})

ObserveErrors ==
    /\ unread' = Keys({row \in Rows : row.key \in unread /\ Passable(row)'})
    /\ UNCHANGED late

ObservePassed ==
    /\ unread' = {}
    /\ late' = late \cup Keys({row \in Rows : row.key \in unread /\ row.at < Cursor})

ClockStep ==
    /\ ClockTicks
    /\ UNCHANGED <<events, health, faults, journalVars, outbox, relayVars, observed>>

FillStep ==
    /\ FillExecuted
    /\ UNCHANGED <<clock, events, health, faults, outbox, relayVars, observed>>

SyncStep ==
    /\ \/ PublishTrades /\ UNCHANGED <<events, health>>
       \/ PublishEvents /\ UNCHANGED health
       \/ Commit /\ UNCHANGED events
    /\ ObserveInserted
    /\ UNCHANGED <<clock, faults, outbox, relayVars>>

SyncFailure ==
    /\ SyncRefused \/ SyncFails
    /\ UNCHANGED <<clock, events, outbox, relayVars, observed>>

OutboxStep ==
    /\ \/ Enqueue /\ UNCHANGED <<events, faults>>
       \/ FlushDelivers /\ UNCHANGED faults
       \/ FlushFails
    /\ ObserveInserted
    /\ UNCHANGED <<clock, health, journalVars, relayVars>>

\* What the relay does as long as it runs.
RelayStep ==
    /\ \/ (RelayFetches \/ Send) /\ UNCHANGED observed
       \/ RelayFetchesErrors /\ ObserveErrors
       \/ SaveState /\ ObservePassed
    /\ UNCHANGED <<clock, events, health, faults, journalVars, outbox>>

RelayFailure ==
    /\ \/ SendFails /\ UNCHANGED unread
       \/ RelayDies /\ unread' = {}
    /\ UNCHANGED <<clock, events, health, journalVars, outbox, late>>

Next ==
    \/ ClockStep \/ FillStep \/ SyncStep \/ SyncFailure \/ OutboxStep
    \/ RelayStep \/ RelayFailure

Spec == Init /\ [][Next]_vars

\* The relay is restarted and loops; its failures are the bounded ones.
FairSpec == Spec /\ WF_vars(RelayStep)

-----------------------------------------------------------------------------
(* What the pipeline promises *)

\* Whatever a database has recorded as published is in the table: a fill that is
\* CryptoForge's and was notified in a committed sync, and an outbox event that
\* was marked delivered, through every failure and crash between the upsert and
\* the record of it (live_trade_journal.py:333-335, outbox.py:207-215).
CommittedIsPublished ==
    /\ \A f \in local.notified \ seed :
         Owned(f) => \E row \in Rows : f \in row.key[2]
    /\ \A i \in 1..Len(outbox) : outbox[i].status = "delivered" => outbox[i].key \in Keys(Rows)

\* A message is repeated only for a reason: an event is sent once more for each
\* failure or crash at most, and a fill is in one event more for each sync that
\* failed after it had published its notices (telegram_relay.py:329-349,
\* live_trade_journal.py:191-192).
RepeatsNeedFault ==
    /\ \A key \in DOMAIN sent \ {Health} : sent[key] <= 1 + faults
    /\ \A f \in Fills :
         Cardinality({row \in Rows : f \in row.key[2]}) <= 1 + broken

WasSent(row) == row.key \in DOMAIN sent

\* The cursor never passes an event that was in the table when the pass asked
\* for events, unless it was sent.  One inserted later may be passed: behind the
\* cursor, behind events of the pass, or before an error of its second request
\* (telegram_relay.py:78-84, 326-353).
PassedWasSent ==
    \A row \in Rows : row.at < saved.cursor => WasSent(row) \/ row.key \in late

\* As many events at one time as a pass fetches hide everything after them.
Crowded == \E t \in 0..MaxTime : Cardinality({row \in Rows : row.at = t}) >= Limit

\* Every event is sent in the end, unless it came too late for the pass that took
\* the cursor past it, one time holds too many, or the state file is torn
\* (telegram_relay.py:310-361, 475-491).
PromptNoticesSent ==
    []<>(saved = Torn \/ Crowded \/ \A row \in Rows : WasSent(row) \/ row.key \in late)
=============================================================================
