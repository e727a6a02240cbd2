--------------------------- MODULE TelegramRelay ---------------------------
(* The relay (telegram_relay.py): a pass reads its state file, fetches from *)
(* its cursor on, the cursor's own time included, the events and in a       *)
(* second request the errors, sends those it has not sent, stops at the     *)
(* first that cannot be sent, and writes the file, in place.  The ids in    *)
(* the file are those sent at the cursor.                                   *)
EXTENDS SystemEvents

CONSTANT Limit   \* events of one pass

ASSUME RelayAssumption == Limit \in Nat \ {0}

VARIABLES
    saved,   \* the state file; Torn once its writer died inside a write
    pass,    \* the pass: its events, how many it has handled, whether it stopped
    sent     \* how often each event was sent

relayVars == <<saved, pass, sent>>

Torn == [cursor |-> -1, ids |-> {}]
NoPass == [step |-> "idle", batch |-> <<>>, done |-> 0]

RelayInit ==
    /\ saved = [cursor |-> 0, ids |-> {}]
    /\ pass = NoPass
    /\ sent = [key \in {} |-> 0]

(***************************************************************************)
(* fetch_events                                                            *)
(***************************************************************************)
\* mutant: the cursor's own time is over
AfterCursor(row) == row.at > saved.cursor
\* occurred_at=gte.
SinceCursor(row) == row.at >= saved.cursor

\* order=occurred_at.asc,id.asc and limit=: the rows are in this order.
First == Min({i \in 1..Len(events) : SinceCursor(events[i])} \cup {Len(events) + 1})
Fetched == SubSeq(events, First, Min({First + Limit - 1, Len(events)}))

\* The first request: the events.
RelayFetches ==
    /\ pass.step = "idle" /\ saved # Torn
    /\ pass' = [step |-> "fetched", batch |-> Fetched, done |-> 0]
    /\ UNCHANGED <<saved, sent>>

\* The journal's error as it is by now, if there is room for it.
Errors ==
    LET row == [key |-> Health, at |-> health]
    IN  IF health # NoError /\ SinceCursor(row) /\ Len(pass.batch) < Limit THEN {row} ELSE {}

\* The second request, unless the events fill the pass: the errors; then all is
\* sorted.  Without an event the file is rewritten as it is.
RelayFetchesErrors ==
    /\ pass.step = "fetched"
    /\ \E batch \in Merged(pass.batch, Errors) :
         pass' = IF batch = <<>> THEN NoPass
                 ELSE [step |-> "sending", batch |-> batch, done |-> 0]
    /\ UNCHANGED <<saved, sent>>

(***************************************************************************)
(* The loop of relay_once.                                                 *)
(***************************************************************************)
Handled == SubSeq(pass.batch, 1, pass.done)
DeliveredIds == saved.ids \cup Keys(ToSet(Handled))

\* Events sent before are skipped; the pass goes on to the first that was not.
Unsent == {i \in (pass.done + 1)..Len(pass.batch) : pass.batch[i].key \notin DeliveredIds}
Sending == pass.step = "sending" /\ Unsent # {}
NextKey == pass.batch[Min(Unsent)].key

Count(key) == sent' = [k \in DOMAIN sent \cup {key} |->
                         (IF k \in DOMAIN sent THEN sent[k] ELSE 0) + (IF k = key THEN 1 ELSE 0)]

Send ==
    /\ Sending
    /\ pass' = [pass EXCEPT !.done = Min(Unsent)]
    /\ Count(NextKey)
    /\ UNCHANGED saved

\* mutant: a failure does not end the loop
GoesOn == pass' = [pass EXCEPT !.done = Min(Unsent)]
Breaks == pass' = [pass EXCEPT !.step = "stopped", !.done = Min(Unsent) - 1]

\* notify reports a failure, or lost the answer of a message that arrived.
SendFails ==
    /\ Sending
    /\ Fault
    /\ Breaks
    /\ Count(NextKey) \/ UNCHANGED sent
    /\ UNCHANGED saved

\* The pass is over; what is left was sent before, unless the pass stopped.
Over == pass.step = "stopped" \/ (pass.step = "sending" /\ Unsent = {})
Passed == IF pass.step = "stopped" THEN Handled ELSE pass.batch
Cursor == Max({saved.cursor} \cup {Passed[i].at : i \in 1..Len(Passed)})

\* mutant: only what this pass sent is kept
JustSent == {row.key : row \in {row \in ToSet(Passed) : row.at = Cursor}} \ saved.ids

\* The ids at the cursor's time, the old ones too if it has not moved.
CursorIds ==
    {row.key : row \in {row \in ToSet(pass.batch) : row.key \in DeliveredIds /\ row.at = Cursor}}
      \cup (IF Cursor = saved.cursor THEN saved.ids ELSE {})

SaveState ==
    /\ Over
    /\ saved' = [cursor |-> Cursor, ids |-> CursorIds]
    /\ pass' = NoPass
    /\ UNCHANGED sent

\* The relay dies or a request raises; perhaps inside a write of its file: at the
\* end of a pass, or of what it does between passes (process_telegram_commands,
\* watcher_once).
RelayDies ==
    /\ Fault
    /\ saved' \in {saved} \cup (IF pass.step = "idle" \/ Over THEN {Torn} ELSE {})
    /\ pass' = NoPass
    /\ UNCHANGED sent
=============================================================================
