---------------------------- MODULE SystemEvents ----------------------------
(* The Supabase tables between the writers of notices and the relay:        *)
(* system_events, unique by idempotency_key, and the bot_health row of the  *)
(* live journal.  An upsert is one request: all of its rows or none.        *)
EXTENDS Integers, Sequences, SequencesExt, FiniteSetsExt

CONSTANTS
    MaxTime,    \* bound of the clock
    MaxFaults   \* bound: failed syncs, deliveries and notifications, and crashes

ASSUME EventsAssumption == MaxTime \in Nat /\ MaxFaults \in Nat

VARIABLES
    clock,
    events,    \* the rows, in the order of (occurred_at, id); a key is a name and
               \* the fills it speaks of
    health,    \* when the live journal reported an error; NoError if it is well
    faults

NoError == -1
Health == <<"health", {}>>

EventsInit ==
    /\ clock = 0
    /\ events = <<>>
    /\ health = NoError
    /\ faults = 0

Rows == ToSet(events)
Keys(rows) == {row.key : row \in rows}

\* Ids are random: among the rows of its time a new one is anywhere.
Insertions(row, seq) ==
    {InsertAt(seq, i, row) : i \in
       {i \in 1..Len(seq) + 1 : /\ \A j \in 1..(i - 1) : seq[j].at <= row.at
                               /\ \A j \in i..Len(seq) : row.at <= seq[j].at}}

Merged(seq, new) ==
    FoldSet(LAMBDA row, seqs : UNION {Insertions(row, s) : s \in seqs}, {seq}, new)

\* A key that exists already keeps its row.
UpsertEvents(rows) ==
    LET new == {row \in rows : row.key \notin Keys(Rows)}
    IN  events' \in Merged(events, new)

ClockTicks ==
    /\ clock < MaxTime
    /\ clock' = clock + 1

Fault ==
    /\ faults < MaxFaults
    /\ faults' = faults + 1
=============================================================================
