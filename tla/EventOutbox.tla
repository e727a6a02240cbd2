---------------------------- MODULE EventOutbox ----------------------------
(* The general outbox (outbox.py): events of other components, kept in a    *)
(* SQLite table until its flusher has delivered them to system_events or    *)
(* given up.  An event carries the time it speaks of, which may be long     *)
(* past (trade_journal.py:104).  One flusher is modelled.                    *)
EXTENDS SystemEvents

CONSTANTS
    Records,       \* the events that are enqueued: key and occurred_at
    MaxAttempts, BaseBackoff, MaxBackoff

ASSUME OutboxAssumption ==
    /\ IsFiniteSet(Records) /\ \A record \in Records : record.at \in Nat
    /\ {MaxAttempts, BaseBackoff, MaxBackoff} \subseteq Nat \ {0}

VARIABLE outbox   \* the rows, in the order they were created

OutboxInit == outbox = <<>>

\* A key is unique: enqueueing it again raises.  A new row is due at once.
Enqueue ==
    \E record \in Records :
      /\ record.at <= clock /\ record.key \notin Keys(ToSet(outbox))
      /\ outbox' = Append(outbox, [key |-> record.key, at |-> record.at, status |-> "pending",
                                   attempts |-> 0, due |-> 0])

\* due_events, oldest first.  A failed row is not due again before its backoff,
\* so taking them one by one is flushing the list that was read at the start.
Due == {i \in 1..Len(outbox) : outbox[i].status = "pending" /\ outbox[i].due <= clock}
Row == outbox[Min(Due)]
Becomes(row) == outbox' = [outbox EXCEPT ![Min(Due)] = row]

MarkDelivered == Becomes([Row EXCEPT !.status = "delivered"])

Backoff(attempts) == Min({MaxBackoff, BaseBackoff * 2 ^ (attempts - 1)})

\* One attempt more; the event is dead after the last.
MarkFailed ==
    LET attempts == Row.attempts + 1
    IN  Becomes([Row EXCEPT !.status = IF attempts >= MaxAttempts THEN "dead" ELSE "pending",
                            !.attempts = attempts, !.due = clock + Backoff(attempts)])

Upsert == UpsertEvents({[key |-> Row.key, at |-> Row.at]})

FlushDelivers ==
    /\ Due # {}
    /\ Upsert
    /\ MarkDelivered

\* The request or only its answer is lost: the row is marked failed, or not at
\* all if the process died before it could mark anything.
FlushFails ==
    /\ Due # {}
    /\ Fault
    /\ Upsert \/ UNCHANGED events
    /\ MarkFailed \/ UNCHANGED outbox
=============================================================================
