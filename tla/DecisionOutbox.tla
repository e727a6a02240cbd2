--------------------------- MODULE DecisionOutbox ---------------------------
(***************************************************************************)
(* decision_outbox.py: decision records are committed to a local SQLite    *)
(* queue and then upserted to the remote table trade_decisions under their *)
(* idempotency key.  A row is marked delivered after the upsert returned,  *)
(* so a crash or a lost answer between the two repeats the upsert; the     *)
(* first record of a key wins at the remote table (ignore-duplicates).     *)
(***************************************************************************)
EXTENDS Sequences, FiniteSets, Naturals

CONSTANTS
    Keys,       \* idempotency keys
    RecordReasons,
    NoRecord    \* a key the remote table does not hold

VARIABLES
    rows,       \* the receipts ever enqueued: the primary key ignores a repeat
    backlog,    \* the undelivered receipts, in rowid order
    remote      \* the reasons the remote table holds for each key

outboxVars == <<rows, backlog, remote>>

(* How the record came to be: the two payloads of one order differ, so they *)
(* are two receipts with one idempotency key.                               *)
Origins == {"direct", "recovered", "note"}
Receipts == [key : Keys, origin : Origins, reason : RecordReasons]

OutboxTypeOK ==
    /\ rows \subseteq Receipts
    /\ backlog \in Seq(Receipts)
    /\ remote \in [Keys -> RecordReasons \cup {NoRecord}]

OutboxInit ==
    /\ rows = {}
    /\ backlog = <<>>
    /\ remote = [k \in Keys |-> NoRecord]

(* INSERT OR IGNORE under the hash of the payload. *)
Enqueue(r) ==
    /\ rows' = rows \cup {r}
    /\ backlog' = IF r \in rows THEN backlog ELSE Append(backlog, r)
    /\ UNCHANGED remote

(* One upsert of the oldest undelivered receipt takes effect remotely. *)
Upsert ==
    LET r == Head(backlog) IN
    /\ backlog # <<>>
    /\ remote' = [remote EXCEPT ![r.key] = IF @ = NoRecord THEN r.reason ELSE @]
    /\ UNCHANGED <<rows, backlog>>

(* UPDATE ... SET delivered=1, after the upsert returned. *)
MarkDelivered ==
    /\ backlog # <<>>
    /\ backlog' = Tail(backlog)
    /\ UNCHANGED <<rows, remote>>

QueuedOrDelivered(k) == \E r \in rows : r.key = k

=============================================================================
