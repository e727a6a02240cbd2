------------------------- MODULE ReferenceDelivery -------------------------
(* The public source ledger (reference_source_ledger.py) and the delivery   *)
(* queue that retains its events and offers them to the paper roles         *)
(* (reference_delivery.py).  Events are hash-chained and immutable, so a    *)
(* head is the number of events before it.  A payload is its kind; time     *)
(* counts the five-second slots of the registered window, 0 .. EndTime.     *)
(* A commit is atomic; one that leaves a hot SQLite journal behind stops    *)
(* its database for good, which a model that may stop anywhere includes.    *)
EXTENDS Integers, Sequences, SequencesExt, FiniteSetsExt

CONSTANTS
    Roles,           \* ROLES: candidate, control, stress
    Pairs,           \* pairs of one poll
    BatchEvents,     \* maximum_source_events_per_batch
    SlotsPerAnchor,  \* slots between two poll anchors
    Cooldown,        \* slots without a poll after a rate limit
    EndTime          \* the end of the window

ASSUME DeliveryAssumption ==
    /\ {Pairs, SlotsPerAnchor, Cooldown, EndTime} \subseteq Nat \ {0}
    /\ BatchEvents \in Nat /\ BatchEvents >= Pairs + 2

VARIABLES
    now,         \* the slot the clock is in; EndTime + 1 once the window is over
    source,      \* kinds of the ledger's events
    poll,        \* the last poll: its anchor, its cooldown, a rate limit met
    retained,    \* events of the source that the queue has retained
    batches,     \* what each batch covers and the source head it attests
    cursor,      \* per role: deliveries acknowledged
    pending,     \* per role: the delivery offered, or 0
    acks         \* per role: the worker receipts acknowledged

sourceVars == <<source, poll>>
queueVars == <<retained, batches, cursor, pending, acks>>

Batch == [from : Nat, to : Nat, attested : Nat]

DeliveryInit ==
    /\ now = 0
    /\ source = <<>>
    /\ poll = [anchor |-> -1, until |-> 0, limited |-> FALSE]
    /\ retained = 0
    /\ batches = <<>>
    /\ cursor = [r \in Roles |-> 0]
    /\ pending = [r \in Roles |-> 0]
    /\ acks = [r \in Roles |-> <<>>]

\* The delivery window includes its end, the application's does not.
Active == now <= EndTime
InWindow == now < EndTime

ClockTicks ==
    /\ now <= EndTime
    /\ now' = now + 1

(***************************************************************************)
(* The source ledger: one poll of every pair per anchor.                   *)
(***************************************************************************)
Anchor == now \div SlotsPerAnchor
SourcePending == source # <<>> /\ Last(source) # "poll_complete"
Responses ==
    Len(source) - Max({0} \cup {i \in 1..Len(source) : source[i] = "poll_prepared"})

\* A poll of the same anchor, or within a cooldown, reuses the observation.
PollReused == poll.anchor = Anchor \/ poll.until > now

PollPrepared ==
    /\ Active /\ ~SourcePending /\ ~PollReused
    /\ source' = Append(source, "poll_prepared")
    /\ poll' = [anchor |-> Anchor, until |-> now, limited |-> FALSE]

\* After a rate limit the remaining pairs are recorded as skipped.
SourceResponse(limited) ==
    /\ Active /\ SourcePending /\ Responses < Pairs
    /\ limited => ~poll.limited
    /\ source' = Append(source, "source_response")
    /\ poll' = IF limited
                 THEN [poll EXCEPT !.until = now + Cooldown, !.limited = TRUE] ELSE poll

PollComplete ==
    /\ Active /\ SourcePending /\ Responses = Pairs
    /\ source' = Append(source, "poll_complete")
    /\ UNCHANGED poll

(***************************************************************************)
(* The delivery queue.                                                     *)
(***************************************************************************)
\* mutant: a batch is cut by its budget alone
AnyEvents == {n \in 1..BatchEvents : retained + n <= Len(source)}

\* A batch is cut back to the last event after which no poll is open.
WholePolls ==
    {n \in 1..BatchEvents : retained + n <= Len(source) /\ source[retained + n] = "poll_complete"}

Ingest ==
    /\ Active /\ ~SourcePending
    /\ retained < Len(source)
    /\ WholePolls # {}
    /\ retained' = retained + Max(WholePolls)
    /\ batches' = Append(batches,
         [from |-> retained + 1, to |-> retained', attested |-> Len(source)])
    /\ UNCHANGED <<cursor, pending, acks>>

\* A batch is offered once the queue retains all its attestation speaks of.
Resolved(b) == batches[b].attested <= retained

\* next: what a role is offered: its pending delivery again, or the one after
\* its cursor; 0 when the queue is empty for it or the attestation incomplete.
NextDelivery(r) ==
    LET b == IF pending[r] # 0 THEN pending[r] ELSE cursor[r] + 1
    IN  IF b <= Len(batches) /\ Resolved(b) THEN b ELSE 0

Offer(r) ==
    /\ Active
    /\ pending' = [pending EXCEPT ![r] = IF NextDelivery(r) # 0 THEN NextDelivery(r) ELSE @]
    /\ UNCHANGED <<retained, batches, cursor, acks>>

\* An acknowledgement repeats a stored one or concerns the pending delivery.
Repeated(r, b, receipt) == b \in 1..cursor[r] /\ acks[r][b] = receipt
Acknowledgeable(r, b, receipt) ==
    Repeated(r, b, receipt) \/ (b > cursor[r] /\ pending[r] = b /\ b = cursor[r] + 1)

Acknowledge(r, b, receipt) ==
    /\ Acknowledgeable(r, b, receipt)
    /\ IF Repeated(r, b, receipt) THEN UNCHANGED <<cursor, pending, acks>>
       ELSE /\ cursor' = [cursor EXCEPT ![r] = b]
            /\ pending' = [pending EXCEPT ![r] = 0]
            /\ acks' = [acks EXCEPT ![r] = Append(@, receipt)]
    /\ UNCHANGED <<retained, batches>>

-----------------------------------------------------------------------------
(* What the queue promises *)

\* A batch holds whole polls, all their responses included, and the batches
\* follow one another without a gap: the ledger may grow, pause or stop inside
\* a poll, and ingest may fall behind and cut by its budget
\* (reference_delivery.py:333-344).
BatchesWhole ==
    \A b \in 1..Len(batches) :
      /\ batches[b].from = (IF b = 1 THEN 1 ELSE batches[b - 1].to + 1)
      /\ source[batches[b].from] = "poll_prepared"
      /\ source[batches[b].to] = "poll_complete"
      /\ (batches[b].to - batches[b].from + 1) % (Pairs + 2) = 0
=============================================================================
