-------------------------- MODULE SubmissionJournal --------------------------
(***************************************************************************)
(* order_submission_journal.py: the SQLite file in which a market-order    *)
(* intent is committed before it is submitted.  Two tables: the orders     *)
(* (order_submissions) and the reasons of the decisions that led to them   *)
(* (order_decision_contexts).  Every operation below is one transaction    *)
(* under synchronous=FULL, so a crash falls between operations only.       *)
(*                                                                         *)
(* The operators constrain the journal's own variables; LiveExecutor       *)
(* composes them with the exchange, the outbox and the cycle's control.    *)
(***************************************************************************)
EXTENDS Exchange, FiniteSetsExt

CONSTANTS
    Reasons,    \* distinguishable decision reasons
    MaxQty,     \* bound on the quantity of one order
    NoContext   \* a link without a committed decision context

VARIABLES
    status,     \* status column of the link's row, "absent" when it has none
    rowQty,     \* qty of the committed intent
    response,   \* what the response column establishes
    stamp,      \* observed_at: the position of the row in insertion order
    ctx,        \* order_decision_contexts: the committed qty and reasons
    enqueued    \* its enqueued flag

journalVars == <<status, rowQty, response, stamp, ctx, enqueued>>

Pending == {"prepared", "unknown"}
Settleable == {"acknowledged", "observed"}
Reserving == Pending \cup Settleable
Statuses == Reserving \cup {"absent", "blocked", "released_unfilled", "released_closed"}
Responses == {"none", "ack", "malformed", "observations", "proof"}

JournalTypeOK ==
    /\ status \in [Links -> Statuses]
    /\ rowQty \in [Links -> 0..MaxQty]
    /\ response \in [Links -> Responses]
    /\ stamp \in [Links -> Nat]
    /\ ctx \in [Links -> {NoContext} \cup [qty : 1..MaxQty, reason : Reasons]]

JournalInit ==
    /\ status = [l \in Links |-> "absent"]
    /\ rowQty = [l \in Links |-> 0]
    /\ response = [l \in Links |-> "none"]
    /\ stamp = [l \in Links |-> 0]
    /\ ctx = [l \in Links |-> NoContext]
    /\ enqueued = [l \in Links |-> FALSE]

-----------------------------------------------------------------------------
Unresolved == {l \in Links : status[l] \in Pending}

(* buy_reservations(exclude_link): the Buys that still reserve quote and a slot. *)
Reservations(exclude) == {l \in Buys \ {exclude} : status[l] \in Reserving}

NothingReserved(exclude) == {}              \* mutant: only the exchange's list is counted

ReservedSymbols(exclude) == {SymbolOf[l] : l \in Reservations(exclude)}

AnyQuantity(l, qty) == FALSE                \* mutant: a context for another quantity is kept

(* capture_decision_context: the first context wins. *)
ContextConflict(l, qty) == ctx[l] # NoContext /\ ctx[l].qty # qty

LastContextWins(l, qty, reason) ==          \* mutant: the upsert overwrites
    /\ ~ContextConflict(l, qty)
    /\ ctx' = [ctx EXCEPT ![l] = [qty |-> qty, reason |-> reason]]
    /\ UNCHANGED <<status, rowQty, response, stamp, enqueued>>

CaptureContext(l, qty, reason) ==
    /\ ~ContextConflict(l, qty)
    /\ ctx' = [ctx EXCEPT ![l] = IF @ = NoContext THEN [qty |-> qty, reason |-> reason] ELSE @]
    /\ UNCHANGED <<status, rowQty, response, stamp, enqueued>>

(* prepare: a cached acknowledgment, an error, or a new 'prepared' row. *)
Cached(l, qty) == status[l] = "acknowledged" /\ rowQty[l] = qty

BlocksOwnSymbol(l) == \E m \in Unresolved : SymbolOf[m] = SymbolOf[l]   \* mutant

Blocks(l) ==
    \/ \E m \in Unresolved : SymbolOf[m] = SymbolOf[l]
    \/ l \in Buys /\ Unresolved # {}
PrepareRaises(l, qty) ==
    \/ status[l] # "absent" /\ ~Cached(l, qty)
    \/ status[l] = "absent" /\ Blocks(l)
NextStamp == 1 + Cardinality({m \in Links : status[m] # "absent"})

RetryUnknown(l, qty) ==                     \* mutant: an unknown outcome is tried again
    /\ status[l] \in {"absent", "unknown"}
    /\ \A m \in Unresolved \ {l} : SymbolOf[m] # SymbolOf[l]
    /\ status' = [status EXCEPT ![l] = "prepared"]
    /\ rowQty' = [rowQty EXCEPT ![l] = qty]
    /\ UNCHANGED <<response, stamp, ctx, enqueued>>

InsertIntent(l, qty) ==
    /\ status[l] = "absent"
    /\ ~Blocks(l)
    /\ status' = [status EXCEPT ![l] = "prepared"]
    /\ rowQty' = [rowQty EXCEPT ![l] = qty]
    /\ stamp' = [stamp EXCEPT ![l] = NextStamp]
    /\ UNCHANGED <<response, ctx, enqueued>>

(* finish: an unconditional UPDATE of status and response. *)
Finish(l, st, resp) ==
    /\ status' = [status EXCEPT ![l] = st]
    /\ response' = [response EXCEPT ![l] = resp]
    /\ UNCHANGED <<rowQty, stamp, ctx, enqueued>>

EveryRow == {l \in Links : status[l] # "absent"}             \* mutant: final rows too
OnlyUnknown == {l \in Links : status[l] \in Reserving \ {"prepared"}}   \* mutant

(* reconcile, one row: matches are the orderStatus values of the rows that  *)
(* carry the exact link in the open orders and in the bounded history.      *)
Reconcilable ==
    {l \in Links : status[l] \in Reserving /\ (l \in Sells => status[l] \in Pending)}

AnyCancelled(matches) ==                    \* mutant: a partial fill counts as none
    matches \subseteq ZeroFillStatus \cup {"PartiallyFilledCanceled"}

ZeroFill(matches) == matches \subseteq ZeroFillStatus
ApplyObservation(l, matches) ==
    IF matches = {}
    THEN UNCHANGED journalVars
    ELSE Finish(l, IF l \in Buys /\ ZeroFill(matches) THEN "released_unfilled" ELSE "observed",
                "observations")

OnlyObserved ==                             \* mutant: an acknowledged row is not recovered
    {l \in Links : ctx[l] # NoContext /\ ~enqueued[l] /\ status[l] = "observed"}

(* recover_decisions, its SELECT and its UPDATE. *)
Recoverable ==
    {l \in Links : ctx[l] # NoContext /\ ~enqueued[l] /\ status[l] \in Settleable}
MarkEnqueued(l) ==
    /\ enqueued' = [enqueued EXCEPT ![l] = TRUE]
    /\ UNCHANGED <<status, rowQty, response, stamp, ctx>>

ReleaseAcknowledged(cohort) ==              \* mutant: observed rows are left out
    /\ cohort # {}
    /\ \A l \in cohort : l \in Buys /\ status[l] = "acknowledged"
    /\ status' = [l \in Links |-> IF l \in cohort THEN "released_closed" ELSE status[l]]
    /\ UNCHANGED <<rowQty, response, stamp, ctx, enqueued>>

(* release_closed_cohort: every Buy of the cohort, in one transaction. *)
ReleaseCohort(cohort) ==
    /\ cohort # {}
    /\ \A l \in cohort : l \in Buys /\ status[l] \in Settleable
    /\ status' = [l \in Links |-> IF l \in cohort THEN "released_closed" ELSE status[l]]
    /\ response' = [l \in Links |-> IF l \in cohort THEN "proof" ELSE response[l]]
    /\ UNCHANGED <<rowQty, stamp, ctx, enqueued>>

=============================================================================
