-------------------------- MODULE LiveTradeJournal --------------------------
(* live_trade_journal.py: the reconciliation of the executed fills of one   *)
(* symbol into FIFO trades, and into notices of what was executed.  A sync  *)
(* holds the write lock of its SQLite file from its first read to the       *)
(* commit, so syncs follow one another; a failure rolls the file back and   *)
(* leaves what was already written to Supabase.  A conversion of a small    *)
(* balance (conversion_journal.py) is a sale of its own; the accounting     *)
(* before version 2 did not know it.  Amounts are net of fees in the coin.  *)
EXTENDS SystemEvents

CONSTANTS
    Fills,     \* executions, numbered in the order of (execTime, execId)
    FillOf,    \* what an execution says
    Before,    \* those executed when the model begins
    LockWait   \* how long a sync may wait for the lock after reading the clock

ASSUME JournalAssumption ==
    /\ Fills \subseteq Nat \ {0} /\ IsFiniteSet(Fills)
    /\ FillOf \in [Fills -> [order : STRING, side : {"Buy", "Sell"}, amount : Nat \ {0},
                             owned : BOOLEAN, conversion : BOOLEAN]]
    /\ Before \subseteq Fills /\ \A f \in Before, g \in Fills \ Before : f < g
    /\ LockWait \in Nat

VARIABLES
    executed,  \* fills executed so far
    trades,    \* the trades table: the amount of each row, 0 once cancelled
    local,     \* the SQLite file as last committed
    sync,      \* the reconciliation that holds the lock
    seed,      \* fills known before notices were enabled
    broken     \* failed reconciliations whose notices were already published

journalVars == <<executed, trades, local, sync, seed, broken>>

NoSync == [step |-> "idle", fills |-> {}, rows |-> [key \in {} |-> 0], notices |-> {}]

Owned(f) == FillOf[f].owned
Bought(f) == FillOf[f].side = "Buy"
Conversions(S) == {f \in S : FillOf[f].conversion}

(***************************************************************************)
(* reconstruct_trades: a sale consumes the lots in the order of purchase.  *)
(***************************************************************************)
Remaining == 0   \* the suffix of a lot's own row; that of a segment is its sale

\* A table with the rows of another written over it (f @@ g).
Overlaid(f, g) == [key \in DOMAIN f \cup DOMAIN g |-> IF key \in DOMAIN f THEN f[key] ELSE g[key]]

\* What a sale takes of each lot: those before it are used up first.
Take(left, amount, lot) ==
    LET before == SumFunctionOnSet(left, {l \in DOMAIN left : l < lot})
    IN  Min({left[lot], Max({0, amount - before})})

\* One fill: a lot more, or segments and what they leave.
Consume(acc, f) ==
    IF Bought(f)
      THEN [left |-> Overlaid([lot \in {f} |-> FillOf[lot].amount], acc.left), rows |-> acc.rows]
    ELSE LET taken == [lot \in DOMAIN acc.left |-> Take(acc.left, FillOf[f].amount, lot)]
             sold == {lot \in DOMAIN taken : taken[lot] > 0 /\ (Owned(lot) \/ Owned(f))}
         IN  [left |-> [lot \in DOMAIN taken |-> acc.left[lot] - taken[lot]],
              rows |-> Overlaid([key \in sold \X {f} |-> taken[key[1]]], acc.rows)]

NothingConsumed == [left |-> [lot \in {} |-> 0], rows |-> [key \in {} |-> 0]]

\* A set of fills, the last one last.
Consumed[S \in SUBSET Fills] ==
    IF S = {} THEN NothingConsumed ELSE Consume(Consumed[S \ {Max(S)}], Max(S))

\* The rows of a set of fills: closed segments and the rest of each owned lot.
RowsOf(S) ==
    LET lots == {lot \in DOMAIN Consumed[S].left : Owned(lot)}
    IN  Overlaid([key \in lots \X {Remaining} |-> Consumed[S].left[key[1]]], Consumed[S].rows)

\* Those of every set (the equality makes TLC tabulate them once).
Reconstructed == CHOOSE table \in {[S \in SUBSET Fills |-> RowsOf(S)]} : table = table

\* No database, or one of the accounting before version 2, which missed a conversion.
LegacyTrades(S) == Reconstructed[S \ Conversions(S)]

JournalInit ==
    /\ sync = NoSync
    /\ broken = 0
    /\ executed = Before
    /\ \/ /\ trades = [key \in {} |-> 0]
          /\ local = [fills |-> {}, notified |-> {}, seeded |-> FALSE, published |-> {}]
          /\ seed = {}
       \/ \E S \in {{f \in Before : f <= n} : n \in Before} :
            /\ Conversions(S) # {}
            /\ trades = LegacyTrades(S)
            /\ local = [fills |-> S \ Conversions(S), notified |-> S \ Conversions(S),
                        seeded |-> TRUE, published |-> {}]
            /\ seed = S \ Conversions(S)

FillExecuted ==
    /\ executed # Fills
    /\ executed' = executed \cup {Min(Fills \ executed)}
    /\ UNCHANGED <<trades, local, sync, seed, broken>>

(***************************************************************************)
(* sync_live_journal, in the steps in which others can see its effects.    *)
(***************************************************************************)
Read == local.fills \cup executed

\* verify_inventory: nothing was executed between the fills that were read and
\* the wallet, and at least one of their coins is CryptoForge's.
Audited == \E f \in Read : Owned(f)

\* mutant: rows of the old accounting stay
NothingBefore == local.published

\* What was published before: the file says, or the table about owned lots.
Previous ==
    IF local.published # {} \/ Conversions(Read) = {} THEN local.published
    ELSE {key \in DOMAIN trades : key[1] \in Read /\ Owned(key[1])}

\* trade_notice_events: what is not notified yet, one event per order; nothing
\* of the history before the first sync.
Told(group, rows) ==
    \/ \E f \in group : Owned(f)
    \/ \E key \in DOMAIN rows : key[2] \in group

Notices(rows, at) ==
    LET pending == IF local.seeded THEN Read \ local.notified ELSE {}
        group(f) == {g \in pending : FillOf[g].order = FillOf[f].order
                                       /\ FillOf[g].side = FillOf[f].side}
    IN  {[key |-> <<FillOf[f].order, group(f)>>, at |-> at] :
           f \in {f \in pending : Told(group(f), rows)}}

\* All reads, then one request with the new rows and those given up.  The clock
\* was read before the lock was held.
PublishTrades ==
    /\ sync.step = "idle" /\ Audited
    /\ LET rows == Reconstructed[Read]
       IN  /\ trades' = Overlaid(rows, Overlaid([key \in Previous |-> 0], trades))
           /\ \E at \in Max({0, clock - LockWait})..clock :
                sync' = [step |-> "traded", fills |-> Read, rows |-> rows,
                         notices |-> Notices(rows, at)]
    /\ UNCHANGED <<executed, local, seed, broken>>

PublishEvents ==
    /\ sync.step = "traded"
    /\ UpsertEvents(sync.notices)
    /\ sync' = [sync EXCEPT !.step = "noticed", !.notices = {}]
    /\ UNCHANGED <<executed, trades, local, seed, broken>>

Settled == [fills |-> sync.fills, notified |-> sync.fills, seeded |-> TRUE,
            published |-> DOMAIN sync.rows]

\* The health row, then the commit; nothing reads the file in between.
Commit ==
    /\ sync.step = "noticed"
    /\ health' = NoError
    /\ local' = Settled
    /\ seed' = IF local.seeded THEN seed ELSE sync.fills
    /\ sync' = NoSync
    /\ UNCHANGED <<executed, trades, broken>>

\* Before the first upsert only the report of the failure leaves a trace.
SyncRefused ==
    /\ sync.step = "idle"
    /\ Fault
    /\ health' = clock
    /\ UNCHANGED journalVars

\* mutant: what was read counts as notified although the sync failed
MarkedAnyway == [local EXCEPT !.notified = sync.fills]

\* The file after a sync that raised: as it was.
RolledBack == local

\* Anything raises, the health upsert included, or the process dies; the
\* executor tries to report it.
SyncFails ==
    /\ sync.step # "idle"
    /\ Fault
    /\ local' = RolledBack
    /\ sync' = NoSync
    /\ broken' = IF sync.step = "noticed" THEN broken + 1 ELSE broken
    /\ health' \in {health, clock} \cup (IF sync.step = "noticed" THEN {NoError} ELSE {})
    /\ UNCHANGED <<executed, trades, seed>>

-----------------------------------------------------------------------------
(* What a reconciliation promises *)

Live(rows) == {key \in DOMAIN rows : rows[key] > 0}
OfOwnedLot(keys) == {key \in keys : Owned(key[1])}

\* Once a reconciliation has published them, the trades table shows exactly the
\* FIFO trades of the fills it read, and no segment of an allocation given up
\* since: not one that a failed sync had written, nor one of the accounting that
\* did not know the conversions (live_trade_journal.py:306-324).  Segments of
\* lots that are not CryptoForge's are read back from nowhere and are left out.
TradesExact ==
    sync.step # "idle" =>
      /\ \A key \in DOMAIN sync.rows : trades[key] = sync.rows[key]
      /\ OfOwnedLot(Live(trades)) \subseteq Live(sync.rows)
=============================================================================
