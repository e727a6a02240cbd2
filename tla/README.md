# CryptoForge: formal models of its state-keeping processes

CryptoForge trades Bybit Spot through a *oneshot executor*: a timer starts a
process, the process evaluates the pairs once, submits at most a few market
orders, writes down what it did and ends. Beside it run a reconciliation that
turns executions into trades and notices, a relay that sends the notices, and a
paper pipeline in which a coordinator polls public prices and applies them to
simulated accounts. Everything that must survive a process lives in files beside it
(SQLite databases, small JSON records, lock files) and in two remote systems (the
exchange and Supabase tables). A process may die between any two of its durable or
remote operations, calls may time out after they took effect, several processes
and operator tools share the files, and each of these has to leave the accounts safe.

This directory models these paths in TLA+: the cycle of the executor with its
submission journal and decision outbox; the leases that make it the only writer
and the tool that brings an older journal under them; the two files of account risk
state; the way of an execution to a message; and the delivery of source
events to the paper workers with its recoveries. TLC checks the modules on small
instances; TLAPS proves the central invariants for every value of the constants.
Paths below are relative to the repository root; `CF` stands for
`src/cryptoforge`.

## 1. Inventory

### The parts, their state and their operations

| Component | Source | State it keeps | Operations |
|---|---|---|---|
| Live executor cycle | `scripts/run_supabase_live_executor.py`, `CF/supabase_executor.py`, `CF/exit_data_fallback.py` | none of its own: position in the cycle, entry blockers | flush, reconcile, recover, flush, settle, flush, evaluate each pair, submit, record |
| Submission journal | `CF/order_submission_journal.py` | `order_submissions` (one row per order link, with status and quantity) and `order_decision_contexts` (the committed reasons, and whether they were enqueued) | prepare, finish, reconcile, recover_decisions, capture_decision_context, buy_reservations, release_closed_cohort |
| Decision outbox | `CF/decision_outbox.py` | queued records, each with a delivered mark | enqueue, deliver, flush |
| Bybit account and private client | `CF/bybit_private.py` | orders, inventory (external) | create order with a single retry after 10002; wallet, open orders, history |
| Submission guards | `CF/submission_risk.py`, `execution_controls.py`, `account_verification.py`, `runtime_approval.py`, `spot_reservations.py` | the operator's control file | a chain of wrappers around the client, each may refuse |
| Reservation settlement | `CF/reservation_settlement.py` | none | proves a cycle closed from executions, asks the journal to release the cohort |
| Execution ownership | `CF/execution_ownership.py`, `CF/account_ownership.py` | lock files per key and per account UID; owner records beside the journal and in the lock directory | execution_lease, account_execution_lease, assert_held, the leased order client |
| Account migration | `CF/account_migration.py` | plan, backup, intent | prepare, apply (resumable) |
| Daily loss baseline | `CF/live_risk.py`, `CF/daily_risk_recovery.py` | one JSON file with the UTC day and its first equity | evaluate and roll over, back up, restore |
| Portfolio drawdown latch | `CF/portfolio_drawdown.py` | one JSON file: peak, last equity, time, latch | evaluate and update |
| General outbox | `CF/outbox.py` | events with attempts, due time and status | enqueue, flush, mark delivered or failed, dead letters |
| Order observation, live trade journal, monitoring | `CF/live_trade_journal.py`, `conversion_journal.py`, `inventory_audit.py`, `order_observer.py`, ... | a SQLite file with executions, what was notified and published; the `trades` and `system_events` tables | reconcile: read, publish trades, publish notices, commit |
| Telegram relay, notifications | `CF/telegram_relay.py`, `notifications.py` | a JSON file: cursor and the ids sent at it | fetch, send, save |
| Reference sources and delivery | `CF/reference_source_ledger.py`, `reference_delivery.py`, `reference_prefix_v2.py`, `cached_reference_reader_v2.py` | hash-chained ledger; queue of batches with a cursor, a pending delivery and receipts per role; an index | poll, ingest, offer, acknowledge, index, read |
| Paper wallet, cash application, acknowledgment recovery | `CF/cash_worker_application.py`, `cash_application_v2.py`, `cached_cash_application_v3.py`, `cash_ack_recovery.py`, `cash_recovery.py`, `paper_wallet*.py` | a folder of groups of write-once files, an archive, the worker's log | apply, heartbeat, finalize, recover |
| Paper capture, workers, archives | `CF/paper_worker_capture*.py`, `native_paper_archive*.py`, `evidence_segments.py` | hashed evidence files | tick, replay, verify |
| Paired coordinator | `CF/paired_cached_coordinator.py`, `paired_cash_rehearsal.py` | a journal of prepared and completed operations | step, restart, recover, finalize, replay, proof |
| Model lifecycle and registry | `CF/lifecycle.py`, `champion.py`, `model_registry.py`, ... | candidate states | promotion, demotion, retirement |
| Research, training, LLM pipeline | `CF/research_*.py`, `model_training.py`, `semantic_request_journal.py` | budgets and request journals | offline runs |
| Backup and recovery tools | `CF/backup.py`, `recovery.py` | copies of files at rest | run by hand |
| Market data and strategies | `CF/scanner.py`, ... | none | signals |

`PROJECT.json` lists each with its status. The last four rows are not modelled
(section 7).

### How they interact

    timer -> run_cycle --(file locks, owner records)--> account_execution_lease
                 |
                 +-- journal.reconcile <------ open orders, history (exchange)
                 +-- journal.recover_decisions --> outbox.flush --> remote table
                 +-- settle_journal <--------- executions, wallet (exchange)
                 +-- for each pair: run_once
                       |  capture_decision_context (journal)
                       +-- Journaled > SubmissionRisk > Controlled >
                       |   AccountVerified > RuntimeApproved > AccountLease > client
                       +-- _record --> outbox --> remote table

The wrappers call downwards and may refuse at each level; the journal's row is
committed before the first of them runs and finished after the last returns.
The risk files are read by the cycle's preamble and again by the submission
guard. Everything shared between processes is a file: exclusion is by `flock`
(non-blocking, released by the kernel when a process dies), first publication
by `os.link`, replacement by `os.replace`, rows by SQLite transactions.

    executions --> live trade journal --(trades, system_events)--> relay --> Telegram
                        other writers --> general outbox --^

    source ledger --> delivery queue --> one application per role --> worker's tick
         ^  (poll)      (batches)         (group of files, archive)
         |                  ^                       |  acknowledgement with the receipt
         +---- paired coordinator: prepared row, operation, completed row ----+

The writers of notices and the relay share only the `system_events` table. The
paper pipeline is a single process; what it shares is time: its clock may leave a
slot or the registered window between any two of its steps.

### What is hard, and what makes each component correct

* **Cycle and journal.** A crash, an exception or a lost answer at every step; a
  request that takes effect after the client gave up; exchange reads that lag.
  Correct when an intent becomes at most one order, possible exposure is always
  reserved locally, row statuses only advance, the position cap holds against
  stale reads, and the reasons of an order are those committed before it.
* **Outbox.** An upsert that took effect without an answer; a row enqueued twice.
  Correct when every executed acknowledged order ends up in the remote table,
  with its first reasons.
* **Ownership.** Concurrent starts, kills between the publication of several
  records, lock files and journals replaced under a running process. Correct when
  one process submits at a time, all its orders are recorded in one file, and
  no restart can miss that file.
* **Migration.** Kills between any two published files, two reviewed plans,
  executors that start in between, writers that ignore the locks. Correct when
  owners appear only after an independent backup of what was reviewed, and the
  same apply repeated finishes what it began.
* **Notices.** A sync that fails between its upserts and its commit, an upsert whose
  answer is lost, a relay that dies inside the write of its file, events with equal
  times, events inserted behind others or between the two requests of a pass. Correct
  when what a database calls published is in the table, the relay's cursor passes
  nothing unsent that a pass could have seen, a message is repeated only for a fault,
  and a prompt event is sent in the end.
* **Paper pipeline.** A kill inside any write, a tick whose receipt is lost, a window
  that ends in the middle, roles that are not equally far. Correct when each worker
  executes each delivery once and in order, the queue moves past it only with that
  receipt, a durable result without an error beside it can be recovered, no group is lost between folder and
  archive, and a run ends in a state that is explained.
* **Risk state.** Evaluations that hold an old equity or clock when they get the
  lock; midnight; a lost file and its restoration. Correct when a day has one
  baseline, the limit holds against it, and the drawdown latch is exact.

The complete list, line by line with the properties that answer it, is
`hazards` in `PROJECT.json`.

## 2. Modules

| Module | Models | Used by |
|---|---|---|
| `Exchange` | the Bybit account as the client sees it (external) | LiveExecutor |
| `SubmissionJournal` | the journal's tables and each operation on them | LiveExecutor |
| `DecisionOutbox` | queue, delivery and the remote table's upsert | LiveExecutor |
| `LiveExecutor` | the cycle and the chain of order clients, composing the three above | MC_LiveExecutor, LiveExecutorProofs |
| `SubmissionPromise` | abstract specification of the journal's promise; refined by LiveExecutor | LiveExecutor (INSTANCE) |
| `ExecutionOwnership` | both leases, their files, the submission under a lease, crashes, lost and replaced files | MC_ExecutionOwnership, ExecutionOwnershipProofs, AccountMigration |
| `AccountMigration` | prepare and apply beside the executors of ExecutionOwnership | MC_AccountMigration, ExecutionOwnershipProofs |
| `DailyBaseline` | evaluation, rollover, backup, restore of the daily baseline | MC_DailyBaseline, DailyBaselineProofs |
| `DrawdownLatch` | concurrent evaluation of peak and latch | MC_DrawdownLatch, DrawdownLatchProofs |
| `SystemEvents` | the two Supabase tables and their upserts | the three below |
| `LiveTradeJournal` | the reconciliation: FIFO trades, notices, failures | NoticePipeline |
| `EventOutbox` | the general outbox with one flusher | NoticePipeline |
| `TelegramRelay` | the relay's passes and its state file | NoticePipeline |
| `NoticePipeline` | the three processes over the shared tables | MC_NoticePipeline, NoticePipelineProofs |
| `ReferenceDelivery` | the source ledger and the delivery queue | CashApplication |
| `CashApplication` | one application of a delivery to a role's worker, file by file | the two below |
| `InOrderApplication` | abstract specification of the delivery to the roles; refined by CashAckRecovery | CashAckRecovery (INSTANCE) |
| `CashAckRecovery` | applications in raw groups with the acknowledgment recovery | MC_CashAckRecovery, CashAckRecoveryProofs |
| `PairedCoordinator` | the coordinator, its journal, the archive and the recovery of a tick | MC_PairedCoordinator, PairedCoordinatorProofs |

The `MC_` modules only give constants values. The `...Proofs` modules hold the
inductive invariants, lemmas and theorems; `DataInduction` has the lemmas on naturals,
finite sets and their folds that several of them need.

### State and actions against the code

`map` in `PROJECT.json` names the lines behind every definition. The main
correspondences:

* **LiveExecutor.** `pc` is the place in `run_cycle` and, while an order is being
  submitted, in the wrapper chain (`prepare`, `risk`, `control`, `account`,
  `sent`, `record`). `work` holds the rows a journal loop has still to visit,
  `then` what follows the running flush, `blocked` the entry blockers. One row
  of `reconcile` is one step (`ReconcileRow`): the two exchange reads and the
  committed update; a kill falls between rows. `FlushUpsert` and `FlushMark` are
  the remote and the local half of `deliver`. `RecoverEnqueue` and `RecoverMark`
  are the two databases of `recover_decisions`. `Crash` may happen in any
  stage. The account preamble, sizing and pair selection reach the model as the
  verdict `b` of `BeginCycle` and the choice of `Approve`; approvals and account
  verification as the refusal at `account`.
* **SubmissionJournal.** `status` is the row status, `rowQty` its quantity,
  `response` where its order id came from, `ctx` the committed decision
  context, `enqueued` its mark. Sets such as `Reconcilable`, `Recoverable` and
  `Reserving` are the WHERE clauses of the queries.
* **DecisionOutbox.** `backlog` holds undelivered records in row order, `remote`
  is the decision table under its upsert key.
* **Exchange.** A request is in flight, accepted, lost, or refused as stale (10002) or
  otherwise; orders fill, partially fill and are cancelled at any time.
* **ExecutionOwnership.** Every durable step of binding a journal is an action of
  its own (`LinkBinding`, `CreateJournal`, `Register`, `PublishRegistry`,
  `PublishBinding`); checks are separate from what they guard wherever another
  process can come in between. `lockFile` and `journal[j].inode` are inodes: a lock
  taken on an unlinked file excludes nobody. `AssertHeld` is the check before a
  POST and `Send` the POST: an executor may be overtaken between the two.
* **AccountMigration.** Each published file has a snapshot check before it
  (`Snapshot`) and the publication itself (`PublishIntent`, `PublishOwner`,
  `PublishOwnerBinding`); a backup is linked first and its temporary name
  removed later (`UnlinkTemporary`). `Independent` is the single-link test.
* **DailyBaseline, DrawdownLatch.** Equity, clock and bundle are read in steps
  before the lock, as the callers do; under the lock, reading, replacing and
  judging are separate steps. `End` is any refusal, exception or kill: the
  kernel drops the lock and the file stays what it was.

* **LiveTradeJournal.** A sync is the steps in which others see its effects: the upsert
  of the trades (`PublishTrades`, with everything it read), that of the notices
  (`PublishEvents`), and `Commit`. `local` is the SQLite file as last committed, so
  `SyncFails` leaves it as it was (`RolledBack`). `Reconstructed` is
  `reconstruct_trades` for each set of fills: `Consume` for one fill, `Consumed` for those
  of a set, a recursive function and not a fold of an operator, so that it can be reasoned about.
* **EventOutbox.** `FlushFails` covers the four outcomes of an attempt that did not end
  well: upsert done or not, row marked failed or not.
* **TelegramRelay.** `saved` is the state file, `pass` the loop. `RelayFetches` and
  `RelayFetchesErrors` are the two requests of `fetch_events`, from the cursor's own time
  on, and other processes write between them; `CursorIds` are the ids written with the
  cursor. `Torn` is a file whose writer died in the write.
* **ReferenceDelivery.** A hash chain that only grows is a count, so heads are numbers.
  `WholePolls` is the cut of a batch, `NextDelivery` and `Acknowledge` are the queue's
  operations on a role.
* **CashApplication.** `groups[r]` is the role's folder: each group has the set of its
  files and whether one of them was cut off by a kill. `worker[r].ticks` is the
  worker's log of completed ticks. Each durable step is an action; `Written` says which
  file a kill may cut off. `TickRaises` is the `except BaseException` around the tick, the
  checks after it and the write of its receipt; `Raised` says which files it leaves.
* **CashAckRecovery, PairedCoordinator.** Two callers of the same steps: the first keeps
  raw groups and recovers an acknowledgment, the second archives each group, removes
  its folder and recovers a completed tick. `known` is the checkpoint that the caller
  keeps, `journal` the prepared row without a completed one, `components` the heads
  of the last completed row, `progress` the projection from which `NextOperation`
  chooses.

### Abstractions

*Data.* Order links, symbols, keys, journals and reasons are model values;
quantities and equities are small integers; a drawdown is compared as a product
in whole percent where the code divides decimals. Hashes are equality of what they
hash. Quote arithmetic (`dynamic_entry_capacity`, fractional risk) is left to the
cap on symbols or to the refusal of a guard.

*Ownership.* One account, one host, one endpoint. Inode numbers are never reused.
The shared directory of lock and owner files is not deleted; a journal or one of
its sidecars may be, and a journal only while nobody has it open. A refused check
ends the process, so it is `End`, like a kill. In credential mode the lock is never
looked at again (`execution_ownership.py:67`), which is why
`OneJournalPerCredential` is conditional on `lockFile = 1`.

*Migration.* The row-by-row audit is one flag (is the decision-context table
there) and the number of rows; the read-only observation of the exchange is a
fresh proof number.

*Risk state.* The clock is kept to the day (DailyBaseline) or to a tick, and never
goes back. A missing or corrupt file is refused by the code in the same way, so both
are `None`. The state file may be lost at any time except while a restore is between
its clock reading and its link: a file lost just then, after a rollover, could
be replaced by the older day's baseline. The day after that is still safe, because
a later evaluation rolls forward.

*Notices.* Prices and profits are left out; amounts are net of fees in the coin, one
symbol. Ids of events are random, so a new row may stand anywhere among those of its
time. A sync reads its clock before it waits for the lock; `LockWait` bounds that wait.
One outbox flusher: no program of the repository starts a second on the same file. Three
things are named in the properties instead of hidden: an event that the cursor was
past when it came, or that it passed at the end of a pass which had asked for events
before it came (`late`; `unread` collects them during the pass), more events at one time
than a pass fetches (`Crowded`), and a torn state file, after which the relay does not
start. `unread` and `late` observe; no action reads them.
Bot commands, the status watcher and the wording are left out, and with the wording
the check for secret markers in `notifications.py`: a message that contains one is
never sent and holds up what follows it.

*Paper pipeline.* Files are written once and not changed by others, so hashes are
equality. What a worker decides and books inside a tick is one step; its log is what
matters to the caller. Forecasts, byte and row budgets are left out except the
budget of a batch and the number of groups. The two input files of a group are
written in one step, as are sealing a worker and writing a replay or the proof. Time is
kept to the slot of five seconds. `rmtree` may stop in the middle; a kill that removed
`complete.json` first is the disagreement in section 5 and leaves the claim of
`RecoveryAccepts`.

## 3. What the runs check

TLC, two workers; distinct states and time on a small machine.

| Run | Instance | States | What it shows |
|---|---|---|---|
| `trade` | a Buy, the Sell that closes it and a Buy of a second symbol, for one slot; quantity 1 | 1.0M | `AtMostOneOrder`, `ExposureReserved`, `ClosedDecisionsQueued`, `RowsOnlyAdvance`; `PositionCap` against stale reads; `PromiseKept`: refinement of SubmissionPromise |
| `exit` | a Buy and its Sell, quantities to 2, two reasons | 1.2M | `IInv` (the invariant of the proofs), `OriginalReasons`, `ReasonsBeforeOrder`, `ReservedEnough` with partial fills |
| `kill` | a Buy and a Sell, one hold note, all operator settings | 1.2M | `KillSwitchHolds` |
| `live` | a Buy and a Sell under `FairSpec` | 64k | `DecisionsDelivered`, `UncertaintyResolves`, `ReservationsReleased` |
| `lease` | two processes, two keys, two journals, two rows, one fault; symmetry | 2.8M | `OneHolder`, `OneJournalPerCredential`, `OneLedgerPerAccount`, `CompleteBeforeSend`, `OwnersNeverReplaced` |
| `migrate` | two processes, two keys, one legacy journal, two plans, one fault; symmetry | 1.9M | `BackedUp`, `OneLedgerPerAccount` across migration; `RepetitionAccepted`: a killed apply can be repeated by the program it was meant for |
| `daily` | two processes, three days, two equities, one loss of the file; symmetry | 1.2M | `OneBaselinePerDay`, `LossLimitHolds`, `BaselineMovesForward` |
| `drawdown` | two processes, four equities, three ticks, four observations; symmetry | 2.3M | `DrawdownExact`, `ObservationsInOrder` |
| `ack` | two roles, one pair, three slots, two groups per role, two kills; symmetry | 2.9M | `BatchesWhole`, `ExactlyOnce`, `DurableResultsRecoverable`, `PromiseKept`: refinement of InOrderApplication |
| `paired` | two roles, a window of five slots with three polls, four groups per role, two kills | 0.7M | `NeverRefused`, `GroupsKept`, `RecoveryAccepts`; under `FairSpec`, `RunEnds` |
| `events` | four fills (a lot, its conversion, an order sold in two fills), one outbox event, two instants, passes of three events, one fault | 1.0M | `CommittedIsPublished`, `RepeatsNeedFault`, `TradesExact`, `PassedWasSent`; under `FairSpec`, `PromptNoticesSent` |
| `schema` | one legacy journal and one the present executor has opened | - | a disagreement, section 5 |

### Bounds, and why they are enough

* A Buy, its Sell and a Buy of another symbol are the shortest history in which two
  entries race for a slot and a reservation is released for one of them to be taken
  again. A link stands for one order forever, so what would be the next cycle of
  an order is another visit to the same rows: cycles, crashes, restarts and retries
  are not bounded. Quantity 2 is the first that can fill partially.
* Two processes meet in every pairwise race; keys and paths matter only as equal or
  different. One fault per behaviour: the guarantees are about a single tampered
  file. Two rows allow an order before and one after it; in `migrate` a third comes with the
  legacy journal.
* Two plans of one journal are the smallest competition; two proofs make a
  repeated observation differ from the one in the intent. A repetition must be accepted only
  while its inputs are kept, so the fault is for the other two properties. With one
  journal no other program can become the owner between a kill and the repetition; that
  case (section 5) is in the theorem `RepetitionAcceptedHolds`, for any number of journals.
* Two evaluators and three days give two midnights, one of them with the file lost
  and restored. Four observations hold a rise, a breach, a recovery and a later
  observation of another process; the equities 100, 95, 90 and 0 lie
  above, at and below the 10 percent threshold.

* Two roles are enough to be apart from each other; one pair makes a poll of three
  events, two fit a batch of five only by cutting inside the second. Two groups per
  role give a delivery after a recovered one, two kills a recovery that is itself
  killed. The coordinator's window has polls in its first, second and third anchor,
  so that it can end before, inside and after one.
* A purchase, its conversion and a sale in two fills are the shortest history in which
  the discovery of the conversion moves a sale to another lot and a sync splits an order
  into two notices. Two instants give equal times, events before and after the cursor,
  and one that comes late or between the two requests of a pass, before an error at the
  later instant; passes of three events do not take them all. Faults are
  counted together: the one may be a lost answer, a failed sync or a kill.

The proofs below remove these bounds for the properties they cover.

The deadlock check is off in `ack`, `paired` and `events`, whose window, run or
clock really ends, and on in all others. Symmetry is used only in runs without
liveness properties, over sets whose members are interchangeable in Init.

### Fairness

* `FairSpec` (run `live`): the timer starts the next cycle whenever the process is
  down, and a running process takes its next step, so `CalmCycle` and
  `Submission` are weakly fair; no wrapper step waits for anybody. Nothing is
  promised while calls keep failing, therefore the properties assume `FaultsCease`:
  from some point on no failure and no crash step is taken. `ReconcileSees` is strongly
  fair: the exchange eventually shows an order it holds to a reader that
  asks in every cycle. `SettleRelease` is strongly fair: a proof that holds in cycle
  after cycle is eventually read in one piece. The exchange itself is under no fairness.
* `FairSpec` of PairedCoordinator (run `paired`): time passes, and a coordinator that is
  not killed takes its next step; its operator restarts it or recovers its tick when
  that is accepted. Both are weak fairness; kills are bounded by `MaxCrashes` and under
  no fairness.
* `FairSpec` of NoticePipeline (run `events`): the relay loops and is restarted (a systemd
  service), so `RelayStep` is weakly fair. Faults are bounded and under no
  fairness, and neither are the writers.

## 4. What is proved

TLAPS checks every leaf. The assumptions are the named ASSUMEs of the modules: finite
sets of links, `SymbolOf` a function, keys of hold notes that are never order links
(`supabase_executor.py:567`), bounds that are naturals, `None` outside
the data; for the migration, that it is not an owner record (`MissingAssumption`); for
the notices, finite sets of fills and outbox events with times that are naturals
(`PipelineAssumption`); for the drawdown, a threshold of 1 to 10 percent, which is the range that
`portfolio_drawdown.py:15` admits. TLC evaluates them in each run.

| Module | Theorems (listed in PROJECT.json) | Argument |
|---|---|---|
| `LiveExecutorProofs` | `TypeCorrect`, `AtMostOneOrderHolds`, `ExposureReservedHolds`, `RowsOnlyAdvanceHolds`, `KeepsPromise` | `IInv` = types, `RequestInv`, `ProcessInv`, `ExposureReserved` |
| | `ReasonsBeforeOrderHolds`, `KillSwitchCorrect`, `OriginalReasonsHold`, `ClosedDecisionsHold`, `PositionCapHolds`, `ReservedEnoughHolds` | a strengthening for each (`ReasonInv`, `KillInv`, `GenuineInv`, `RecoverInv`, `CapInv`, `QuoteInv`) on top of `IInv` |
| `ExecutionOwnershipProofs` | `TypeCorrect`, `OneHolderHolds`, `OneLedgerHolds`, `OneJournalHolds`, `OwnersNeverReplacedHolds`, `CompleteBeforeSendHolds` | `IInv` = types and seven parts on jobs, locks, inodes, leases, rows, ledger and keys; `CompleteInv` on top of it |
| | `MigrationKeepsOwnership`, `MigrationNeverReplaces`, `BackedUpHolds` | the same `IInv`, and `MigrationInv`: what plans, tools and intents guarantee |
| | `RepetitionAcceptedHolds` | `RepetitionInv` on top of both |
| `DailyBaselineProofs` | `TypeCorrect`, `OneBaselineHolds`, `LossLimitCorrect`, `MovesForward` | what the lock's holder has read is still in the file |
| `DrawdownLatchProofs` | `TypeCorrect`, `DrawdownHolds`, `OrderHolds` | the file summarises the recorded history |
| `CashAckRecoveryProofs` | `TypeCorrect`, `ExactlyOnceHolds` | `IInv`: ticks, receipts, cursor and checkpoint of a role agree, at most one group follows the checkpoint, and the step of the process says how far it is |
| | `RecoverableHolds` | `Durable`, on top of `IInv`: the files of the open group, the worker's state and the queue's position at each step, and after a kill |
| | `BatchesWholeHold` | `SourceInv` and `QueueInv`: the kind of an event of the source is a matter of its position |
| | `KeepsPromise` | `OfferedInv` and what a role has executed counted against its cursor, on top of `IInv` |
| `PairedCoordinatorProofs` | `GroupsKeptHolds` | archive, ticks, folder and checkpoint of each role |
| | `NeverRefusedHolds`, `RecoveryAcceptsHolds` | `QueueInv` and `ServiceInv` on top of it: what the source holds beyond the queue, and what a role waits for |
| `NoticePipelineProofs` | `PublishedHolds`, `RepeatsHold` | `NoticeInv`: tables, journal and outbox, and which notice stands for which fill |
| | `PassedHolds` | `RelayInv`: order of the table, cursor, ids kept with it and what was sent |
| | `TradesExactHolds` | `TradeInv`: every live row of an owned lot is one the next sync writes or finds again |

* **At most one order.** The property alone is not inductive: nothing in it says that
  a new POST finds no earlier request. `RequestInv` ties a request in flight to an
  unresolved row and says that an absent row has no order; `ProcessInv` says that a
  process in the wrapper chain works on a row it has itself prepared and, until the
  POST, that nothing has been sent for it. `StepFrame` reduces the forty actions to
  those that touch the part of the state an invariant speaks of.
  `KeepsPromise` uses the same invariant to map each step to one of
  SubmissionPromise or to a stutter.
* **Decisions.** A reason that reaches the remote table comes from the evaluation or from
  recovery, in any order; `GenuineInv` says that every receipt, queued or delivered,
  carries the committed context, so the order does not matter. `RecoverInv` carries what the
  end of `recover_decisions` established to the settlement that follows it:
  nothing in between makes a row recoverable (`SweepFrame`), so settlement closes
  only rows whose record is queued.
* **Position cap.** Nothing the guard reads from the exchange is current, so the proof uses
  none of it: what is held or may execute is reserved locally (`ExposureReserved`), the
  reservations of the other rows stay while the process is in the wrapper chain,
  and the order that passes adds one symbol below the cap.
* **Reserved quantity.** A sum over the reserved rows must cover the wallet while fills arrive
  in parts. `QuoteInv` keeps two bounds: no row executes more than its quantity, and the wallet
  of a symbol is at most the sum of what its reserving Buys have executed. A fill of a Buy raises
  the term of a row that reserves (`ExposureReserved`) by what it adds to the wallet (`SumApart`);
  while anything is held, only rows without an execution stop reserving (`LeavesUnexecuted`),
  and they count for nothing (`SumZeroes`).
* **One ledger.** A row may have been written to a file that is no longer at the path:
  `RowInv` keeps its inode between the one in the lease and the present one, so the
  equality that `assert_held` checks squeezes all three together, and `LedgerInv` then
  places each sent order in the file of the owner record.
* **Migration.** An apply takes the leases of an executor, so most of the proof is that
  its steps fit into `IInv` of the executors: `ToolInv` says at each step of an apply
  which locks it holds and which record it is about to publish, `PlanInv` that a plan's
  backup, once linked, has the rows of the review, `IntentInv` that an intent names
  a plan with such a backup. Owners follow the intent, hence the backup.
* **Repeated apply.** While nobody tampers with files, whoever reads or writes the account's
  records holds the one account lock (`LocksQuiet`, hence `Alone`), so a tool and a new
  executor never interleave. `NewcomersFree`: an executor on its way to become the owner has a journal
  without an intent, because one with an intent exists and has no binding, which the lease refuses.
  `OwnersMatch`: an owner with the journal of an intent is the record of that intent.
  `UndecidedMatch`: a tool that has chosen its record either found nothing, or carries the
  record of the intent. Together they leave no refusal except for another owner.
* **Published notices.** A sync publishes what it read and commits later, and what it
  read may be old by then. `Noticed` ties each fill that was notified to a notice in the
  table that covers it, `NoticesBounded` counts the notices of a fill against the
  syncs that failed, so that `RepeatsNeedFault` needs no history.
* **Passed notices.** The relay asks for rows from the cursor's own time on and drops those
  it knows. `NoGap`: a row from the cursor up to the latest one of the pass is in the pass, or
  was inserted since the pass asked for events (`unread`) or too late. `WholeFetch`: until the errors are
  fetched, a pass with room for them holds every event from the cursor on that is not `unread`, so whatever
  time the error has, nothing else lies before it. `IdsAtCursor`: an id kept with the cursor is one of a row not after it, so
  a pass that moves the cursor on forgets none it still needs. That a merge of new rows
  into the table keeps its order is an induction over the rows merged (`MergedKeepsOrder`).
* **Exact trades.** Only a reconciliation writes rows, and it gives up those that it knows
  and does not write again; one that failed has written rows the file does not know. They do
  no harm because no row is ever given up for a later fill (`ReconstructedGrows`, by induction
  on the set of fills): what a failed sync wrote, the next one writes again or, if it began
  without a file, finds in the table (`RowsFound`).
* **Induction over data.** The library's theorems take the predicate as a parameter, which
  the installed provers cannot instantiate. `DataInduction` states them with a set in place of the
  predicate (`EveryNat`, `EveryFiniteSet`), derived from the existence of minimal
  elements, and from them what a fold over a finite set is (`FoldExists`), that a largest
  and a smallest element exist, and how a sum changes with its set and its terms.
* **One baseline.** The history of baselines stays at or before the
  file's day while the file exists, and a process that restores has read a backup of
  one of them; under the lock what was read is the file.
* **Exact latch.** The state carries a peak and a latch instead of the history.
  `Summary` says in which sense this is enough: the peak is the maximum of the recorded
  equities and the latch and time those of the last record. `HigherPeak` (a breach
  from a lower peak is one from a higher peak) makes the maximum the only peak that
  matters. `Recorded` adds one observation to any sequence.

* **Exactly once.** That a worker's log has no repetition is not inductive by itself. The
  reason is the checkpoint: an application starts only where the folder and the log end
  with it, and the deliveries of the ticks up to it are all acknowledged
  (`Applied`), so the delivery after the cursor is new. The lemmas `TickExtends`,
  `AckExtends` and `CheckpointMoves` state this for the values of one role, without
  processes or steps.
* **Recoverable results.** `Held` says what the open group contains at each step; whatever
  a kill or a raise leaves of it either has no complete receipt, or an error beside it, or is a state
  `recover_cash_ack` accepts (`HeldIsLeft`), and stays one, because a role with such a
  group is offered nothing more.
* **Groups kept.** `Ahead` says of one role's archive, ticks, folder and checkpoint that at
  most one application is ahead of the checkpoint and that a group left in the
  folder then has the delivery of the last tick; `Settled` that none is, which
  holds of every role not named by the prepared row. The row thus tells a recovered
  process which group it may archive (`RowOK`, `DoingOK`).

* **Whole batches.** A poll makes `Pairs + 2` events and the ledger appends in order, so the
  position of an event, modulo that number, says which kind it is (`SourceInv`); a
  batch begins where the last one ended and its end is cut back to the end of a poll
  (`QueueInv`).
* **In-order promise.** The abstract specification counts executions. The
  executed ticks of a role are in bijection with the deliveries up to its cursor, or one
  beyond it (`ExecutedCount`, from `ExactlyOnce`), so an acknowledgment leaves the count alone
  and a tick adds one to it; `OfferedInv` ties an open group to the delivery after the cursor.
* **Never refused, recovery accepts.** What the source holds beyond the queue is one poll or a
  part of one, and each batch is one poll, so the reader's index ends where the batch it is asked
  for ends (`QueueInv`). `ServiceInv` follows each role through a tick: before it nothing is
  pending and the cursor is the greatest delivery of its ticks up to the checkpoint
  (`Waiting`); once the archive or folder shows the acknowledgment, the tick itself is included
  (`Finished`). At a kill, the prepared row and this say what the restart or the recovery
  compares.

Every invariant and every action property that a passing run checks is a theorem, and so are both
refinements. Only model-checked: liveness (`DecisionsDelivered`, `UncertaintyResolves`,
`ReservationsReleased`, `RunEnds`, `PromptNoticesSent`), because fairness and
ENABLED are out of the prover's reach. `CompleteBeforeSend` is proved for executors alone,
not with migrations beside them. No module of the project declares a
RECURSIVE operator.

## 5. Disagreements met while modelling

* `schema`: `account_migration.py:140` accepts a database that holds nothing but
  `order_submissions`, while the journal's constructor always creates
  `order_decision_contexts` too. Prepare and apply refuse every journal the present
  executor has opened; `tests/test_account_migration.py:87` expects such a journal to
  migrate.

The other disagreements were found while the models were written and are not runs:

* `docs/EXECUTOR_UID_MIGRATION.md:91` has an interrupted apply repeated
  with its inputs kept, and line 93 has the remaining records written from the pinned intent. The
  lease (`account_ownership.py:155`) looks for the registry and the binding of its own
  journal and never for an intent, so after a kill between intent and registry an executor with
  another key of the account and a new journal becomes the owner, and the repetition is
  refused as a conflict (`account_migration.py:278-280`). `RepetitionAccepted` names the case.
* `docs/EXECUTOR_CONTROLS.md:84` allows an automatic release only with an
  acknowledged order id; `order_submission_journal.py:210` also releases a row that
  is prepared or unknown once all visible rows of the link are zero-fill cancellations.
  `ExposureReserved` still holds: the order cannot execute any more.
* `docs/EXIT_CONTEXT_RECOVERY_AND_DURABILITY_20261102.md:78` promises the
  decision of every known order to the outbox; an acknowledged Buy that was cancelled
  without a fill is reconciled to `released_unfilled` before recovery looks, and
  recovery does not select that status.
* The docstring of `SegmentedCashApplicationV2.recover` (`cash_application_v2.py:379`)
  says that a committed archive row can be finished. If `rmtree` was killed after it
  had removed `complete.json`, line 400 refuses the rest of the folder, although the
  archive has the whole group.
* `docs/TELEGRAM_NOTIFICATIONS.md:143-144`: "Execution-based event keys prevent
  reconciliation retries from generating duplicate events." A sync that fails after its notices
  and before its commit tells the same fills again, and under another key if the order was filled
  further meanwhile; `RepeatsNeedFault` bounds this by one message for each such failure.
* `telegram_relay.py:80-83` asks for the events and then, in a second request, for the
  errors, and the cursor moves to the latest row of either. An event inserted between the two,
  before an error, is never fetched and never sent: a sync that publishes its notices and
  then fails writes such a pair. `PassedWasSent` names the case (`late`).
* `cash_worker_application.py:249-250` writes `worker_receipt_available=False` for every
  exception up to the write of the receipt, its last step included. A receipt that is
  durable when its write raises (the sync of the directory) then stands beside that
  statement, and `cash_ack_recovery.py:77` refuses the group, although
  `docs/CASH_ACK_RECOVERY.md` offers recovery for a durable result.
* `inventory_audit.py:33` calls an account without CryptoForge fills inconsistent
  (`bool(results)`), so `live_trade_journal.py:304` raises and
  `run_supabase_live_executor.py:260` blocks entries: an account that starts empty
  never makes its first entry. `tests/test_live_trade_journal.py:143` syncs such an
  account, but with a client without the audit's methods. The model starts with an
  owned fill.
* `telegram_relay.py:723` saves the alerts of the watcher as known even if their
  message was not sent (the watcher is not modelled).

## 6. Plan

Done: everything in section 2. Left, in this order:

1. `ReservationSettlement`: the FIFO proof of a closed cycle with base fees, equal
   times and partial cancellations as functions over bounded executions, checked against
   "the remaining inventory is zero"; then LiveExecutor's `ProvenClosed` as what it
   promises.
2. `RequestBudget` (`semantic_request_journal.py`, `research_run_budget.py`): reserve
   before a paid call, settle after it, never exceed.
3. `Lifecycle`: candidate states, one champion at a time.

Theorems to follow: `CompleteBeforeSend` across a migration; the correctness of the FIFO proof
of `ReservationSettlement` once it is modelled.

## 7. Not modelled

* Signals, sizing, market data, model training, backtests: numerical work out of a
  model checker's reach. They are most of the code, and their result reaches the
  models as a nondeterministic decision.
* Evidence formats, archives, replays and reports (`native_paper_archive*.py`,
  `paper_valuation_capture.py`, ...): parsing and hashing of files that are
  written once and then only read. Where such a file decides something later, its
  presence is in the state.
* `config/reviewed-main-runtime-overlay/` repeats sources of another revision.
* Message formatting, HTTP, argument parsing, deployment: pure input and output.
* The operator's copies (`backup.py`, `recovery.py`) work on files at rest.
