---------------------------- MODULE LiveExecutor ----------------------------
(***************************************************************************)
(* The Supabase live executor: one cycle of run_supabase_live_executor.py  *)
(* (run_cycle) with the order client it builds                             *)
(*   Journaled > SubmissionRisk > Controlled > AccountVerified >           *)
(*   RuntimeApproved > AccountLease > BybitPrivateClient                   *)
(* and SupabaseLiveExecutor.run_once for each pair.  The cycle is a        *)
(* oneshot process holding the execution lease; it may die between any two *)
(* of its durable or remote operations and is started again by its timer.  *)
(***************************************************************************)
EXTENDS SubmissionJournal, DecisionOutbox

CONSTANTS
    Cap,        \* --max-open-positions
    Notes,      \* keys of hold/reject records: bounds how many are written
    Controls,   \* the <<kill_switch, no_new_entry>> settings the operator uses
    NoLink      \* no order is being submitted

ASSUME ExecutorAssumption ==
    /\ Cap \in Nat
    /\ Controls \subseteq BOOLEAN \X BOOLEAN
    /\ MaxQty \in Nat \ {0}
    /\ NoLink \notin Links
    /\ NoContext \notin [qty : 1..MaxQty, reason : Reasons]
    /\ Keys = Links \cup Notes
    /\ Links \cap Notes = {}
    /\ RecordReasons = Reasons
    /\ NoRecord \notin Reasons

VARIABLES
    pc,         \* where the process is; "down" between cycles
    cur,        \* the link being submitted
    want,       \* the quantity this evaluation asks for
    then,       \* what follows the running flush
    work,       \* rows the running journal loop still has to visit
    todo,       \* pairs not yet evaluated in this cycle
    blocked,    \* entry_blockers is not empty
    attempt,    \* retries of the running POST (10002 only)
    kill,       \* operator kill_switch
    noEntry,    \* operator no_new_entry
    killed,     \* observation: links prepared under a kill switch never cleared since
    late        \* execution times: Buys that filled after a closing Sell had started

controlVars == <<pc, cur, want, then, work, todo, blocked, attempt>>
operatorVars == <<kill, noEntry, killed>>
vars == <<exchangeVars, journalVars, outboxVars, controlVars, operatorVars, late>>

Stages == {"down", "flush", "mark", "reconcile", "recover", "enqueued", "settle", "pairs",
           "prepare", "risk", "control", "account", "sent", "record"}
Submitting == {"risk", "control", "account", "sent"}

ControlTypeOK ==
    /\ pc \in Stages
    /\ cur \in Links \cup {NoLink}
    /\ want \in 0..MaxQty
    /\ then \in {"reconcile", "settle", "pairs"}
    /\ work \subseteq Links
    /\ todo \subseteq Symbols
    /\ attempt \in 0..1
    /\ killed \subseteq Links
    /\ late \subseteq Links

FlagsTypeOK ==
    /\ enqueued \in [Links -> BOOLEAN]
    /\ blocked \in BOOLEAN
    /\ kill \in BOOLEAN
    /\ noEntry \in BOOLEAN

TypeOK == ExchangeTypeOK /\ JournalTypeOK /\ OutboxTypeOK /\ ControlTypeOK /\ FlagsTypeOK

Init ==
    /\ ExchangeInit
    /\ JournalInit
    /\ OutboxInit
    /\ pc = "down" /\ cur = NoLink /\ want = 0 /\ then = "reconcile"
    /\ work = {} /\ todo = {} /\ blocked = FALSE /\ attempt = 0
    /\ kill = FALSE /\ noEntry = FALSE /\ killed = {}
    /\ late = {}

Leave(stage) == pc' = stage /\ cur' = NoLink /\ want' = 0 /\ attempt' = 0

-----------------------------------------------------------------------------
(* The cycle's preamble.  The account snapshot, the daily and drawdown      *)
(* guards, the pair selection and the live trade journal each may add an    *)
(* entry blocker: b stands for their verdict.                               *)
BeginCycle(b) ==
    /\ pc = "down"
    /\ pc' = "flush" /\ then' = "reconcile"
    /\ todo' = Symbols /\ blocked' = b /\ work' = {}
    /\ UNCHANGED <<cur, want, attempt, exchangeVars, journalVars, outboxVars, operatorVars, late>>

(* DecisionOutbox.flush and deliver. *)
FlushUpsert ==
    /\ pc = "flush"
    /\ Upsert
    /\ pc' = "mark"
    /\ UNCHANGED <<cur, want, then, work, todo, blocked, attempt,
                   exchangeVars, journalVars, operatorVars, late>>

FlushMark ==
    /\ pc = "mark"
    /\ MarkDelivered
    /\ pc' = "flush"
    /\ UNCHANGED <<cur, want, then, work, todo, blocked, attempt,
                   exchangeVars, journalVars, operatorVars, late>>

AfterFlush ==
    /\ pc' = then
    /\ blocked' = (blocked \/ backlog # <<>>)
    /\ work' = CASE then = "reconcile" -> Reconcilable
                 [] then = "settle" -> {l \in Buys : status[l] \in Settleable}
                 [] OTHER -> {}
    /\ then' = "reconcile"
    /\ UNCHANGED <<cur, want, todo, attempt>>

FlushDone ==
    /\ pc = "flush" /\ backlog = <<>>
    /\ AfterFlush
    /\ UNCHANGED <<exchangeVars, journalVars, outboxVars, operatorVars, late>>

(* The upsert raised: it may have reached the table all the same. *)
FlushFails ==
    /\ pc = "flush" /\ backlog # <<>>
    /\ AfterFlush
    /\ \/ Upsert
       \/ UNCHANGED outboxVars
    /\ UNCHANGED <<exchangeVars, journalVars, operatorVars, late>>

-----------------------------------------------------------------------------
(* OrderSubmissionJournal.reconcile: one row after the other.  The open     *)
(* orders are read before the history, so an order may be seen in an older  *)
(* state, in its present one, in both, or in neither.                       *)
Sightings(l) ==
    IF accepted[l] = 0 THEN {{}}
    ELSE {{}, {xstatus[l]}, {"New", xstatus[l]}}

ReconcileRow(l, matches) ==
    /\ pc = "reconcile" /\ l \in work
    /\ ApplyObservation(l, matches)
    /\ work' = work \ {l}
    /\ UNCHANGED <<pc, cur, want, then, todo, blocked, attempt,
                   exchangeVars, outboxVars, operatorVars, late>>

SettleFirst ==                              \* mutant: settle_journal before recover_decisions
    /\ pc = "reconcile" /\ work = {}
    /\ pc' = "settle" /\ work' = {l \in Buys : status[l] \in Settleable}
    /\ UNCHANGED <<cur, want, then, todo, blocked, attempt,
                   exchangeVars, journalVars, outboxVars, operatorVars, late>>

ReconcileDone ==
    /\ pc = "reconcile" /\ work = {}
    /\ pc' = "recover" /\ work' = Recoverable
    /\ UNCHANGED <<cur, want, then, todo, blocked, attempt,
                   exchangeVars, journalVars, outboxVars, operatorVars, late>>

(* recover_decisions: the enqueue is durable before the context is marked. *)
RecoverEnqueue(l) ==
    /\ pc = "recover" /\ l \in work
    /\ Enqueue([key |-> l, origin |-> "recovered", reason |-> ctx[l].reason])
    /\ pc' = "enqueued" /\ cur' = l
    /\ UNCHANGED <<want, then, work, todo, blocked, attempt,
                   exchangeVars, journalVars, operatorVars, late>>

RecoverMark ==
    /\ pc = "enqueued"
    /\ MarkEnqueued(cur)
    /\ work' = work \ {cur}
    /\ pc' = "recover" /\ cur' = NoLink
    /\ UNCHANGED <<want, then, todo, blocked, attempt, exchangeVars, outboxVars, operatorVars,
                   late>>

RecoverDone ==
    /\ pc = "recover" /\ work = {}
    /\ pc' = "flush" /\ then' = "settle"
    /\ UNCHANGED <<cur, want, work, todo, blocked, attempt,
                   exchangeVars, journalVars, outboxVars, operatorVars, late>>

(* Any exception in reconcile, recover, flush or settle ends that block of  *)
(* the cycle with an entry blocker; the pairs are still evaluated.          *)
ReconciliationFails ==
    /\ \/ pc \in {"reconcile", "recover", "enqueued", "settle"}
       \/ pc = "flush" /\ then = "settle"
    /\ Leave("pairs")
    /\ blocked' = TRUE /\ work' = {} /\ then' = "reconcile"
    /\ UNCHANGED <<todo, exchangeVars, journalVars, outboxVars, operatorVars, late>>

-----------------------------------------------------------------------------
(* settle_journal: the Buys of one symbol and the Sells prepared since the  *)
(* first of them.  The listing of open orders may lag behind the exchange:  *)
(* it can only retain a cohort, which SettleRetain allows anyway.           *)
Cohort(s) == {l \in Buys \cap Of(s) : status[l] \in Settleable}
Closing(s) ==
    {l \in Sells \cap Of(s) : status[l] \in Settleable /\ \E b \in Cohort(s) : stamp[b] <= stamp[l]}
Executed(S) == MapThenSumSet(LAMBDA l : exec[l], S)

ProvenClosed(s) ==
    /\ Closing(s) # {}
    /\ \A l \in Cohort(s) \cup Closing(s) : xstatus[l] \in FilledStatus
    /\ Cohort(s) \cap late = {}
    /\ Executed(Cohort(s)) = Executed(Closing(s))
    /\ wallet[s] = 0

SettleRelease(s) ==
    /\ pc = "settle" /\ work \cap Of(s) # {}
    /\ ProvenClosed(s)
    /\ ReleaseCohort(Cohort(s))
    /\ work' = work \ Of(s)
    /\ UNCHANGED <<pc, cur, want, then, todo, blocked, attempt,
                   exchangeVars, outboxVars, operatorVars, late>>

(* A proof that fails, or a source that cannot be read, retains the cohort. *)
SettleRetain(s) ==
    /\ pc = "settle" /\ work \cap Of(s) # {}
    /\ work' = work \ Of(s)
    /\ UNCHANGED <<pc, cur, want, then, todo, blocked, attempt,
                   exchangeVars, journalVars, outboxVars, operatorVars, late>>

SettleDone ==
    /\ pc = "settle" /\ work = {}
    /\ pc' = "pairs"
    /\ UNCHANGED <<cur, want, then, work, todo, blocked, attempt,
                   exchangeVars, journalVars, outboxVars, operatorVars, late>>

-----------------------------------------------------------------------------
(* run_once for one pair.  A hold, a rejection and an exit or entry that    *)
(* approves no order write a note; an error skips the pair and, when it is  *)
(* exit data that is missing, pauses the entries of the rest of the cycle.  *)
NoteDecision(s, n, reason) ==
    /\ pc = "pairs" /\ s \in todo
    /\ ~QueuedOrDelivered(n)
    /\ Enqueue([key |-> n, origin |-> "note", reason |-> reason])
    /\ todo' = todo \ {s}
    /\ pc' = "flush" /\ then' = "pairs"
    /\ UNCHANGED <<cur, want, work, blocked, attempt, exchangeVars, journalVars, operatorVars,
                   late>>

PairFails(s, exitDataMissing) ==
    /\ pc = "pairs" /\ s \in todo
    /\ todo' = todo \ {s}
    /\ blocked' = (blocked \/ exitDataMissing)
    /\ UNCHANGED <<pc, cur, want, then, work, attempt,
                   exchangeVars, journalVars, outboxVars, operatorVars, late>>

(* The decision approves an order: a Sell of the whole inventory, or a Buy  *)
(* of the stake when nothing is held and no entry blocker stands.  The      *)
(* reasons are committed before the submission path is entered.             *)
Wanted(l, qty) ==
    IF l \in Sells THEN wallet[SymbolOf[l]] > 0 /\ qty = wallet[SymbolOf[l]]
    ELSE wallet[SymbolOf[l]] = 0 /\ ~blocked /\ qty = MaxQty

Approve(l, qty, reason) ==
    /\ pc = "pairs" /\ SymbolOf[l] \in todo
    /\ Wanted(l, qty)
    /\ CaptureContext(l, qty, reason)
    /\ todo' = todo \ {SymbolOf[l]}
    /\ pc' = "prepare" /\ cur' = l /\ want' = qty
    /\ UNCHANGED <<then, work, blocked, attempt, exchangeVars, outboxVars, operatorVars, late>>

-----------------------------------------------------------------------------
(* JournaledOrderClient.create_spot_market_order. *)
PrepareIntent ==
    /\ pc = "prepare"
    /\ InsertIntent(cur, want)
    /\ killed' = IF kill THEN killed \cup {cur} ELSE killed
    /\ pc' = "risk"
    /\ UNCHANGED <<cur, want, then, work, todo, blocked, attempt,
                   exchangeVars, outboxVars, kill, noEntry, late>>

(* A second attempt under an acknowledged link answers from the journal. *)
PrepareCached ==
    /\ pc = "prepare"
    /\ Cached(cur, want)
    /\ pc' = "record"
    /\ UNCHANGED <<cur, want, then, work, todo, blocked, attempt,
                   exchangeVars, journalVars, outboxVars, operatorVars, late>>

PrepareFails ==
    /\ pc = "prepare"
    /\ PrepareRaises(cur, want)
    /\ Leave("pairs")
    /\ UNCHANGED <<then, work, todo, blocked,
                   exchangeVars, journalVars, outboxVars, operatorVars, late>>

(* SubmissionRiskClient: a Sell passes; a Buy counts the symbols held, the  *)
(* open Buys the exchange lists, and the local reservations of the others.  *)
Held == {s \in Symbols : wallet[s] > 0}
OpenBuys == {l \in Buys : xstatus[l] \in OpenStatus}

RiskPass(listed) ==
    LET local == ReservedSymbols(cur)
        pending == {SymbolOf[l] : l \in listed}
    IN  /\ pc = "risk"
        /\ cur \in Buys =>
              /\ SymbolOf[cur] \notin pending \cup local
              /\ Cardinality(Held \cup pending \cup local) < Cap
        /\ pc' = "control"
        /\ UNCHANGED <<cur, want, then, work, todo, blocked, attempt,
                       exchangeVars, journalVars, outboxVars, operatorVars, late>>

ControlBuysOnly ==                          \* mutant: Sells do not read the kill switch
    /\ pc = "control"
    /\ cur \in Buys => ~kill /\ ~noEntry
    /\ pc' = "account"
    /\ UNCHANGED <<cur, want, then, work, todo, blocked, attempt,
                   exchangeVars, journalVars, outboxVars, operatorVars, late>>

(* ControlledOrderClient rereads the operator's file. *)
ControlPass ==
    /\ pc = "control"
    /\ ~kill
    /\ cur \in Buys => ~noEntry
    /\ pc' = "account"
    /\ UNCHANGED <<cur, want, then, work, todo, blocked, attempt,
                   exchangeVars, journalVars, outboxVars, operatorVars, late>>

(* AccountVerified, RuntimeApproved and AccountLease let the order through. *)
Submit ==
    /\ pc = "account"
    /\ PostRequest(cur)
    /\ pc' = "sent"
    /\ UNCHANGED <<cur, want, then, work, todo, blocked, attempt,
                   journalVars, outboxVars, operatorVars, late>>

BlockSent ==                                \* mutant: a late control error blocks a sent order
    /\ pc \in Submitting
    /\ Finish(cur, "blocked", "none")
    /\ Leave("pairs")
    /\ UNCHANGED <<then, work, todo, blocked, exchangeVars, outboxVars, operatorVars, late>>

(* OrderControlBlocked from any wrapper.  Risk data only ever block a Buy.  *)
BlockOrder ==
    /\ pc \in {"risk", "control", "account"}
    /\ pc = "risk" => cur \in Buys
    /\ Finish(cur, "blocked", "none")
    /\ Leave("pairs")
    /\ UNCHANGED <<then, work, todo, blocked, exchangeVars, outboxVars, operatorVars, late>>

(* _private_post repeats the request once when its timestamp was refused.   *)
Resend ==
    /\ pc = "sent" /\ refused[cur] = "stale" /\ attempt = 0
    /\ PostRequest(cur)
    /\ attempt' = 1
    /\ UNCHANGED <<pc, cur, want, then, work, todo, blocked,
                   journalVars, outboxVars, operatorVars, late>>

Acknowledge ==
    /\ pc = "sent" /\ accepted[cur] > 0
    /\ Finish(cur, "acknowledged", "ack")
    /\ pc' = "record"
    /\ UNCHANGED <<cur, want, then, work, todo, blocked, attempt,
                   exchangeVars, outboxVars, operatorVars, late>>

TimeoutIsRefusal(resp) ==                   \* mutant: no answer is taken for a refusal
    /\ pc = "sent"
    /\ resp = "malformed" => accepted[cur] > 0
    /\ Finish(cur, "blocked", resp)
    /\ Leave("pairs")
    /\ UNCHANGED <<then, work, todo, blocked, exchangeVars, outboxVars, operatorVars, late>>

(* A timeout, a refusal, or an answer that establishes nothing: the outcome *)
(* is unknown, whatever happened to the request.                            *)
GiveUp(resp) ==
    /\ pc = "sent"
    /\ resp = "malformed" => accepted[cur] > 0
    /\ Finish(cur, "unknown", resp)
    /\ Leave("pairs")
    /\ UNCHANGED <<then, work, todo, blocked, exchangeVars, outboxVars, operatorVars, late>>

(* finish itself raises: the row stays 'prepared' and the cycle goes on.    *)
FinishFails ==
    /\ pc \in Submitting
    /\ Leave("pairs")
    /\ UNCHANGED <<then, work, todo, blocked,
                   exchangeVars, journalVars, outboxVars, operatorVars, late>>

(* _record with the order: the prepared record under the order's key.       *)
Record ==
    /\ pc = "record"
    /\ Enqueue([key |-> cur, origin |-> "direct", reason |-> ctx[cur].reason])
    /\ pc' = "flush" /\ then' = "pairs" /\ cur' = NoLink /\ want' = 0 /\ attempt' = 0
    /\ UNCHANGED <<work, todo, blocked, exchangeVars, journalVars, operatorVars, late>>

RecordFails ==
    /\ pc = "record"
    /\ Leave("pairs")
    /\ UNCHANGED <<then, work, todo, blocked,
                   exchangeVars, journalVars, outboxVars, operatorVars, late>>

EndCycle ==
    /\ pc = "pairs" /\ todo = {}
    /\ pc' = "down" /\ blocked' = FALSE
    /\ UNCHANGED <<cur, want, then, work, todo, attempt,
                   exchangeVars, journalVars, outboxVars, operatorVars, late>>

(* The process dies; what is durable or at the exchange stays.              *)
Crash ==
    /\ pc # "down"
    /\ Leave("down")
    /\ then' = "reconcile" /\ work' = {} /\ todo' = {} /\ blocked' = FALSE
    /\ UNCHANGED <<exchangeVars, journalVars, outboxVars, operatorVars, late>>

-----------------------------------------------------------------------------
(* The environment: the exchange and the operator. *)
ClientUnchanged == UNCHANGED <<journalVars, outboxVars, controlVars, operatorVars>>

XAccept(l) == Accept(l) /\ ClientUnchanged /\ UNCHANGED late
XRefuse(l, how) == Refuse(l, how) /\ ClientUnchanged /\ UNCHANGED late
XLose(l) == LoseRequest(l) /\ ClientUnchanged /\ UNCHANGED late
XCancel(l) == CancelRest(l) /\ ClientUnchanged /\ UNCHANGED late

ClosingStarted(l) ==
    \E m \in Sells : SymbolOf[m] = SymbolOf[l] /\ exec[m] > 0 /\ stamp[m] >= stamp[l]
XFill(l) ==
    /\ Fill(l, rowQty[l])
    /\ late' = IF l \in Buys /\ ClosingStarted(l) THEN late \cup {l} ELSE late
    /\ ClientUnchanged

SetControls(k, n) ==
    /\ <<k, n>> # <<kill, noEntry>>
    /\ kill' = k /\ noEntry' = n
    /\ killed' = IF k THEN killed ELSE {}
    /\ UNCHANGED <<exchangeVars, journalVars, outboxVars, controlVars, late>>

Cycle ==
    \/ \E b \in BOOLEAN : BeginCycle(b)
    \/ FlushUpsert \/ FlushMark \/ FlushDone \/ FlushFails
    \/ \E l \in Links : \E matches \in Sightings(l) : ReconcileRow(l, matches)
    \/ ReconcileDone
    \/ \E l \in Links : RecoverEnqueue(l)
    \/ RecoverMark \/ RecoverDone \/ ReconciliationFails
    \/ \E s \in Symbols : SettleRelease(s) \/ SettleRetain(s)
    \/ SettleDone \/ EndCycle

Submission ==
    \/ \E s \in Symbols : \/ \E n \in Notes, r \in Reasons : NoteDecision(s, n, r)
                          \/ \E e \in BOOLEAN : PairFails(s, e)
    \/ \E l \in Links, q \in 1..MaxQty, r \in Reasons : Approve(l, q, r)
    \/ PrepareIntent \/ PrepareCached \/ PrepareFails
    \/ \E listed \in SUBSET OpenBuys : RiskPass(listed)
    \/ ControlPass \/ Submit \/ BlockOrder \/ Resend
    \/ Acknowledge \/ GiveUp("none") \/ GiveUp("malformed") \/ FinishFails
    \/ Record \/ RecordFails

Environment ==
    \/ \E l \in Links : \/ XAccept(l) \/ XLose(l) \/ XFill(l) \/ XCancel(l)
                       \/ \E how \in {"stale", "denied"} : XRefuse(l, how)
    \/ \E setting \in Controls : SetControls(setting[1], setting[2])

Next == Cycle \/ Submission \/ Crash \/ Environment

Spec == Init /\ [][Next]_vars

-----------------------------------------------------------------------------
(* Safety. *)

(* An intent reaches the exchange at most once: whatever crashes, timeouts, *)
(* retries and later cycles happen, the requests of one link that can still *)
(* take effect and the orders it already created are at most one.           *)
AtMostOneOrder == \A l \in Links : flight[l] + accepted[l] <= 1

(* Every Buy that may still execute is covered by a local reservation       *)
(* (buy_reservations), and inventory is held only while a Buy that bought   *)
(* some of it still is: a reservation is never given up too early.          *)
MayExecute(l) == flight[l] > 0 \/ xstatus[l] \in OpenStatus
ExposureReserved ==
    /\ \A l \in Buys : MayExecute(l) => status[l] \in Reserving
    /\ \A s \in Symbols : wallet[s] > 0 =>
          \E l \in Buys : SymbolOf[l] = s /\ status[l] \in Reserving /\ exec[l] > 0

(* The inductive invariant.  AtMostOneOrder and ExposureReserved rest on     *)
(* where a request stands with respect to its row, and on what the process  *)
(* knows of the link it is submitting at each stage of the wrapper chain.   *)
RequestInv ==
    \A l \in Links :
        /\ flight[l] > 0 => flight[l] = 1 /\ accepted[l] = 0 /\ status[l] \in Pending
        /\ refused[l] # "no" => flight[l] = 0 /\ accepted[l] = 0
        /\ accepted[l] \in 0..1
        /\ accepted[l] = 0 <=> xstatus[l] = "none"
        /\ status[l] = "absent" => accepted[l] = 0
        /\ xstatus[l] \in {"none", "New", "Cancelled"} => exec[l] = 0

ProcessInv ==
    /\ pc \in {"prepare", "enqueued", "record"} \cup Submitting => cur \in Links
    /\ pc \in {"prepare", "record"} \cup Submitting => ctx[cur] # NoContext
    /\ pc \in Submitting => status[cur] = "prepared"
    /\ pc \in Submitting \ {"sent"} => flight[cur] = 0 /\ accepted[cur] = 0
    /\ pc = "reconcile" => work \subseteq Reconcilable
    /\ pc \in {"recover", "enqueued"} => \A l \in work : ctx[l] # NoContext

IInv == TypeOK /\ RequestInv /\ ProcessInv /\ ExposureReserved

(* The reserved quote covers the inventory, partial executions included.    *)
ReservedEnough ==
    \A s \in Symbols : wallet[s] <=
        MapThenSumSet(LAMBDA l : rowQty[l], Reservations(NoLink) \cap Of(s))

(* The symbols that are held or may come to be held by a submitted Buy      *)
(* never exceed the position cap, although the wallet and the order list    *)
(* the guard reads lag behind orders already sent.                          *)
PositionCap ==
    Cardinality(Held \cup {SymbolOf[l] : l \in {b \in Buys : MayExecute(b)}}) <= Cap

(* The reasons the remote table shows for an order are the ones committed   *)
(* before it was submitted, never those of a later evaluation of the same   *)
(* candle (capture_decision_context and _record).                           *)
OriginalReasons ==
    \A l \in Links : remote[l] # NoRecord => ctx[l] # NoContext /\ remote[l] = ctx[l].reason

(* No order leaves without its reasons on disk, for the same quantity.      *)
ReasonsBeforeOrder ==
    \A l \in Links : flight[l] + accepted[l] > 0 => ctx[l] # NoContext /\ ctx[l].qty = rowQty[l]

(* A closed Buy is not forgotten by the decision log: its record is in the  *)
(* outbox before settlement drops the row out of recover_decisions' sight.  *)
ClosedDecisionsQueued ==
    \A l \in Links : status[l] = "released_closed" => QueuedOrDelivered(l)

(* An attempt prepared under the kill switch does not reach the exchange as *)
(* long as the switch is not cleared: the file is reread at submission.     *)
Posted(l) == flight[l] + accepted[l] > 0 \/ refused[l] # "no"
KillSwitchHolds == \A l \in killed : ~Posted(l)

(* finish updates unconditionally, yet a row that left the unresolved       *)
(* statuses never returns to them and a final status never changes.         *)
Final == {"blocked", "released_unfilled", "released_closed"}
RowsOnlyAdvance ==
    [][\A l \in Links :
          /\ status[l] \in Final => status'[l] = status[l]
          /\ status[l] \in Settleable => status'[l] \notin Pending \cup {"blocked"}
          /\ status[l] \in Pending => status'[l] # "absent"]_vars

(* The executor keeps the promise of its submission journal: orders appear  *)
(* at most once, only under their own unresolved intent, and an unresolved  *)
(* intent excludes all Buys and the other orders of its symbol.             *)
Intent(l) ==
    IF status[l] = "absent" THEN "none"
    ELSE IF status[l] \in Pending THEN "unresolved" ELSE "resolved"
Promise == INSTANCE SubmissionPromise WITH
    intent <- [l \in Links |-> Intent(l)],
    orders <- accepted,
    open <- {l \in Links : xstatus[l] \in OpenStatus}
PromiseKept == Promise!Spec

-----------------------------------------------------------------------------
(* Liveness.  The timer starts the next cycle and a running process takes   *)
(* its next step (weak fairness).  Nothing is promised while calls keep     *)
(* failing, so the properties assume that faults eventually cease, that an  *)
(* order the exchange holds is eventually listed to a reconciliation that   *)
(* keeps asking, and that a proof that keeps holding is eventually read.    *)
ReconcileAny == \E l \in Links : \E matches \in Sightings(l) : ReconcileRow(l, matches)
ReconcileSees(l) == \E matches \in Sightings(l) \ {{}} : ReconcileRow(l, matches)
Settle == \E s \in Symbols : SettleRelease(s) \/ SettleRetain(s)
CalmCycle ==
    \/ \E b \in BOOLEAN : BeginCycle(b)
    \/ FlushUpsert \/ FlushMark \/ FlushDone
    \/ ReconcileAny \/ ReconcileDone
    \/ \E l \in Links : RecoverEnqueue(l)
    \/ RecoverMark \/ RecoverDone \/ Settle \/ SettleDone \/ EndCycle

FairSpec ==
    /\ Spec
    /\ WF_vars(CalmCycle) /\ WF_vars(Submission)
    /\ \A l \in Links : SF_vars(ReconcileSees(l))
    /\ \A s \in Symbols : SF_vars(SettleRelease(s))

FaultsCease == <>[][CalmCycle \/ Submission \/ Environment]_vars

(* An executed order that was acknowledged is eventually in the remote      *)
(* decision table, whatever died between its acknowledgment and its record. *)
DecisionsDelivered ==
    FaultsCease => \A l \in Links :
        (status[l] = "acknowledged" /\ exec[l] > 0) ~> (remote[l] # NoRecord)

(* An order the exchange holds does not stay uncertain: the pause of new    *)
(* entries it causes ends.                                                  *)
UncertaintyResolves ==
    FaultsCease => \A l \in Links :
        (status[l] \in Pending /\ accepted[l] > 0) ~> (status[l] \notin Pending)

(* A position bought and sold in full gives its reservation back.           *)
FullyClosed(b) ==
    /\ status[b] \in Settleable
    /\ ProvenClosed(SymbolOf[b])
ReservationsReleased ==
    FaultsCease => \A b \in Buys : FullyClosed(b) ~> status[b] = "released_closed"
=============================================================================
