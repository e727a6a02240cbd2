------------------------- MODULE LiveExecutorProofs -------------------------
(***************************************************************************)
(* Theorems about LiveExecutor, for every set of links and symbols, every  *)
(* quantity bound and every operator setting.                              *)
(*                                                                         *)
(* The forty actions change few variables each.  StepFrame says, for the   *)
(* parts of the state the invariants speak of, which operations change     *)
(* them; the step of each invariant then considers those operations only.  *)
(*                                                                         *)
(* The first part is about orders and ends in the refinement of            *)
(* SubmissionPromise, the second about decisions and the guards in front   *)
(* of an order, with a strengthening of IInv for each property.            *)
(***************************************************************************)
EXTENDS LiveExecutor, FiniteSetTheorems, FunctionTheorems, DataInduction, TLAPS

USE LinksAssumption, ExecutorAssumption
USE DEF exchangeVars, journalVars, outboxVars, controlVars, operatorVars

-----------------------------------------------------------------------------
(* Frames. *)

OutboxSteps ==
    \/ Upsert \/ MarkDelivered
    \/ \E l \in Links : RecoverEnqueue(l)
    \/ \E s \in Symbols, n \in Notes, r \in Reasons : NoteDecision(s, n, r)
    \/ Record

CoreSteps ==
    \/ \E l \in Links : \E matches \in Sightings(l) : ReconcileRow(l, matches)
    \/ RecoverMark
    \/ \E s \in Symbols : SettleRelease(s)
    \/ \E l \in Links, q \in 1..MaxQty, r \in Reasons : Approve(l, q, r)
    \/ PrepareIntent \/ Submit \/ Resend
    \/ BlockOrder \/ Acknowledge \/ GiveUp("none") \/ GiveUp("malformed")
    \/ \E l \in Links : \/ XAccept(l) \/ XLose(l) \/ XFill(l) \/ XCancel(l)
                        \/ \E how \in {"stale", "denied"} : XRefuse(l, how)

BlockedSteps ==
    \/ \E b \in BOOLEAN : blocked' = b \/ blocked' = (blocked \/ b)
    \/ blocked' = (blocked \/ backlog # <<>>)

Frames ==
    /\ UNCHANGED outboxVars \/ OutboxSteps
    /\ UNCHANGED enqueued \/ RecoverMark
    /\ UNCHANGED blocked \/ BlockedSteps
    /\ UNCHANGED <<kill, noEntry>> \/ \E setting \in Controls : SetControls(setting[1], setting[2])
    /\ UNCHANGED <<exchangeVars, journalVars>> \/ CoreSteps

(* Every step of the cycle, of a submission, of the exchange, of the        *)
(* operator, and a crash, changes the five parts only as Frames says.       *)
LEMMA StepFrame == [Next]_vars => Frames
<1> USE DEF Frames, OutboxSteps, CoreSteps, BlockedSteps
<1>1. ASSUME Cycle PROVE Frames
  BY <1>1 DEF Cycle, BeginCycle, FlushUpsert, FlushMark, FlushDone, FlushFails, AfterFlush,
              ReconcileRow, ApplyObservation, Finish, ReconcileDone, RecoverEnqueue, RecoverMark,
              MarkEnqueued, RecoverDone, ReconciliationFails, SettleRelease, ReleaseCohort,
              SettleRetain, SettleDone, EndCycle
<1>2. ASSUME Submission PROVE Frames
  BY <1>2 DEF Submission, NoteDecision, PairFails, Approve, CaptureContext, PrepareIntent,
              InsertIntent, PrepareCached, PrepareFails, RiskPass, ControlPass, Submit,
              BlockOrder, Finish, Resend, Acknowledge, GiveUp, FinishFails, Record, RecordFails
<1>3. ASSUME Environment PROVE Frames
  BY <1>3 DEF Environment, XAccept, XLose, XFill, XCancel, XRefuse, SetControls,
              ClientUnchanged
<1>4. ASSUME Crash \/ UNCHANGED vars PROVE Frames
  BY <1>4 DEF Crash, vars
<1> QED
  BY <1>1, <1>2, <1>3, <1>4 DEF Next

(* The queue and the remote table keep their types: only records of known   *)
(* links or notes, with committed reasons, are enqueued.                    *)
LEMMA OutboxStep ==
  ASSUME TypeOK, ProcessInv, [Next]_vars
  PROVE  OutboxTypeOK'
<1> USE DEF TypeOK, OutboxTypeOK
<1>1. CASE UNCHANGED outboxVars
  BY <1>1
<1>2. CASE Upsert
  <2>1. Head(backlog) \in Receipts
    BY <1>2 DEF Upsert
  <2> QED
    BY <1>2, <2>1 DEF Upsert, Receipts
<1>3. CASE MarkDelivered
  BY <1>3 DEF MarkDelivered
<1>4. ASSUME NEW r \in Receipts, Enqueue(r) PROVE OutboxTypeOK'
  BY <1>4 DEF Enqueue
<1>5. ASSUME NEW l \in Links, ctx[l] # NoContext, NEW o \in Origins
      PROVE  [key |-> l, origin |-> o, reason |-> ctx[l].reason] \in Receipts
  BY <1>5 DEF JournalTypeOK, Receipts
<1>6. ASSUME NEW l \in Links, RecoverEnqueue(l) PROVE OutboxTypeOK'
  <2>1. ctx[l] # NoContext
    BY <1>6 DEF RecoverEnqueue, ProcessInv
  <2> QED
    BY <2>1, <1>4, <1>5, <1>6 DEF RecoverEnqueue, Origins
<1>7. ASSUME NEW s \in Symbols, NEW n \in Notes, NEW r \in Reasons, NoteDecision(s, n, r)
      PROVE  OutboxTypeOK'
  <2>1. [key |-> n, origin |-> "note", reason |-> r] \in Receipts
    BY DEF Receipts, Origins
  <2> QED
    BY <2>1, <1>4, <1>7 DEF NoteDecision
<1>8. CASE Record
  <2>1. cur \in Links /\ ctx[cur] # NoContext
    BY <1>8 DEF Record, ProcessInv
  <2> QED
    BY <2>1, <1>4, <1>5, <1>8 DEF Record, Origins
<1> QED
  BY <1>1, <1>2, <1>3, <1>6, <1>7, <1>8, StepFrame DEF Frames, OutboxSteps

(* The Boolean columns and flags stay Boolean.                              *)
LEMMA FlagsStep ==
  ASSUME TypeOK, [Next]_vars
  PROVE  FlagsTypeOK'
<1> USE DEF TypeOK, FlagsTypeOK
<1>1. UNCHANGED enqueued \/ RecoverMark
  BY StepFrame DEF Frames
<1>2. enqueued' \in [Links -> BOOLEAN]
  <2>1. CASE UNCHANGED enqueued
    BY <2>1, Zenon
  <2>2. CASE RecoverMark
    <3>1. enqueued' = [enqueued EXCEPT ![cur] = TRUE]
      BY <2>2 DEF RecoverMark, MarkEnqueued
    <3> QED
      BY <3>1, Zenon
  <2> QED
    BY <1>1, <2>1, <2>2
<1>3. UNCHANGED blocked \/ BlockedSteps
  BY StepFrame DEF Frames
<1>4. blocked' \in BOOLEAN
  BY <1>3, Zenon DEF BlockedSteps
<1>5. UNCHANGED <<kill, noEntry>> \/ \E setting \in Controls : SetControls(setting[1], setting[2])
  BY StepFrame DEF Frames
<1>6. kill' \in BOOLEAN /\ noEntry' \in BOOLEAN
  <2>1. CASE UNCHANGED <<kill, noEntry>>
    BY <2>1
  <2>2. ASSUME NEW setting \in Controls, SetControls(setting[1], setting[2])
        PROVE  kill' \in BOOLEAN /\ noEntry' \in BOOLEAN
    BY <2>2, Zenon DEF SetControls
  <2> QED
    BY <1>5, <2>1, <2>2
<1> QED
  BY <1>2, <1>4, <1>6

-----------------------------------------------------------------------------
(* Requests, rows and reservations. *)

Core == ExchangeTypeOK /\ JournalTypeOK /\ RequestInv /\ ExposureReserved

(* A step keeps at most one request or order per link under its pending     *)
(* row, and every executable or held Buy reserved.                          *)
LEMMA CoreStep ==
  ASSUME Core, ControlTypeOK, ProcessInv, [Next]_vars
  PROVE  Core'
<1> USE DEF Core, ExchangeTypeOK, JournalTypeOK, RequestInv, ExposureReserved, MayExecute,
            Pending, Settleable, Reserving, Statuses, Responses,
            Refusals, OpenStatus, ZeroFillStatus, FilledStatus, OrderStatus
<1>1. CASE UNCHANGED <<exchangeVars, journalVars>>
  BY <1>1
<1>2. ASSUME NEW l \in Links, XAccept(l) PROVE Core'
  <2>1. flight[l] = 1 /\ accepted[l] = 0 /\ status[l] \in Pending
    BY <1>2 DEF XAccept, Accept
  <2>2. /\ flight' = [flight EXCEPT ![l] = 0]
        /\ accepted' = [accepted EXCEPT ![l] = 1]
        /\ xstatus' = [xstatus EXCEPT ![l] = "New"]
        /\ UNCHANGED <<refused, exec, wallet, journalVars>>
    BY <1>2, <2>1 DEF XAccept, Accept, ClientUnchanged
  <2>3. ExchangeTypeOK' /\ JournalTypeOK'
    BY <2>2
  <2>4. RequestInv'
    BY <2>1, <2>2
  <2>5. ExposureReserved'
    BY <2>1, <2>2
  <2> QED
    BY <2>3, <2>4, <2>5
<1>3. ASSUME NEW l \in Links, NEW how \in {"stale", "denied"}, XRefuse(l, how) PROVE Core'
  BY <1>3 DEF XRefuse, Refuse, ClientUnchanged
<1>4. ASSUME NEW l \in Links, XLose(l) PROVE Core'
  BY <1>4 DEF XLose, LoseRequest, ClientUnchanged
<1>5. ASSUME NEW l \in Links, XCancel(l) PROVE Core'
  BY <1>5 DEF XCancel, CancelRest, ClientUnchanged
<1>6. ASSUME NEW l \in Links, XFill(l) PROVE Core'
  BY <1>6 DEF XFill, Fill, Sells, ClientUnchanged
<1>7. CASE Submit \/ Resend
  <2>1. /\ cur \in Links
        /\ flight[cur] = 0 /\ accepted[cur] = 0 /\ status[cur] = "prepared"
    BY <1>7 DEF Submit, Resend, ProcessInv, Submitting
  <2>2. /\ flight' = [flight EXCEPT ![cur] = 1]
        /\ refused' = [refused EXCEPT ![cur] = "no"]
        /\ UNCHANGED <<accepted, xstatus, exec, wallet, journalVars>>
    BY <1>7, <2>1 DEF Submit, Resend, PostRequest
  <2>3. ExchangeTypeOK' /\ JournalTypeOK'
    BY <2>2
  <2>4. RequestInv'
    BY <2>1, <2>2
  <2>5. ExposureReserved'
    BY <2>1, <2>2
  <2> QED
    BY <2>3, <2>4, <2>5
<1>8. CASE BlockOrder
  BY <1>8 DEF BlockOrder, Finish, ProcessInv, Submitting
<1>9. CASE Acknowledge
  BY <1>9 DEF Acknowledge, Finish, ProcessInv, Submitting
<1>10. ASSUME NEW resp \in {"none", "malformed"}, GiveUp(resp) PROVE Core'
  BY <1>10 DEF GiveUp, Finish, ProcessInv, Submitting
<1>11. CASE PrepareIntent
  <2>1. NextStamp \in Nat
    <3>1. IsFiniteSet({m \in Links : status[m] # "absent"})
      BY FS_Subset
    <3> QED
      BY <3>1, FS_CardinalityType DEF NextStamp
  <2>2. /\ status[cur] = "absent"
        /\ status' = [status EXCEPT ![cur] = "prepared"]
        /\ rowQty' = [rowQty EXCEPT ![cur] = want]
        /\ stamp' = [stamp EXCEPT ![cur] = NextStamp]
        /\ UNCHANGED <<response, ctx, enqueued, exchangeVars>>
    BY <1>11 DEF PrepareIntent, InsertIntent
  <2>3. ExchangeTypeOK' /\ JournalTypeOK'
    BY <2>1, <2>2 DEF ControlTypeOK
  <2>4. RequestInv'
    BY <2>2
  <2>5. ExposureReserved'
    BY <2>2
  <2> QED
    BY <2>3, <2>4, <2>5
<1>12. ASSUME NEW l \in Links, NEW q \in 1..MaxQty, NEW r \in Reasons, Approve(l, q, r) PROVE Core'
  BY <1>12 DEF Approve, CaptureContext
<1>13. ASSUME NEW s \in Symbols, SettleRelease(s) PROVE Core'
  <2>1. /\ \A l \in Cohort(s) : /\ l \in Buys /\ SymbolOf[l] = s /\ status[l] \in Settleable
                                /\ xstatus[l] \in FilledStatus
        /\ wallet[s] = 0
    BY <1>13 DEF SettleRelease, ProvenClosed, Cohort, Of
  <2>2. /\ status' = [l \in Links |-> IF l \in Cohort(s) THEN "released_closed" ELSE status[l]]
        /\ response' = [l \in Links |-> IF l \in Cohort(s) THEN "proof" ELSE response[l]]
        /\ UNCHANGED <<rowQty, stamp, ctx, enqueued, exchangeVars>>
    BY <1>13 DEF SettleRelease, ReleaseCohort
  <2> HIDE DEF Cohort
  <2>3. ExchangeTypeOK' /\ JournalTypeOK'
    BY <2>2
  <2>4. RequestInv'
    BY <2>1, <2>2
  <2>5. ASSUME NEW t \in Symbols, wallet'[t] > 0
        PROVE  \E l \in Buys : SymbolOf[l] = t /\ status'[l] \in Reserving /\ exec'[l] > 0
    <3>1. PICK l \in Buys : SymbolOf[l] = t /\ status[l] \in Reserving /\ exec[l] > 0
      BY <2>2, <2>5
    <3>2. l \notin Cohort(s)
      BY <2>1, <2>2, <2>5, <3>1
    <3> QED
      BY <2>2, <3>1, <3>2
  <2>6. ExposureReserved'
    BY <2>1, <2>2, <2>5
  <2> QED
    BY <2>3, <2>4, <2>6
<1>14. CASE RecoverMark
  BY <1>14 DEF RecoverMark, MarkEnqueued
<1>15. ASSUME NEW l \in Links, NEW matches \in Sightings(l), ReconcileRow(l, matches) PROVE Core'
  BY <1>15 DEF Sightings, ReconcileRow, ApplyObservation, Finish, ZeroFill, ProcessInv, Reconcilable
<1> QED
  BY <1>1, <1>2, <1>3, <1>4, <1>5, <1>6, <1>7, <1>8, <1>9, <1>10, <1>11, <1>12, <1>13, <1>14, <1>15,
     StepFrame, SMTT(20) DEF Frames, CoreSteps

-----------------------------------------------------------------------------
(* The process. *)

Process == ControlTypeOK /\ ProcessInv

(* A step keeps what the process knows at each stage: the row of the link   *)
(* being submitted is prepared and nothing was sent before the POST.        *)
LEMMA ProcessStep ==
  ASSUME TypeOK, RequestInv, ProcessInv, [Next]_vars
  PROVE  Process'
<1> USE DEF Process, TypeOK, ExchangeTypeOK, JournalTypeOK, ControlTypeOK, ProcessInv, Stages,
            Submitting, Leave, RequestInv, Pending
<1>1. ASSUME NEW b \in BOOLEAN, BeginCycle(b) PROVE Process'
  BY <1>1 DEF BeginCycle
<1>2. CASE FlushUpsert \/ FlushMark
  BY <1>2 DEF FlushUpsert, FlushMark
<1>3. CASE FlushDone \/ FlushFails
  BY <1>3 DEF FlushDone, FlushFails, AfterFlush, Reconcilable
<1>4. ASSUME NEW l \in Links, NEW matches \in Sightings(l), ReconcileRow(l, matches) PROVE Process'
  BY <1>4 DEF ReconcileRow, ApplyObservation, Finish, Reconcilable
<1>5. CASE ReconcileDone
  BY <1>5 DEF ReconcileDone, Recoverable
<1>6. ASSUME NEW l \in Links, RecoverEnqueue(l) PROVE Process'
  BY <1>6 DEF RecoverEnqueue
<1>7. CASE RecoverMark
  BY <1>7 DEF RecoverMark, MarkEnqueued
<1>8. CASE RecoverDone \/ ReconciliationFails
  BY <1>8 DEF RecoverDone, ReconciliationFails
<1>9. ASSUME NEW s \in Symbols, SettleRelease(s) \/ SettleRetain(s) PROVE Process'
  BY <1>9 DEF SettleRelease, SettleRetain
<1>10. CASE SettleDone \/ EndCycle \/ Crash
  BY <1>10 DEF SettleDone, EndCycle, Crash
<1>11. ASSUME NEW s \in Symbols, NEW n \in Notes, NEW r \in Reasons, NoteDecision(s, n, r)
       PROVE  Process'
  BY <1>11 DEF NoteDecision
<1>12. ASSUME NEW s \in Symbols, NEW e \in BOOLEAN, PairFails(s, e) PROVE Process'
  BY <1>12 DEF PairFails
<1>13. ASSUME NEW l \in Links, NEW q \in 1..MaxQty, NEW r \in Reasons, Approve(l, q, r)
       PROVE  Process'
  BY <1>13 DEF Approve, CaptureContext
<1>14. CASE PrepareIntent
  BY <1>14 DEF PrepareIntent, InsertIntent
<1>15. CASE PrepareCached \/ PrepareFails
  BY <1>15 DEF PrepareCached, PrepareFails
<1>16. ASSUME NEW listed \in SUBSET OpenBuys, RiskPass(listed) PROVE Process'
  BY <1>16 DEF RiskPass
<1>17. CASE ControlPass
  BY <1>17 DEF ControlPass
<1>18. CASE Submit \/ Resend
  BY <1>18 DEF Submit, Resend, PostRequest
<1>19. CASE BlockOrder \/ FinishFails
  BY <1>19 DEF BlockOrder, FinishFails
<1>20. CASE Acknowledge
  BY <1>20 DEF Acknowledge, Finish
<1>21. CASE GiveUp("none") \/ GiveUp("malformed")
  BY <1>21 DEF GiveUp
<1>22. CASE Record \/ RecordFails
  BY <1>22 DEF Record, RecordFails
<1>23. ASSUME NEW l \in Links, XAccept(l) PROVE Process'
  <2>1. /\ flight[l] > 0
        /\ flight' = [flight EXCEPT ![l] = @ - 1]
        /\ accepted' = [accepted EXCEPT ![l] = @ + 1]
        /\ UNCHANGED <<journalVars, controlVars, killed, late>>
    BY <1>23 DEF XAccept, Accept, ClientUnchanged
  <2>2. ControlTypeOK'
    BY <2>1
  <2>3. pc \in Submitting \ {"sent"} => l # cur
    BY <2>1
  <2>4. ProcessInv'
    BY <2>1, <2>3 DEF Reconcilable
  <2> QED
    BY <2>2, <2>4
<1>24. ASSUME NEW l \in Links, NEW how \in {"stale", "denied"}, XRefuse(l, how) PROVE Process'
  BY <1>24 DEF XRefuse, Refuse, ClientUnchanged, Reconcilable
<1>25. ASSUME NEW l \in Links, XLose(l) PROVE Process'
  BY <1>25 DEF XLose, LoseRequest, ClientUnchanged, Reconcilable
<1>26. ASSUME NEW l \in Links, XFill(l) PROVE Process'
  BY <1>26 DEF XFill, Fill, ClientUnchanged, Reconcilable
<1>27. ASSUME NEW l \in Links, XCancel(l) PROVE Process'
  BY <1>27 DEF XCancel, CancelRest, ClientUnchanged, Reconcilable
<1>28. ASSUME NEW k \in BOOLEAN, NEW n \in BOOLEAN, SetControls(k, n) PROVE Process'
  BY <1>28 DEF SetControls, Reconcilable
<1>29. CASE UNCHANGED vars
  BY <1>29 DEF vars, Reconcilable
<1> HIDE DEF Process, TypeOK, ExchangeTypeOK, JournalTypeOK, ControlTypeOK, ProcessInv, Stages,
             Submitting, Leave, RequestInv, Pending
<1>30. CASE Cycle
  BY <1>1, <1>2, <1>3, <1>4, <1>5, <1>6, <1>7, <1>8, <1>9, <1>10, <1>30 DEF Cycle
<1>31. CASE Submission
  BY <1>11, <1>12, <1>13, <1>14, <1>15, <1>16, <1>17, <1>18, <1>19, <1>20, <1>21, <1>22, <1>31
     DEF Submission
<1>32. CASE Environment
  BY <1>23, <1>24, <1>25, <1>26, <1>27, <1>28, <1>32 DEF Environment
<1> QED
  BY <1>10, <1>29, <1>30, <1>31, <1>32 DEF Next

-----------------------------------------------------------------------------
(* The empty journal, the empty queue and a process that is down.           *)
LEMMA InitIInv == Init => IInv
<1> SUFFICES ASSUME Init PROVE IInv
  OBVIOUS
<1>1. ExchangeTypeOK
  BY DEF Init, ExchangeInit, ExchangeTypeOK, Refusals, OrderStatus
<1>2. JournalTypeOK
  BY DEF Init, JournalInit, JournalTypeOK, Statuses, Responses
<1>3. OutboxTypeOK
  BY DEF Init, OutboxInit, OutboxTypeOK
<1>4. ControlTypeOK
  BY DEF Init, ControlTypeOK, Stages
<1>5. FlagsTypeOK
  BY Zenon DEF Init, JournalInit, FlagsTypeOK
<1>6. RequestInv
  BY DEF Init, ExchangeInit, JournalInit, RequestInv
<1>7. ProcessInv
  BY DEF Init, ProcessInv, Submitting
<1>8. ExposureReserved
  BY DEF Init, ExchangeInit, ExposureReserved, MayExecute, OpenStatus
<1> QED
  BY <1>1, <1>2, <1>3, <1>4, <1>5, <1>6, <1>7, <1>8 DEF IInv, TypeOK

(* IInv is inductive.                                                       *)
LEMMA NextIInv == IInv /\ [Next]_vars => IInv'
<1> SUFFICES ASSUME IInv, [Next]_vars PROVE IInv'
  OBVIOUS
<1> USE DEF IInv
<1>1. Core'
  BY CoreStep DEF Core, TypeOK
<1>2. Process'
  BY ProcessStep
<1>3. OutboxTypeOK' /\ FlagsTypeOK'
  BY OutboxStep, FlagsStep
<1> QED
  BY <1>1, <1>2, <1>3 DEF Core, Process, TypeOK

(* The inductive invariant holds in every state of every behaviour.         *)
THEOREM Inductive == Spec => []IInv
<1> QED
  BY InitIInv, NextIInv, PTL DEF Spec

(* The journal's columns, the queue, the exchange and the process keep      *)
(* their types.                                                             *)
THEOREM TypeCorrect == Spec => []TypeOK
<1>1. IInv => TypeOK
  BY DEF IInv
<1> QED
  BY <1>1, Inductive, PTL

(* One intent reaches the exchange at most once, whatever crashes, lost     *)
(* answers, retries and later cycles happen (order_submission_journal.py).  *)
THEOREM AtMostOneOrderHolds == Spec => []AtMostOneOrder
<1>1. IInv => AtMostOneOrder
  BY DEF IInv, TypeOK, ExchangeTypeOK, RequestInv, AtMostOneOrder
<1> QED
  BY <1>1, Inductive, PTL

(* A Buy that may execute, and inventory a Buy bought, is covered by a local*)
(* reservation: buy_reservations never forgets exposure too early.          *)
THEOREM ExposureReservedHolds == Spec => []ExposureReserved
<1>1. IInv => ExposureReserved
  BY DEF IInv
<1> QED
  BY <1>1, Inductive, PTL

-----------------------------------------------------------------------------
(* Rows only advance. *)

StatusAdvances ==
    \A l \in Links :
        /\ status[l] \in Final => status'[l] = status[l]
        /\ status[l] \in Settleable => status'[l] \notin Pending \cup {"blocked"}
        /\ status[l] \in Pending => status'[l] # "absent"

(* One step moves a row's status forward or leaves it.                      *)
LEMMA StatusStep == IInv /\ [Next]_vars => StatusAdvances
<1> SUFFICES ASSUME IInv, [Next]_vars PROVE StatusAdvances
  OBVIOUS
<1> USE DEF StatusAdvances, Final, Pending, Settleable, IInv, TypeOK, JournalTypeOK, ProcessInv,
            Submitting
<1>1. CASE UNCHANGED status
  BY <1>1
<1>2. CASE BlockOrder \/ Acknowledge \/ GiveUp("none") \/ GiveUp("malformed")
  BY <1>2 DEF BlockOrder, Acknowledge, GiveUp, Finish
<1>3. CASE PrepareIntent
  BY <1>3 DEF PrepareIntent, InsertIntent
<1>4. ASSUME NEW s \in Symbols, SettleRelease(s) PROVE StatusAdvances
  BY <1>4 DEF SettleRelease, ReleaseCohort
<1>5. ASSUME NEW l \in Links, NEW matches \in Sightings(l), ReconcileRow(l, matches)
      PROVE  StatusAdvances
  BY <1>5 DEF ReconcileRow, ApplyObservation, Finish, Reconcilable, Reserving
<1> QED
  <2>1. \/ UNCHANGED status
        \/ BlockOrder \/ Acknowledge \/ GiveUp("none") \/ GiveUp("malformed") \/ PrepareIntent
        \/ \E s \in Symbols : SettleRelease(s)
        \/ \E l \in Links : \E matches \in Sightings(l) : ReconcileRow(l, matches)
    BY StepFrame DEF Frames, CoreSteps, RecoverMark, MarkEnqueued, Approve, CaptureContext, Submit,
       Resend, XAccept, XLose, XFill, XCancel, XRefuse, ClientUnchanged
  <2> QED
    BY <2>1, <1>1, <1>2, <1>3, <1>4, <1>5

(* A final status never changes and an unresolved one is never returned to: *)
(* although finish is an unconditional UPDATE (RowsOnlyAdvance).            *)
THEOREM RowsOnlyAdvanceHolds == Spec => RowsOnlyAdvance
<1>1. IInv /\ [Next]_vars => [StatusAdvances]_vars
  BY StatusStep
<1> QED
  BY <1>1, Inductive, PTL DEF Spec, RowsOnlyAdvance, StatusAdvances

-----------------------------------------------------------------------------
(* The journal's promise is kept. *)

(* Initial states map to initial states of the promise.                     *)
LEMMA InitPromise == Init => Promise!Init
BY DEF Init, ExchangeInit, JournalInit, Promise!Init, Intent, OpenStatus

(* Every step maps to a commit, a placement, a resolution or a termination  *)
(* of the promise, or to a stutter.                                         *)
LEMMA PromiseStep == IInv /\ [Next]_vars => [Promise!Next]_(Promise!vars)
<1> SUFFICES ASSUME IInv, [Next]_vars PROVE [Promise!Next]_(Promise!vars)
  OBVIOUS
<1> USE DEF Promise!vars, Promise!Next, IInv, TypeOK, ExchangeTypeOK, JournalTypeOK
<1> DEFINE Stutter == UNCHANGED <<[l \in Links |-> Intent(l)], accepted,
                                  {l \in Links : xstatus[l] \in OpenStatus}>>
<1>1. CASE UNCHANGED <<status, accepted, xstatus>>
  BY <1>1 DEF Intent
<1>2. CASE PrepareIntent
  <2>1. /\ cur \in Links /\ status[cur] = "absent" /\ ~Blocks(cur)
        /\ status' = [status EXCEPT ![cur] = "prepared"]
        /\ UNCHANGED <<accepted, xstatus>>
    BY <1>2 DEF PrepareIntent, InsertIntent, ProcessInv
  <2>2. \A m \in Links : ~Promise!Excludes(m, cur)
    BY <2>1 DEF Promise!Excludes, Blocks, Unresolved, Intent
  <2>3. Promise!Commit(cur)
    BY <2>1, <2>2 DEF Promise!Commit, Intent, Pending
  <2> QED
    BY <2>1, <2>3
<1>3. ASSUME NEW l \in Links, XAccept(l) PROVE Promise!Place(l)
  <2>1. status[l] \in Pending /\ accepted[l] = 0
    BY <1>3 DEF XAccept, Accept, RequestInv
  <2>2. /\ accepted' = [accepted EXCEPT ![l] = 1]
        /\ xstatus' = [xstatus EXCEPT ![l] = "New"]
        /\ UNCHANGED status
    BY <1>3, <2>1 DEF XAccept, Accept, ClientUnchanged
  <2> QED
    BY <2>1, <2>2 DEF Promise!Place, Intent, OpenStatus, Pending
<1>4. ASSUME NEW l \in Links, XFill(l) \/ XCancel(l) PROVE Stutter \/ Promise!Terminate(l)
  <2>1. /\ xstatus[l] \in OpenStatus
        /\ \E st \in OrderStatus : xstatus' = [xstatus EXCEPT ![l] = st]
        /\ UNCHANGED <<accepted, status>>
    BY <1>4 DEF XFill, Fill, XCancel, CancelRest, ClientUnchanged, OrderStatus, OpenStatus,
                FilledStatus, ZeroFillStatus
  <2> QED
    BY <2>1 DEF Promise!Terminate, Intent
<1>5. CASE BlockOrder \/ Acknowledge
  <2>1. /\ cur \in Links /\ status[cur] = "prepared"
        /\ \E st \in {"blocked", "acknowledged"} : status' = [status EXCEPT ![cur] = st]
        /\ UNCHANGED <<accepted, xstatus>>
    BY <1>5 DEF BlockOrder, Acknowledge, Finish, ProcessInv, Submitting
  <2>2. Promise!Resolve(cur)
    BY <2>1 DEF Promise!Resolve, Intent, Pending
  <2> QED
    BY <2>1, <2>2
<1>6. CASE GiveUp("none") \/ GiveUp("malformed")
  BY <1>6 DEF GiveUp, Finish, ProcessInv, Submitting, Intent, Pending
<1>7. ASSUME NEW s \in Symbols, SettleRelease(s) PROVE Stutter
  BY <1>7 DEF SettleRelease, ReleaseCohort, Intent, Settleable, Pending
<1>8. ASSUME NEW l \in Links, NEW matches \in Sightings(l), ReconcileRow(l, matches)
      PROVE  Stutter \/ Promise!Resolve(l)
  <2>1. CASE UNCHANGED status
    BY <1>8, <2>1 DEF ReconcileRow, Intent
  <2>2. CASE \E st \in {"released_unfilled", "observed"} : status' = [status EXCEPT ![l] = st]
    <3>1. status[l] \in Reserving /\ UNCHANGED <<accepted, xstatus>>
      BY <1>8 DEF ReconcileRow, ProcessInv, Reconcilable
    <3> QED
      BY <2>2, <3>1 DEF Promise!Resolve, Intent, Pending, Settleable, Reserving
  <2> QED
    BY <1>8, <2>1, <2>2 DEF ReconcileRow, ApplyObservation, Finish
<1> QED
  <2>1. \/ UNCHANGED <<status, accepted, xstatus>>
        \/ BlockOrder \/ Acknowledge \/ GiveUp("none") \/ GiveUp("malformed") \/ PrepareIntent
        \/ \E s \in Symbols : SettleRelease(s)
        \/ \E l \in Links : \/ \E matches \in Sightings(l) : ReconcileRow(l, matches)
                            \/ XAccept(l) \/ XFill(l) \/ XCancel(l)
    BY StepFrame DEF Frames, CoreSteps, RecoverMark, MarkEnqueued, Approve, CaptureContext, Submit,
       Resend, PostRequest, XLose, LoseRequest, XRefuse, Refuse, ClientUnchanged
  <2> QED
    BY <2>1, <1>1, <1>2, <1>3, <1>4, <1>5, <1>6, <1>7, <1>8

(* The executor implements SubmissionPromise under the mapping of the row's *)
(* status to an intent and of the exchange's orders to placed orders.       *)
THEOREM KeepsPromise == Spec => PromiseKept
<1> QED
  BY InitPromise, PromiseStep, Inductive, PTL DEF Spec, PromiseKept, Promise!Spec

-----------------------------------------------------------------------------
(* Where the stages are entered from. *)

Stays == UNCHANGED <<pc, cur, want>>

Entries ==
    /\ pc' = "prepare" => Stays \/ \E l \in Links, q \in 1..MaxQty, r \in Reasons : Approve(l, q, r)
    /\ pc' = "control" => Stays \/ \E listed \in SUBSET OpenBuys : RiskPass(listed)
    /\ pc' = "account" => Stays \/ ControlPass
    /\ pc' = "sent" => Stays \/ Submit

(* A stage of the wrapper chain is entered only from the one before it.     *)
LEMMA EntryFrame ==
  ASSUME ControlTypeOK, [Next]_vars
  PROVE  Entries
<1> USE DEF Entries, Stays, Leave
<1>1. ASSUME Cycle PROVE Entries
  BY <1>1 DEF Cycle, BeginCycle, FlushUpsert, FlushMark, FlushDone, FlushFails, AfterFlush,
              ReconcileRow, ReconcileDone, RecoverEnqueue, RecoverMark,
              RecoverDone, ReconciliationFails, SettleRelease, SettleRetain, SettleDone, EndCycle,
              ControlTypeOK
<1>2. ASSUME Submission PROVE Entries
  <2>1. ASSUME NEW l \in Links, NEW q \in 1..MaxQty, NEW r \in Reasons, Approve(l, q, r)
        PROVE  pc' = "prepare"
    BY <2>1 DEF Approve
  <2>2. ASSUME NEW listed \in SUBSET OpenBuys, RiskPass(listed) PROVE pc' = "control"
    BY <2>2 DEF RiskPass
  <2>3. /\ ControlPass => pc' = "account"
        /\ Submit => pc' = "sent"
    BY DEF ControlPass, Submit
  <2> QED
    BY <1>2, <2>1, <2>2, <2>3
       DEF Submission, NoteDecision, PairFails, PrepareIntent, PrepareCached, PrepareFails,
           Resend, BlockOrder, Acknowledge, GiveUp, FinishFails, Record, RecordFails
<1>3. ASSUME Environment PROVE Entries
  BY <1>3 DEF Environment, XAccept, XLose, XFill, XCancel, XRefuse, SetControls,
              ClientUnchanged
<1>4. ASSUME Crash \/ UNCHANGED vars PROVE Entries
  BY <1>4 DEF Crash, vars
<1> QED
  BY <1>1, <1>2, <1>3, <1>4 DEF Next

StatusSteps ==
    \/ BlockOrder \/ Acknowledge \/ GiveUp("none") \/ GiveUp("malformed") \/ PrepareIntent
    \/ \E s \in Symbols : SettleRelease(s)
    \/ \E l \in Links : \E matches \in Sightings(l) : ReconcileRow(l, matches)

(* The status of a row is changed by these operations only.                 *)
LEMMA StatusFrame == [Next]_vars => UNCHANGED status \/ StatusSteps
BY StepFrame DEF Frames, CoreSteps, StatusSteps, RecoverMark, MarkEnqueued, Approve,
   CaptureContext, Submit, Resend, XAccept, XLose, XFill, XCancel, XRefuse, ClientUnchanged

(* The committed reasons change by an approval, the quantity of a row when  *)
(* it is prepared.                                                          *)
LEMMA ContextFrame ==
  [Next]_vars => \/ UNCHANGED <<ctx, rowQty>>
                 \/ PrepareIntent
                 \/ \E l \in Links, q \in 1..MaxQty, r \in Reasons : Approve(l, q, r)
BY StepFrame DEF Frames, CoreSteps, RecoverMark, MarkEnqueued, Submit, Resend, BlockOrder,
   Acknowledge, GiveUp, Finish, SettleRelease, ReleaseCohort, ReconcileRow, ApplyObservation,
   XAccept, XLose, XFill, XCancel, XRefuse, ClientUnchanged

-----------------------------------------------------------------------------
(* Reasons before orders. *)

ReasonInv ==
    /\ \A l \in Links : status[l] # "absent" => ctx[l] # NoContext /\ ctx[l].qty = rowQty[l]
    /\ pc = "prepare" => ctx[cur].qty = want

(* A row is prepared for the quantity of the context committed before it,   *)
(* and neither changes afterwards.                                          *)
LEMMA ReasonStep ==
  ASSUME IInv, ReasonInv, [Next]_vars
  PROVE  ReasonInv'
<1> USE DEF IInv, TypeOK, JournalTypeOK, ControlTypeOK, ProcessInv, ReasonInv
<1>1. ASSUME NEW l \in Links, NEW q \in 1..MaxQty, NEW r \in Reasons, Approve(l, q, r)
      PROVE  ReasonInv'
  BY <1>1 DEF Approve, CaptureContext, ContextConflict
<1>2. CASE PrepareIntent
  BY <1>2 DEF PrepareIntent, InsertIntent
<1>3. CASE UNCHANGED <<ctx, rowQty>>
  <2>1. pc' = "prepare" => (pc = "prepare" /\ UNCHANGED <<cur, want>>) \/ ReasonInv'
    BY <1>1, EntryFrame DEF Entries, Stays
  <2>2. ASSUME NEW l \in Links PROVE status'[l] # "absent" => (status[l] # "absent" \/ PrepareIntent)
    <3>1. CASE UNCHANGED status
      BY <3>1
    <3>2. CASE BlockOrder \/ Acknowledge \/ GiveUp("none") \/ GiveUp("malformed")
      BY <3>2 DEF BlockOrder, Acknowledge, GiveUp, Finish, Submitting
    <3>3. ASSUME NEW s \in Symbols, SettleRelease(s)
          PROVE  status'[l] # "absent" => status[l] # "absent"
      BY <3>3 DEF SettleRelease, ReleaseCohort, Settleable
    <3>4. ASSUME NEW m \in Links, NEW matches \in Sightings(m), ReconcileRow(m, matches)
          PROVE  status'[l] # "absent" => status[l] # "absent"
      BY <3>4 DEF ReconcileRow, ApplyObservation, Finish, Reconcilable, Reserving, Pending, Settleable
    <3> QED
      BY <3>1, <3>2, <3>3, <3>4, StatusFrame DEF StatusSteps
  <2> QED
    BY <1>2, <1>3, <2>1, <2>2
<1> QED
  BY <1>1, <1>2, <1>3, ContextFrame

(* No order leaves without its reasons on disk, for the same quantity       *)
(* (capture_decision_context precedes prepare): ReasonsBeforeOrder.         *)
THEOREM ReasonsBeforeOrderHolds == Spec => []ReasonsBeforeOrder
<1>1. Init => ReasonInv
  BY DEF Init, JournalInit, ReasonInv
<1>2. IInv /\ ReasonInv /\ [Next]_vars => ReasonInv'
  BY ReasonStep
<1>3. IInv /\ ReasonInv => ReasonsBeforeOrder
  BY DEF IInv, TypeOK, ExchangeTypeOK, JournalTypeOK, RequestInv, ReasonInv, ReasonsBeforeOrder,
         Pending
<1> QED
  BY <1>1, <1>2, <1>3, Inductive, PTL DEF Spec

-----------------------------------------------------------------------------
(* The kill switch. *)

KillInv ==
    /\ killed # {} => kill
    /\ pc \in {"account", "sent"} => cur \notin killed
    /\ KillSwitchHolds
    /\ \A l \in Links : status[l] = "absent" => ~Posted(l)

(* The links prepared under a switch change when one is prepared or the     *)
(* operator writes the file.                                                *)
LEMMA KillFrame ==
  [Next]_vars => \/ UNCHANGED <<kill, killed>>
                 \/ PrepareIntent
                 \/ \E setting \in Controls : SetControls(setting[1], setting[2])
<1>1. ASSUME Cycle PROVE UNCHANGED <<kill, killed>>
  BY <1>1 DEF Cycle, BeginCycle, FlushUpsert, FlushMark, FlushDone, FlushFails,
              ReconcileRow, ReconcileDone, RecoverEnqueue, RecoverMark,
              RecoverDone, ReconciliationFails, SettleRelease, SettleRetain, SettleDone, EndCycle
<1>2. ASSUME Submission PROVE UNCHANGED <<kill, killed>> \/ PrepareIntent
  BY <1>2 DEF Submission, NoteDecision, PairFails, Approve, PrepareCached, PrepareFails, RiskPass,
              ControlPass, Submit, BlockOrder, Resend, Acknowledge, GiveUp, FinishFails, Record,
              RecordFails
<1>3. ASSUME Environment
      PROVE  \/ UNCHANGED <<kill, killed>>
             \/ \E setting \in Controls : SetControls(setting[1], setting[2])
  BY <1>3 DEF Environment, XAccept, XLose, XFill, XCancel, XRefuse, ClientUnchanged
<1>4. ASSUME Crash \/ UNCHANGED vars PROVE UNCHANGED <<kill, killed>>
  BY <1>4 DEF Crash, vars
<1> QED
  BY <1>1, <1>2, <1>3, <1>4 DEF Next

(* Requests and orders change when the process posts and when the exchange  *)
(* takes, refuses or never receives a request.                              *)
LEMMA RequestFrame ==
  [Next]_vars => \/ UNCHANGED <<flight, accepted, refused>>
                 \/ Submit \/ Resend
                 \/ \E l \in Links : \/ XAccept(l) \/ XLose(l)
                                     \/ \E how \in {"stale", "denied"} : XRefuse(l, how)
BY StepFrame DEF Frames, CoreSteps, RecoverMark, BlockOrder, Acknowledge, GiveUp, PrepareIntent,
   Approve, SettleRelease, ReconcileRow, XFill, Fill, XCancel, CancelRest

(* No operation takes a row away.                                           *)
LEMMA RowsStay ==
  ASSUME IInv, [Next]_vars, NEW l \in Links, status'[l] = "absent"
  PROVE  status[l] = "absent"
<1> USE DEF IInv, TypeOK, JournalTypeOK, ProcessInv, Submitting
<1>1. CASE UNCHANGED status
  BY <1>1
<1>2. CASE BlockOrder \/ Acknowledge \/ GiveUp("none") \/ GiveUp("malformed") \/ PrepareIntent
  BY <1>2 DEF BlockOrder, Acknowledge, GiveUp, Finish, PrepareIntent, InsertIntent
<1>3. ASSUME NEW s \in Symbols, SettleRelease(s) PROVE status[l] = "absent"
  BY <1>3 DEF SettleRelease, ReleaseCohort
<1>4. ASSUME NEW m \in Links, NEW matches \in Sightings(m), ReconcileRow(m, matches)
      PROVE  status[l] = "absent"
  BY <1>4 DEF ReconcileRow, ApplyObservation, Finish
<1> QED
  BY <1>1, <1>2, <1>3, <1>4, StatusFrame DEF StatusSteps

(* An attempt under the switch gets no further than the control check, and  *)
(* nothing of it is in flight that the exchange could take.                 *)
LEMMA KillStep ==
  ASSUME IInv, KillInv, [Next]_vars
  PROVE  KillInv'
<1> USE DEF IInv, TypeOK, ExchangeTypeOK, JournalTypeOK, ControlTypeOK, RequestInv, ProcessInv,
            Submitting, KillInv, KillSwitchHolds, Posted, Pending
<1>1. killed' # {} => kill'
  <2>1. CASE PrepareIntent
    BY <2>1 DEF PrepareIntent
  <2>2. ASSUME NEW setting \in Controls, SetControls(setting[1], setting[2])
        PROVE  killed' # {} => kill'
    BY <2>2, Zenon DEF SetControls
  <2>3. CASE UNCHANGED <<kill, killed>>
    BY <2>3
  <2> QED
    BY <2>1, <2>2, <2>3, KillFrame
<1>2. ASSUME NEW l \in killed' PROVE l \in killed \/ (PrepareIntent /\ l = cur)
  <2>1. CASE PrepareIntent
    BY <1>2, <2>1 DEF PrepareIntent
  <2>2. ASSUME NEW setting \in Controls, SetControls(setting[1], setting[2])
        PROVE  l \in killed
    <3>1. killed' = killed \/ killed' = {}
      BY <2>2 DEF SetControls
    <3> QED
      BY <1>2, <3>1
  <2>3. CASE UNCHANGED <<kill, killed>>
    BY <1>2, <2>3
  <2> QED
    BY <2>1, <2>2, <2>3, KillFrame
<1>3. PrepareIntent => pc' = "risk"
  BY DEF PrepareIntent
<1>4. pc' \in {"account", "sent"} => cur' \notin killed'
  <2>1. ControlPass => cur' \notin killed
    BY DEF ControlPass
  <2>2. Submit => cur' \notin killed
    BY DEF Submit
  <2> QED
    BY <1>2, <1>3, <2>1, <2>2, EntryFrame DEF Entries, Stays
<1>5. ASSUME NEW l \in Links, ~Posted(l), Posted(l)' PROVE (Submit \/ Resend) /\ l = cur
  <2>1. CASE UNCHANGED <<flight, accepted, refused>>
    BY <1>5, <2>1
  <2>2. CASE Submit \/ Resend
    BY <1>5, <2>2 DEF Submit, Resend, PostRequest
  <2>3. ASSUME NEW m \in Links, NEW how \in {"stale", "denied"},
               XAccept(m) \/ XLose(m) \/ XRefuse(m, how)
        PROVE  FALSE
    BY <1>5, <2>3 DEF XAccept, Accept, XLose, LoseRequest, XRefuse, Refuse
  <2> QED
    BY <2>1, <2>2, <2>3, RequestFrame
<1>6. KillSwitchHolds'
  <2>1. ASSUME NEW l \in killed' PROVE ~Posted(l)'
    <3>1. l \in Links /\ ~Posted(l)
      BY <1>2, <2>1 DEF PrepareIntent, InsertIntent
    <3>2. Submit \/ Resend => l # cur
      BY <1>2, <1>3, <2>1 DEF Submit, Resend
    <3> QED
      BY <1>5, <3>1, <3>2
  <2> QED
    BY <2>1
<1>7. ASSUME NEW l \in Links, status'[l] = "absent" PROVE ~Posted(l)'
  <2>1. status[l] = "absent"
    BY <1>7, RowsStay
  <2>2. Submit \/ Resend => status[cur] = "prepared"
    BY DEF Submit, Resend
  <2> QED
    BY <1>5, <2>1, <2>2
<1> QED
  BY <1>1, <1>4, <1>6, <1>7

(* An attempt prepared under the kill switch does not reach the exchange    *)
(* while the switch stands (ControlledOrderClient): KillSwitchHolds.        *)
THEOREM KillSwitchCorrect == Spec => []KillSwitchHolds
<1>1. Init => KillInv
  BY DEF Init, JournalInit, ExchangeInit, KillInv, KillSwitchHolds, Posted
<1>2. IInv /\ KillInv /\ [Next]_vars => KillInv'
  BY KillStep
<1>3. KillInv => KillSwitchHolds
  BY DEF KillInv
<1> QED
  BY <1>1, <1>2, <1>3, Inductive, PTL DEF Spec

-----------------------------------------------------------------------------
(* Recorded reasons. *)

(* Committed reasons are never replaced: the first context of a link wins.  *)
LEMMA ContextsStay ==
  ASSUME IInv, [Next]_vars, NEW l \in Links, ctx[l] # NoContext
  PROVE  ctx'[l] = ctx[l]
<1> USE DEF IInv, TypeOK, JournalTypeOK
<1>1. CASE UNCHANGED <<ctx, rowQty>>
  BY <1>1
<1>2. CASE PrepareIntent
  BY <1>2 DEF PrepareIntent, InsertIntent
<1>3. ASSUME NEW m \in Links, NEW q \in 1..MaxQty, NEW r \in Reasons, Approve(m, q, r)
      PROVE  ctx'[l] = ctx[l]
  BY <1>3 DEF Approve, CaptureContext
<1> QED
  BY <1>1, <1>2, <1>3, ContextFrame

Genuine(r) == r.key \in Links => ctx[r.key] # NoContext /\ r.reason = ctx[r.key].reason

GenuineInv ==
    /\ \A r \in rows : Genuine(r)
    /\ \A i \in 1..Len(backlog) : Genuine(backlog[i])
    /\ OriginalReasons

(* Every receipt of an order, queued or delivered, carries the reasons      *)
(* committed for the link, so which of the two origins arrives first does   *)
(* not matter.                                                              *)
LEMMA GenuineStep ==
  ASSUME IInv, GenuineInv, [Next]_vars
  PROVE  GenuineInv'
<1> USE DEF IInv, TypeOK, JournalTypeOK, OutboxTypeOK, GenuineInv, OriginalReasons
<1>1. ASSUME NEW r \in Receipts, Genuine(r) PROVE Genuine(r)'
  BY <1>1, ContextsStay DEF Genuine
<1>2. ASSUME NEW l \in Links, remote[l] # NoRecord
      PROVE  ctx'[l] # NoContext /\ remote[l] = ctx'[l].reason
  BY <1>2, ContextsStay
<1>3. CASE UNCHANGED outboxVars
  <2>1. /\ rows' = rows /\ rows \subseteq Receipts /\ \A r \in rows : Genuine(r)
        /\ backlog' = backlog /\ \A i \in 1..Len(backlog) : backlog[i] \in Receipts /\ Genuine(backlog[i])
        /\ remote' = remote
    BY <1>3
  <2>2. (\A r \in rows : Genuine(r))' /\ (\A i \in 1..Len(backlog) : Genuine(backlog[i]))'
    BY <1>1, <2>1
  <2>3. OriginalReasons'
    BY <1>2, <2>1
  <2> QED
    BY <2>2, <2>3
<1>4. CASE Upsert
  <2>1. PICK r \in Receipts :
          /\ r = backlog[1] /\ 1 \in 1..Len(backlog)
          /\ remote' = [remote EXCEPT ![r.key] = IF @ = NoRecord THEN r.reason ELSE @]
          /\ UNCHANGED <<rows, backlog>>
    <3>1. /\ Head(backlog) \in Receipts /\ Head(backlog) = backlog[1] /\ 1 \in 1..Len(backlog)
      BY <1>4 DEF Upsert
    <3> QED
      BY <1>4, <3>1 DEF Upsert
  <2>2. Genuine(r)
    BY <2>1
  <2>3. Genuine(r)'
    BY <2>1, <2>2, <1>1
  <2>4. ASSUME NEW l \in Links, remote'[l] # NoRecord
        PROVE  ctx'[l] # NoContext /\ remote'[l] = ctx'[l].reason
    <3>1. CASE remote'[l] = remote[l]
      BY <1>2, <2>4, <3>1
    <3>2. CASE remote'[l] # remote[l]
      <4>1. r.key = l /\ remote'[l] = r.reason
        BY <2>1, <2>2, <3>2 DEF Receipts
      <4> QED
        BY <2>3, <4>1 DEF Genuine
    <3> QED
      BY <3>1, <3>2
  <2> QED
    BY <1>1, <2>1, <2>4
<1>5. CASE MarkDelivered
  BY <1>1, <1>2, <1>5 DEF MarkDelivered
<1>6. ASSUME NEW r \in Receipts, Genuine(r), Enqueue(r) PROVE GenuineInv'
  <2>1. \A i \in 1..Len(backlog') :
          (i \in 1..Len(backlog) /\ backlog'[i] = backlog[i]) \/ backlog'[i] = r
    BY <1>6 DEF Enqueue
  <2>2. rows' = rows \cup {r} /\ UNCHANGED remote
    BY <1>6 DEF Enqueue
  <2>3. Genuine(r)'
    BY <1>1, <1>6
  <2> QED
    BY <1>1, <1>2, <2>1, <2>2, <2>3
<1>7. ASSUME NEW l \in Links, NEW o \in Origins, ctx[l] # NoContext
      PROVE  LET r == [key |-> l, origin |-> o, reason |-> ctx[l].reason]
             IN  r \in Receipts /\ Genuine(r)
  BY <1>7 DEF Receipts, Genuine
<1>8. ASSUME NEW l \in Links, RecoverEnqueue(l) PROVE GenuineInv'
  BY <1>6, <1>7, <1>8 DEF RecoverEnqueue, ProcessInv, Origins
<1>9. ASSUME NEW s \in Symbols, NEW n \in Notes, NEW r \in Reasons, NoteDecision(s, n, r)
      PROVE  GenuineInv'
  <2>1. LET note == [key |-> n, origin |-> "note", reason |-> r]
        IN  note \in Receipts /\ Genuine(note)
    BY DEF Receipts, Genuine, Origins
  <2> QED
    BY <1>6, <1>9, <2>1 DEF NoteDecision
<1>10. CASE Record
  BY <1>6, <1>7, <1>10 DEF Record, ProcessInv, Origins
<1> QED
  BY <1>3, <1>4, <1>5, <1>8, <1>9, <1>10, StepFrame DEF Frames, OutboxSteps

(* The reasons the remote table shows for an order are those committed      *)
(* before it was submitted: OriginalReasons.                                *)
THEOREM OriginalReasonsHold == Spec => []OriginalReasons
<1>1. Init => GenuineInv
  BY DEF Init, OutboxInit, GenuineInv, OriginalReasons
<1>2. IInv /\ GenuineInv /\ [Next]_vars => GenuineInv'
  BY GenuineStep
<1>3. GenuineInv => OriginalReasons
  BY DEF GenuineInv
<1> QED
  BY <1>1, <1>2, <1>3, Inductive, PTL DEF Spec

-----------------------------------------------------------------------------
(* Closed decisions. *)

(* Between the end of recover_decisions and the end of settle_journal.      *)
Swept == pc = "settle" \/ (pc \in {"flush", "mark"} /\ then = "settle")

SweepEntries ==
    /\ pc' \in {"recover", "enqueued"} => \/ UNCHANGED <<pc, cur, work>>
                                          \/ ReconcileDone \/ RecoverMark
                                          \/ \E l \in Links : RecoverEnqueue(l)
    /\ Swept' => Swept \/ RecoverDone

(* Settlement is reached through recover_decisions only.                    *)
LEMMA SweepFrame ==
  ASSUME ControlTypeOK, [Next]_vars
  PROVE  SweepEntries
<1> USE DEF SweepEntries, Swept, Leave
<1>1. ASSUME Cycle PROVE SweepEntries
  <2>1. ASSUME NEW l \in Links, RecoverEnqueue(l) PROVE pc' = "enqueued"
    BY <2>1 DEF RecoverEnqueue
  <2>2. /\ ReconcileDone => pc' = "recover"
        /\ RecoverMark => pc' = "recover"
        /\ RecoverDone => pc' = "flush"
    BY DEF ReconcileDone, RecoverMark, RecoverDone
  <2> QED
    BY <1>1, <2>1, <2>2
       DEF Cycle, BeginCycle, FlushUpsert, FlushMark, FlushDone, FlushFails, AfterFlush,
           ReconcileRow, ReconciliationFails, SettleRelease, SettleRetain, SettleDone, EndCycle,
           ControlTypeOK
<1>2. ASSUME Submission PROVE SweepEntries
  BY <1>2 DEF Submission, NoteDecision, PairFails, Approve, PrepareIntent, PrepareCached,
              PrepareFails, RiskPass, ControlPass, Submit, BlockOrder, Resend, Acknowledge,
              GiveUp, FinishFails, Record, RecordFails
<1>3. ASSUME Environment PROVE SweepEntries
  BY <1>3 DEF Environment, XAccept, XLose, XFill, XCancel, XRefuse, SetControls,
              ClientUnchanged
<1>4. ASSUME Crash \/ UNCHANGED vars PROVE SweepEntries
  BY <1>4 DEF Crash, vars
<1> QED
  BY <1>1, <1>2, <1>3, <1>4 DEF Next

RecoverInv ==
    /\ \A l \in Links : enqueued[l] => QueuedOrDelivered(l)
    /\ pc = "enqueued" => QueuedOrDelivered(cur)
    /\ pc \in {"recover", "enqueued"} => Recoverable \subseteq work
    /\ Swept => Recoverable = {}
    /\ ClosedDecisionsQueued

(* The outbox forgets no receipt.                                           *)
LEMMA RecordsStay ==
  ASSUME IInv, [Next]_vars, NEW k, QueuedOrDelivered(k)
  PROVE  QueuedOrDelivered(k)'
BY StepFrame
   DEF Frames, OutboxSteps, QueuedOrDelivered, Upsert, MarkDelivered, RecoverEnqueue,
       NoteDecision, Record, Enqueue

(* While recovery or settlement runs, no row becomes recoverable.           *)
LEMMA RecoverableShrinks ==
  ASSUME IInv, [Next]_vars, pc' \in {"recover", "enqueued"} \/ Swept'
  PROVE  Recoverable' \subseteq Recoverable
<1> USE DEF IInv, TypeOK, JournalTypeOK
<1>1. UNCHANGED ctx
  BY ContextFrame DEF PrepareIntent, InsertIntent, Approve, Swept
<1>2. \A l \in Links : status'[l] \in Settleable => status[l] \in Settleable
  BY StatusFrame DEF StatusSteps, BlockOrder, Acknowledge, GiveUp, PrepareIntent, Leave,
     SettleRelease, ReleaseCohort, ReconcileRow, Swept, Settleable
<1>3. ASSUME NEW l \in Links, ~enqueued'[l] PROVE ~enqueued[l]
  <2>1. CASE UNCHANGED enqueued
    BY <1>3, <2>1, Zenon
  <2>2. CASE RecoverMark
    <3>1. enqueued \in [Links -> BOOLEAN] /\ enqueued' = [enqueued EXCEPT ![cur] = TRUE]
      BY <2>2 DEF RecoverMark, MarkEnqueued, FlagsTypeOK
    <3> QED
      BY <1>3, <3>1, Zenon
  <2> QED
    BY <2>1, <2>2, StepFrame DEF Frames
<1> QED
  BY <1>1, <1>2, <1>3 DEF Recoverable

(* What recovery has not yet enqueued is in its work list; after it nothing *)
(* is left, so settlement closes only rows whose record is in the outbox.   *)
LEMMA RecoverStep ==
  ASSUME IInv, ReasonInv, RecoverInv, [Next]_vars
  PROVE  RecoverInv'
<1> USE DEF IInv, TypeOK, JournalTypeOK, ProcessInv, RecoverInv
<1>1. ASSUME NEW l \in Links, enqueued'[l] PROVE QueuedOrDelivered(l)'
  <2>1. CASE UNCHANGED enqueued
    BY <1>1, <2>1, RecordsStay, Zenon
  <2>2. CASE RecoverMark
    <3>1. /\ enqueued \in [Links -> BOOLEAN] /\ enqueued' = [enqueued EXCEPT ![cur] = TRUE]
          /\ QueuedOrDelivered(cur)
      BY <2>2 DEF RecoverMark, MarkEnqueued, FlagsTypeOK
    <3>2. l # cur => enqueued[l]
      BY <1>1, <3>1, Zenon
    <3> QED
      BY <3>1, <3>2, RecordsStay
  <2> QED
    BY <2>1, <2>2, StepFrame DEF Frames
<1>2. ASSUME pc' = "enqueued" PROVE QueuedOrDelivered(cur)'
  <2>1. CASE UNCHANGED <<pc, cur>>
    BY <1>2, <2>1, RecordsStay
  <2>2. ASSUME NEW l \in Links, RecoverEnqueue(l) PROVE QueuedOrDelivered(cur)'
    BY <2>2 DEF RecoverEnqueue, Enqueue, QueuedOrDelivered
  <2> QED
    BY <1>2, <2>1, <2>2, SweepFrame DEF SweepEntries, ReconcileDone, RecoverMark
<1>3. ASSUME pc' \in {"recover", "enqueued"} PROVE Recoverable' \subseteq work'
  <2>1. Recoverable' \subseteq Recoverable
    BY <1>3, RecoverableShrinks
  <2>2. CASE ReconcileDone
    BY <2>1, <2>2 DEF ReconcileDone
  <2>3. CASE RecoverMark
    <3>1. /\ enqueued \in [Links -> BOOLEAN] /\ enqueued' = [enqueued EXCEPT ![cur] = TRUE]
          /\ cur \in Links /\ work' = work \ {cur} /\ Recoverable \subseteq work
      BY <2>3 DEF RecoverMark, MarkEnqueued, FlagsTypeOK
    <3>2. enqueued'[cur]
      BY <3>1, Zenon
    <3>3. cur \notin Recoverable'
      BY <3>2, Zenon DEF Recoverable
    <3> QED
      BY <2>1, <3>1, <3>3
  <2>4. ASSUME NEW l \in Links, RecoverEnqueue(l) PROVE Recoverable' \subseteq work'
    BY <2>1, <2>4 DEF RecoverEnqueue
  <2>5. CASE UNCHANGED <<pc, cur, work>>
    BY <1>3, <2>1, <2>5
  <2> QED
    BY <1>3, <2>2, <2>3, <2>4, <2>5, SweepFrame DEF SweepEntries
<1>4. ASSUME Swept' PROVE Recoverable' = {}
  <2>1. Recoverable' \subseteq Recoverable
    BY <1>4, RecoverableShrinks
  <2>2. RecoverDone => Recoverable = {}
    BY DEF RecoverDone
  <2> QED
    BY <1>4, <2>1, <2>2, SweepFrame DEF SweepEntries
<1>5. ASSUME NEW l \in Links, status'[l] = "released_closed" PROVE QueuedOrDelivered(l)'
  <2>1. CASE status[l] = "released_closed"
    BY <2>1, RecordsStay DEF ClosedDecisionsQueued
  <2>2. ASSUME status[l] # "released_closed", NEW s \in Symbols, SettleRelease(s)
        PROVE  QueuedOrDelivered(l)'
    <3>1. status[l] \in Settleable /\ Swept
      BY <1>5, <2>2 DEF SettleRelease, ReleaseCohort, Swept
    <3>2. enqueued[l]
      BY <3>1 DEF Recoverable, ReasonInv, Settleable
    <3> QED
      BY <3>2, RecordsStay
  <2>3. ASSUME status[l] # "released_closed"
        PROVE  \E s \in Symbols : SettleRelease(s)
    BY <1>5, <2>3, StatusFrame DEF StatusSteps, BlockOrder, Acknowledge, GiveUp, Finish,
       PrepareIntent, InsertIntent, ReconcileRow, ApplyObservation, Submitting
  <2> QED
    BY <2>1, <2>2, <2>3
<1> QED
  BY <1>1, <1>2, <1>3, <1>4, <1>5 DEF ClosedDecisionsQueued

(* A closed Buy is not forgotten by the decision log, whatever died between *)
(* its acknowledgment and its settlement: ClosedDecisionsQueued.            *)
THEOREM ClosedDecisionsHold == Spec => []ClosedDecisionsQueued
<1>1. Init => ReasonInv /\ RecoverInv
  <2>1. ASSUME Init PROVE \A l \in Links : ~enqueued[l]
    BY <2>1, Zenon DEF Init, JournalInit
  <2> QED
    BY <2>1 DEF Init, JournalInit, ReasonInv, RecoverInv, Swept, ClosedDecisionsQueued
<1>2. IInv /\ ReasonInv /\ RecoverInv /\ [Next]_vars => ReasonInv' /\ RecoverInv'
  BY ReasonStep, RecoverStep
<1>3. RecoverInv => ClosedDecisionsQueued
  BY DEF RecoverInv
<1> QED
  BY <1>1, <1>2, <1>3, Inductive, PTL DEF Spec

-----------------------------------------------------------------------------
(* The position cap. *)

Exposed == Held \cup {SymbolOf[l] : l \in {b \in Buys : MayExecute(b)}}
Passed == pc \in {"control", "account", "sent"} /\ cur \in Buys

CapInv ==
    /\ PositionCap
    /\ Passed => Cardinality(ReservedSymbols(cur)) < Cap

(* There are finitely many symbols with an order.                           *)
LEMMA TradedFinite == IsFiniteSet({SymbolOf[l] : l \in Links})
<1> DEFINE T == {SymbolOf[l] : l \in Links}
<1>1. SymbolOf \in [Links -> T] /\ \A t \in T : \E l \in Links : SymbolOf[l] = t
  OBVIOUS
<1>2. SymbolOf \in Surjection(Links, T)
  BY <1>1, Fun_IsSurj
<1> QED
  BY <1>2, FS_Surjection

(* What is held or may execute is reserved by another Buy than the one that *)
(* is about to be sent.                                                     *)
LEMMA ExposedReserved ==
  ASSUME IInv, pc \in {"risk", "control", "account", "sent"}, flight[cur] = 0, accepted[cur] = 0
  PROVE  Exposed \subseteq ReservedSymbols(cur)
BY DEF IInv, TypeOK, ExchangeTypeOK, RequestInv, ProcessInv, Submitting, ExposureReserved, Exposed,
       Held, MayExecute, ReservedSymbols, Reservations, OpenStatus

(* The reservations of the other rows do not change while the process is in *)
(* the wrapper chain.                                                       *)
LEMMA ReservationsStay ==
  ASSUME IInv, [Next]_vars, Stays, pc \in Submitting
  PROVE  ReservedSymbols(cur)' = ReservedSymbols(cur)
<1>1. UNCHANGED status
  BY StatusFrame DEF StatusSteps, Stays, Submitting, BlockOrder, Acknowledge, GiveUp, Leave,
     PrepareIntent, SettleRelease, ReconcileRow
<1> QED
  BY <1>1 DEF Stays, ReservedSymbols, Reservations

(* A step exposes no new symbol, or it posts a Buy that passed the guard.   *)
LEMMA ExposedGrows ==
  ASSUME IInv, [Next]_vars
  PROVE  \/ Exposed' \subseteq Exposed
         \/ /\ Submit \/ Resend
            /\ cur \in Buys /\ Exposed' \subseteq Exposed \cup {SymbolOf[cur]}
<1> USE DEF Exposed, Held, MayExecute, OpenStatus, IInv, TypeOK, ExchangeTypeOK
<1>1. CASE UNCHANGED <<flight, xstatus, wallet>>
  BY <1>1
<1>2. ASSUME NEW l \in Links, XAccept(l) PROVE Exposed' \subseteq Exposed
  BY <1>2 DEF XAccept, Accept
<1>3. ASSUME NEW l \in Links, XLose(l) \/ XCancel(l) PROVE Exposed' \subseteq Exposed
  BY <1>3 DEF XLose, LoseRequest, XCancel, CancelRest
<1>4. ASSUME NEW l \in Links, NEW how \in {"stale", "denied"}, XRefuse(l, how)
      PROVE  Exposed' \subseteq Exposed
  BY <1>4 DEF XRefuse, Refuse
<1>5. ASSUME NEW l \in Links, XFill(l) PROVE Exposed' \subseteq Exposed
  BY <1>5 DEF XFill, Fill, Sells
<1>6. CASE Submit \/ Resend
  BY <1>6 DEF Submit, Resend, PostRequest
<1> QED
  BY <1>1, <1>2, <1>3, <1>4, <1>5, <1>6, StepFrame DEF Frames, CoreSteps, RecoverMark, BlockOrder,
     Acknowledge, GiveUp, PrepareIntent, Approve, SettleRelease, ReconcileRow

(* The guard counted the reservations, which cover everything exposed; the  *)
(* order that passed it adds one symbol below the cap.                      *)
LEMMA CapStep ==
  ASSUME IInv, CapInv, [Next]_vars
  PROVE  CapInv'
<1> USE DEF CapInv
<1> DEFINE T == {SymbolOf[l] : l \in Links}
<1>1. IsFiniteSet(T)
  BY TradedFinite
<1>2. Exposed \subseteq T /\ ReservedSymbols(cur) \subseteq T
  BY DEF IInv, ExposureReserved, Exposed, Held, ReservedSymbols, Reservations
<1> HIDE DEF T
<1>3. ASSUME Passed' PROVE Cardinality(ReservedSymbols(cur)') < Cap
  <2>1. CASE Stays
    BY <1>3, <2>1, ReservationsStay DEF Stays, Passed, Submitting
  <2>2. ASSUME NEW listed \in SUBSET OpenBuys, RiskPass(listed)
        PROVE  Cardinality(ReservedSymbols(cur)') < Cap
    <3>1. /\ cur' = cur /\ UNCHANGED status
          /\ Cardinality(Held \cup {SymbolOf[l] : l \in listed} \cup ReservedSymbols(cur)) < Cap
      BY <1>3, <2>2 DEF RiskPass, Passed
    <3> DEFINE A == Held \cup {SymbolOf[l] : l \in listed} \cup ReservedSymbols(cur)
    <3>2. A \subseteq T
      BY <1>2 DEF Exposed, OpenBuys, T
    <3>3. IsFiniteSet(A)
      BY <1>1, <3>2, FS_Subset
    <3>4. Cardinality(ReservedSymbols(cur)) <= Cardinality(A)
      BY <3>3, FS_Subset
    <3>5. IsFiniteSet(ReservedSymbols(cur))
      BY <3>3, FS_Subset
    <3>6. Cardinality(A) \in Nat /\ Cardinality(ReservedSymbols(cur)) \in Nat
      BY <3>3, <3>5, FS_CardinalityType
    <3>7. ReservedSymbols(cur)' = ReservedSymbols(cur)
      BY <3>1 DEF ReservedSymbols, Reservations
    <3> QED
      BY <3>1, <3>4, <3>6, <3>7
  <2>3. CASE ControlPass \/ Submit
    <3>1. Passed /\ cur' = cur /\ UNCHANGED status
      BY <1>3, <2>3 DEF ControlPass, Submit, Passed
    <3>2. ReservedSymbols(cur)' = ReservedSymbols(cur)
      BY <3>1 DEF ReservedSymbols, Reservations
    <3> QED
      BY <3>1, <3>2
  <2> QED
    BY <1>3, <2>1, <2>2, <2>3, EntryFrame DEF Entries, Passed, IInv, TypeOK
<1>4. Cardinality(Exposed') <= Cap
  <2>1. IsFiniteSet(Exposed) /\ IsFiniteSet(ReservedSymbols(cur))
    BY <1>1, <1>2, FS_Subset
  <2>2. /\ Cardinality(Exposed) \in Nat /\ Cardinality(ReservedSymbols(cur)) \in Nat
        /\ Cardinality(Exposed) <= Cap
    BY <2>1, FS_CardinalityType DEF PositionCap, Exposed
  <2>3. CASE Exposed' \subseteq Exposed
    <3>1. IsFiniteSet(Exposed') /\ Cardinality(Exposed') <= Cardinality(Exposed)
      BY <2>1, <2>3, FS_Subset
    <3>2. Cardinality(Exposed') \in Nat
      BY <3>1, FS_CardinalityType
    <3> QED
      BY <2>2, <3>1, <3>2
  <2>4. CASE (Submit \/ Resend) /\ cur \in Buys /\ Exposed' \subseteq Exposed \cup {SymbolOf[cur]}
    <3>1. Passed /\ flight[cur] = 0 /\ accepted[cur] = 0
      BY <2>4 DEF Submit, Resend, Passed, IInv, ProcessInv, RequestInv, Submitting
    <3>2. Exposed \subseteq ReservedSymbols(cur) /\ Cardinality(ReservedSymbols(cur)) < Cap
      BY <3>1, ExposedReserved DEF Passed
    <3> DEFINE B == ReservedSymbols(cur) \cup {SymbolOf[cur]}
    <3>3. /\ IsFiniteSet(B)
          /\ Cardinality(B) = IF SymbolOf[cur] \in ReservedSymbols(cur)
                              THEN Cardinality(ReservedSymbols(cur))
                              ELSE Cardinality(ReservedSymbols(cur)) + 1
      BY <2>1, FS_AddElement
    <3>4. Cardinality(B) <= Cap
      BY <2>2, <3>2, <3>3
    <3>5. Exposed' \subseteq B
      BY <2>4, <3>2
    <3>6. IsFiniteSet(Exposed') /\ Cardinality(Exposed') <= Cardinality(B)
      BY <3>3, <3>5, FS_Subset
    <3>7. Cardinality(Exposed') \in Nat /\ Cardinality(B) \in Nat
      BY <3>3, <3>6, FS_CardinalityType
    <3> QED
      BY <3>4, <3>6, <3>7
  <2> QED
    BY <2>3, <2>4, ExposedGrows
<1> QED
  BY <1>3, <1>4 DEF PositionCap, Exposed

(* The symbols held or that a submitted Buy may come to hold never exceed   *)
(* --max-open-positions (SubmissionRiskClient): PositionCap.                *)
THEOREM PositionCapHolds == Spec => []PositionCap
<1>1. Init => CapInv
  <2>1. Init => Exposed = {}
    BY DEF Init, ExchangeInit, Exposed, Held, MayExecute, OpenStatus
  <2> QED
    BY <2>1, FS_EmptySet DEF Init, CapInv, PositionCap, Passed, Exposed
<1>2. IInv /\ CapInv /\ [Next]_vars => CapInv'
  BY CapStep
<1>3. CapInv => PositionCap
  BY DEF CapInv
<1> QED
  BY <1>1, <1>2, <1>3, Inductive, PTL DEF Spec

-----------------------------------------------------------------------------
(* The reserved quote. *)

Reserved(s) == Reservations(NoLink) \cap Of(s)
Bought(s) == SumOver(exec, Reserved(s))

QuoteInv ==
    /\ \A l \in Links : exec[l] <= rowQty[l]
    /\ \A s \in Symbols : wallet[s] <= Bought(s)

(* The rows whose reservation stands for a symbol.                          *)
LEMMA ReservedIs ==
  ASSUME NEW s
  PROVE  Reserved(s) = {l \in Buys : status[l] \in Reserving /\ SymbolOf[l] = s}
<1>1. \A l : l \in Reserved(s) <=> l \in Buys /\ status[l] \in Reserving /\ SymbolOf[l] = s
  BY DEF Reserved, Reservations, Of
<1> QED
  BY <1>1

(* Only an execution moves base units; a row's quantity is written when it  *)
(* is prepared.                                                             *)
LEMMA QuoteFrame ==
  [Next]_vars => /\ UNCHANGED <<exec, wallet>> \/ \E l \in Links : XFill(l)
                 /\ UNCHANGED rowQty \/ PrepareIntent
<1> SUFFICES ASSUME [Next]_vars
             PROVE  /\ UNCHANGED <<exec, wallet>> \/ \E l \in Links : XFill(l)
                    /\ UNCHANGED rowQty \/ PrepareIntent
  OBVIOUS
<1>1. UNCHANGED <<exec, wallet>> \/ \E l \in Links : XFill(l)
  BY StepFrame DEF Frames, CoreSteps, RecoverMark, Approve, Submit, Resend, PostRequest, XAccept,
     Accept, XLose, LoseRequest, XCancel, CancelRest, XRefuse, Refuse, BlockOrder, Acknowledge,
     GiveUp, PrepareIntent, SettleRelease, ReconcileRow
<1>2. UNCHANGED rowQty \/ PrepareIntent
  BY ContextFrame DEF Approve, CaptureContext
<1> QED
  BY <1>1, <1>2

(* A row that executed leaves the reserving statuses only when its symbol   *)
(* is sold out.                                                             *)
LEMMA LeavesUnexecuted ==
  ASSUME IInv, StatusSteps, UNCHANGED <<exec, wallet>>, NEW s \in Symbols, wallet[s] > 0,
         NEW l \in Links, SymbolOf[l] = s, exec[l] # 0
  PROVE  status'[l] \in Reserving <=> status[l] \in Reserving
<1> USE DEF IInv, TypeOK, ExchangeTypeOK, JournalTypeOK, RequestInv, ProcessInv, Submitting,
            Reserving, Pending, Settleable
<1>0. accepted[l] # 0 /\ xstatus[l] \notin {"none", "New", "Cancelled"} /\ status[l] # "absent"
  BY DEF IInv, RequestInv
<1>1. CASE BlockOrder
  BY <1>0, <1>1 DEF BlockOrder, Finish
<1>2. CASE Acknowledge
  BY <1>2 DEF Acknowledge, Finish
<1>3. CASE GiveUp("none") \/ GiveUp("malformed")
  BY <1>3 DEF GiveUp, Finish
<1>4. CASE PrepareIntent
  BY <1>0, <1>4 DEF PrepareIntent, InsertIntent
<1>5. ASSUME NEW t \in Symbols, SettleRelease(t)
      PROVE  status'[l] \in Reserving <=> status[l] \in Reserving
  <2>1. /\ wallet[t] = 0 /\ \A m \in Cohort(t) : SymbolOf[m] = t
        /\ status' = [m \in Links |-> IF m \in Cohort(t) THEN "released_closed" ELSE status[m]]
    BY <1>5 DEF SettleRelease, ProvenClosed, ReleaseCohort, Cohort, Of
  <2> QED
    BY <2>1
<1>6. ASSUME NEW m \in Links, NEW matches \in Sightings(m), ReconcileRow(m, matches)
      PROVE  status'[l] \in Reserving <=> status[l] \in Reserving
  <2>1. CASE m # l \/ matches = {}
    BY <1>6, <2>1 DEF ReconcileRow, ApplyObservation, Finish
  <2>2. CASE m = l /\ matches # {}
    <3>1. xstatus[l] \in matches /\ ~ ZeroFill(matches)
      BY <1>0, <1>6, <2>2 DEF Sightings, ZeroFill, ZeroFillStatus
    <3>2. status' = [status EXCEPT ![l] = "observed"] /\ status[l] \in Reserving
      BY <1>6, <2>2, <3>1 DEF ReconcileRow, ApplyObservation, Finish, Reconcilable
    <3> QED
      BY <3>2
  <2> QED
    BY <2>1, <2>2
<1> QED
  BY <1>1, <1>2, <1>3, <1>4, <1>5, <1>6 DEF StatusSteps

(* What executed is never more than the row's quantity.                     *)
LEMMA ExecutedStep ==
  ASSUME IInv, QuoteInv, [Next]_vars
  PROVE  \A l \in Links : exec'[l] <= rowQty'[l]
<1> USE DEF IInv, TypeOK, ExchangeTypeOK, JournalTypeOK, ControlTypeOK, QuoteInv
<1>1. ASSUME NEW l \in Links, XFill(l) PROVE \A m \in Links : exec'[m] <= rowQty'[m]
  BY <1>1 DEF XFill, Fill, ClientUnchanged
<1>2. CASE UNCHANGED <<exec, rowQty>>
  BY <1>2
<1>3. CASE UNCHANGED exec /\ PrepareIntent
  <2>1. /\ cur \in Links /\ exec[cur] = 0 /\ want \in Nat
        /\ rowQty' = [rowQty EXCEPT ![cur] = want]
    BY <1>3 DEF PrepareIntent, InsertIntent, ProcessInv, RequestInv
  <2> QED
    BY <1>3, <2>1
<1> QED
  BY <1>1, <1>2, <1>3, QuoteFrame

(* The inventory stays within what the reserving rows of its symbol bought: *)
(* a Buy executes while its row reserves, and a row that executed releases  *)
(* only when nothing is held.                                               *)
LEMMA BoughtStep ==
  ASSUME IInv, QuoteInv, [Next]_vars, NEW s \in Symbols
  PROVE  wallet'[s] <= Bought(s)'
<1> DEFINE R == Reserved(s)
           N == Reserved(s)'
<1>0. /\ exec \in [Links -> Nat] /\ wallet \in [Symbols -> Nat]
      /\ exec' \in [Links -> Nat] /\ wallet' \in [Symbols -> Nat]
  BY NextIInv DEF IInv, TypeOK, ExchangeTypeOK
<1>1. /\ R = {l \in Buys : status[l] \in Reserving /\ SymbolOf[l] = s}
      /\ N = {l \in Buys : status'[l] \in Reserving /\ SymbolOf[l] = s}
  <2>1. \A l : l \in N <=> l \in Buys /\ status'[l] \in Reserving /\ SymbolOf[l] = s
    BY DEF Reserved, Reservations, Of, Reserving, Pending, Settleable
  <2> QED
    BY <2>1, ReservedIs
<1>2. R \in SUBSET Links /\ N \in SUBSET Links
  BY <1>1
<1>3. wallet[s] <= SumOver(exec, R)
  BY DEF QuoteInv, Bought
<1>4. Bought(s)' = SumOver(exec', N)
  BY DEF Bought
<1>5. SumOver(exec, R) \in Nat /\ SumOver(exec', N) \in Nat
  <2> HIDE DEF R, N
  <2> QED
    BY <1>0, <1>2, SumElement
<1>6. ASSUME NEW l \in Links, XFill(l) PROVE wallet'[s] <= SumOver(exec', N)
  <2>1. /\ exec' = [exec EXCEPT ![l] = @ + 1]
        /\ wallet' = [wallet EXCEPT ![SymbolOf[l]] = IF l \in Buys THEN @ + 1 ELSE @ - 1]
        /\ xstatus[l] \in OpenStatus /\ UNCHANGED status
    BY <1>6 DEF XFill, Fill, ClientUnchanged
  <2>2. N = R
    BY <1>1, <2>1
  <2>3. CASE l \in Buys /\ SymbolOf[l] = s
    <3>1. l \in R
      BY <1>1, <2>1, <2>3 DEF IInv, ExposureReserved, MayExecute
    <3>2. \A m \in R \ {l} : exec[m] = exec'[m]
      BY <1>0, <1>2, <2>1
    <3>3. SumOver(exec, R) - exec[l] = SumOver(exec', R) - exec'[l]
      <4> HIDE DEF R, N
      <4> QED
        BY <1>0, <1>2, <3>1, <3>2, SumApart
    <3>4. exec'[l] = exec[l] + 1 /\ wallet'[s] = wallet[s] + 1 /\ exec[l] \in Nat
      BY <1>0, <2>1, <2>3
    <3> HIDE DEF R, N
    <3> QED
      BY <1>0, <1>3, <1>5, <2>2, <3>3, <3>4
  <2>4. CASE ~ (l \in Buys /\ SymbolOf[l] = s)
    <3>1. \A m \in R : exec[m] <= exec'[m]
      BY <1>0, <1>1, <2>1
    <3>2. wallet'[s] <= wallet[s]
      BY <1>0, <2>1, <2>4
    <3> HIDE DEF R, N
    <3>3. SumOver(exec, R) <= SumOver(exec', R)
      BY <1>0, <1>2, <3>1, SumMonotone
    <3> QED
      BY <1>0, <1>3, <1>5, <2>2, <3>2, <3>3
  <2> QED
    BY <2>3, <2>4
<1>7. CASE UNCHANGED <<exec, wallet>> /\ wallet[s] > 0
  <2>1. \A l \in Links : SymbolOf[l] = s /\ exec[l] # 0 =>
          (status'[l] \in Reserving <=> status[l] \in Reserving)
    BY <1>7, LeavesUnexecuted, StatusFrame
  <2> DEFINE Q == R \cap N
  <2>2. (\A l \in R \ Q : exec[l] = 0) /\ (\A l \in N \ Q : exec[l] = 0)
    BY <1>1, <2>1
  <2>3. Q \in SUBSET R /\ Q \in SUBSET N
    OBVIOUS
  <2> HIDE DEF Q, R, N
  <2>4. SumOver(exec, R) = SumOver(exec, Q) /\ SumOver(exec, N) = SumOver(exec, Q)
    BY <1>0, <1>2, <2>2, <2>3, SumZeroes
  <2> QED
    BY <1>3, <1>4, <1>7, <2>4
<1>8. CASE UNCHANGED <<exec, wallet>> /\ ~ (wallet[s] > 0)
  <2> HIDE DEF R, N
  <2> QED
    BY <1>0, <1>4, <1>5, <1>8
<1> HIDE DEF R, N
<1> QED
  BY <1>4, <1>6, <1>7, <1>8, QuoteFrame

(* The quote that buy_reservations still counts covers the inventory,       *)
(* partial executions included: ReservedEnough.                             *)
THEOREM ReservedEnoughHolds == Spec => []ReservedEnough
<1>1. Init => QuoteInv
  <2> SUFFICES ASSUME Init PROVE QuoteInv
    OBVIOUS
  <2>1. exec \in [Links -> Nat] /\ rowQty \in [Links -> Nat] /\ \A l \in Links : exec[l] <= rowQty[l]
    BY DEF Init, ExchangeInit, JournalInit
  <2>2. ASSUME NEW s \in Symbols PROVE wallet[s] <= Bought(s)
    <3>1. Reserved(s) \in SUBSET Links
      BY ReservedIs
    <3>2. Bought(s) \in Nat
      BY <2>1, <3>1, SumElement DEF Bought
    <3> QED
      BY <3>2 DEF Init, ExchangeInit
  <2> QED
    BY <2>1, <2>2 DEF QuoteInv
<1>2. IInv /\ QuoteInv /\ [Next]_vars => QuoteInv'
  BY ExecutedStep, BoughtStep DEF QuoteInv
<1>3. IInv /\ QuoteInv => ReservedEnough
  <2> SUFFICES ASSUME IInv, QuoteInv, NEW s \in Symbols
               PROVE  wallet[s] <= SumOver(rowQty, Reserved(s))
    BY DEF ReservedEnough, Reserved, SumOver
  <2>1. /\ exec \in [Links -> Nat] /\ rowQty \in [Links -> Nat] /\ wallet[s] \in Nat
        /\ \A l \in Links : exec[l] <= rowQty[l]
    BY DEF IInv, TypeOK, ExchangeTypeOK, JournalTypeOK, QuoteInv
  <2>2. Reserved(s) \in SUBSET Links
    BY ReservedIs
  <2>3. SumOver(exec, Reserved(s)) <= SumOver(rowQty, Reserved(s))
    BY <2>1, <2>2, SumMonotone
  <2>4. SumOver(exec, Reserved(s)) \in Nat /\ SumOver(rowQty, Reserved(s)) \in Nat
    BY <2>1, <2>2, SumElement
  <2> QED
    BY <2>1, <2>3, <2>4 DEF QuoteInv, Bought
<1> QED
  BY <1>1, <1>2, <1>3, Inductive, PTL DEF Spec

=============================================================================
