-------------------------- MODULE CashAckRecovery --------------------------
(* The applications of all roles, kept in raw groups, with the explicit     *)
(* recovery of a durable result whose acknowledgement or completion was     *)
(* lost (cash_ack_recovery.py).  The caller polls the source, ingests and   *)
(* applies in any order, and keeps the checkpoint of the last application   *)
(* that returned; after a crash it opens the queue again from a known       *)
(* ancestor, which always succeeds on a chain that only grows.  A poll may  *)
(* stop for good after any of its events.                                   *)
EXTENDS CashApplication

vars == <<now, sourceVars, queueVars, worker, groups, known, proc, crashes>>

Init == ApplicationInit

\* mutant: what follows the checkpoint in the folder is ignored
KnownIntact(r) == \A i \in 1..known[r] : Intact(groups[r][i])

\* open and apply: the folder is the caller's checkpoint, the worker where the
\* last group left it.
Checkpointed(r) ==
    /\ Len(groups[r]) = known[r]
    /\ \A i \in 1..Len(groups[r]) : Intact(groups[r][i])
    /\ WorkerAt(r, known[r])

Apply(r) ==
    /\ At("idle") /\ Checkpointed(r)
    /\ known[r] < MaxGroups
    /\ QueueOffers(r)

\* The window ended between the offer and the decision: nothing was written.
ApplyTooLate ==
    /\ At("offered") /\ Late
    /\ proc' = Idle
    /\ UNCHANGED <<now, sourceVars, queueVars, worker, groups, known, crashes>>

\* The caller gets the new checkpoint and keeps it.
ApplyReturns ==
    /\ At("complete")
    /\ known' = [known EXCEPT ![Me] = Len(groups[Me])]
    /\ proc' = Idle
    /\ UNCHANGED <<now, sourceVars, queueVars, worker, groups, crashes>>

(***************************************************************************)
(* recover_cash_ack                                                        *)
(***************************************************************************)
\* _prefix: the known groups are complete and one more has a durable result.
PendingResult(r) ==
    /\ Len(groups[r]) = known[r] + 1
    /\ \A i \in 1..known[r] : Intact(groups[r][i])
    /\ LET g == Last(groups[r])
       IN  /\ g.files \in {{"input", "prepared", "worker-result"},
                           {"input", "prepared", "worker-result", "ack"}}
           /\ ~g.torn
           /\ g.delivery # 0

\* mutant: only an acknowledgement that was never given is recovered
CursorBefore(r, b) == cursor[r] = b - 1 /\ pending[r] = b

\* _original_packet: the role still waits for this delivery, or has just been
\* acknowledged for it.
CursorAt(r, b) ==
    \/ cursor[r] = b - 1 /\ pending[r] = b
    \/ cursor[r] = b /\ pending[r] = 0

\* All that is verified before anything is written.
Recoverable(r) ==
    PendingResult(r) /\ WorkerAt(r, known[r] + 1) /\ CursorAt(r, Last(groups[r]).delivery)

Recover(r) ==
    /\ At("idle") /\ Recoverable(r)
    /\ proc' = [step |-> "recovering", role |-> r, delivery |-> Last(groups[r]).delivery]
    /\ UNCHANGED <<now, sourceVars, queueVars, worker, groups, known, crashes>>

\* mutant: the tick of the group is run again
RecoverTicks ==
    /\ At("recovering")
    /\ worker' = [worker EXCEPT ![Me].ticks = Ticked]
    /\ Acknowledge(Me, proc.delivery, Current.seq)
    /\ Goto("reacknowledged")
    /\ UNCHANGED <<now, sourceVars, groups, known, crashes>>

RecoverAcknowledges ==
    /\ At("recovering")
    /\ Acknowledge(Me, proc.delivery, Current.seq)
    /\ Goto("reacknowledged")
    /\ UNCHANGED <<now, sourceVars, worker, groups, known, crashes>>

\* An ack.json that exists is kept, otherwise it is written now.
RecoverWritesAck ==
    /\ At("reacknowledged")
    /\ groups' = CurrentWith({"ack"}, FALSE)
    /\ Goto("rewritten")
    /\ UNCHANGED <<now, sourceVars, queueVars, worker, known, crashes>>

RecoverCompletes ==
    /\ At("rewritten")
    /\ groups' = CurrentWith({"complete"}, FALSE)
    /\ Goto("complete")
    /\ UNCHANGED <<now, sourceVars, queueVars, worker, known, crashes>>

RecoveryDies ==
    /\ crashes < MaxCrashes
    /\ \/ proc.step \in {"recovering", "reacknowledged", "rewritten"} /\ UNCHANGED groups
       \/ /\ At("reacknowledged") /\ "ack" \notin Current.files
          /\ groups' = CurrentWith({"ack"}, TRUE)
       \/ At("rewritten") /\ groups' = CurrentWith({"complete"}, TRUE)
    /\ proc' = Idle
    /\ crashes' = crashes + 1
    /\ UNCHANGED <<now, sourceVars, queueVars, worker, known>>

(***************************************************************************)
(* The caller's other calls, between two applications.                     *)
(***************************************************************************)
SourceStep ==
    /\ At("idle")
    /\ PollPrepared \/ PollComplete \/ \E limited \in BOOLEAN : SourceResponse(limited)
    /\ UNCHANGED <<now, queueVars, worker, groups, known, proc, crashes>>

IngestStep ==
    /\ At("idle") /\ Ingest
    /\ UNCHANGED <<now, sourceVars, worker, groups, known, proc, crashes>>

\* The steps at which nothing reads the clock let it wait.
ClockStep ==
    /\ proc.step \in {"idle", "offered", "prepared"}
    /\ ClockTicks
    /\ UNCHANGED <<sourceVars, queueVars, worker, groups, known, proc, crashes>>

ApplyStep ==
    \/ MakeGroup(known[Me] + 1) \/ WriteInputs
    \/ TickBegins \/ TickCompletes \/ TickRaises(Idle)
    \/ WriteResult \/ AcknowledgeQueue \/ WriteAck \/ WriteComplete
    \/ ApplyTooLate \/ ApplyReturns \/ DiesInApply(Idle)

RecoveryStep ==
    RecoverAcknowledges \/ RecoverWritesAck \/ RecoverCompletes \/ RecoveryDies

Next ==
    \/ SourceStep \/ IngestStep \/ ClockStep
    \/ \E r \in Roles : Apply(r) \/ Recover(r)
    \/ ApplyStep \/ RecoveryStep

Spec == Init /\ [][Next]_vars

-----------------------------------------------------------------------------
\* Every result that is durable, of a real delivery, and not yet completed can
\* be recovered, unless an error stands beside it: the crash that interrupted it
\* left the worker and the queue in states the recovery accepts, whatever the other
\* roles did since and however often the recovery itself was interrupted
\* (docs/CASH_ACK_RECOVERY.md:9-32).  A receipt whose write raised after it was
\* whole has a worker-error.json beside it and is refused (cash_ack_recovery.py:77).
DurableResultsRecoverable ==
    \A r \in Roles :
      At("idle") /\ groups[r] # <<>> =>
        LET g == Last(groups[r])
        IN  /\ "worker-result" \in g.files /\ g.files \cap {"worker-error", "complete"} = {}
            /\ ~g.torn /\ g.delivery # 0
            => Recoverable(r)

Executed(r) == {i \in 1..Len(worker[r].ticks) : worker[r].ticks[i] # 0}

\* The pipeline gives each role its deliveries exactly once and in order.
Promised == INSTANCE InOrderApplication WITH
    Consumers <- Roles, queued <- Len(batches),
    executed <- [r \in Roles |-> Cardinality(Executed(r))], confirmed <- cursor
PromiseKept == Promised!Spec
=============================================================================
