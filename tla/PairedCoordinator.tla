------------------------- MODULE PairedCoordinator -------------------------
(* The paired coordinator (paired_cached_coordinator.py): one process that  *)
(* polls the source, indexes and queues the poll, applies it or a heartbeat *)
(* to the worker of each role once per slot, and finalizes all roles after  *)
(* the window.  Before each operation it commits a prepared row to its      *)
(* journal and after it a completed row with the new references; a prepared *)
(* operation is never repeated.  The applications are those of              *)
(* cached_cash_application_v3.py over the archive of                        *)
(* cash_application_v2.py: a completed group is committed to the archive    *)
(* and its folder removed.                                                  *)
EXTENDS CashApplication

CONSTANT Order   \* ROLES as a sequence

ASSUME OrderAssumption == Order \in Seq(Roles) /\ {Order[i] : i \in 1..Len(Order)} = Roles

VARIABLES
    archive,     \* per role: the deliveries of the archived groups
    prefix,      \* source events in the reader's index (reference_prefix_v2.py)
    journal,     \* the operation prepared and not completed, and its role
    components,  \* heads of source, index and queue at the last completed row
    progress     \* the projection of the journal that schedules operations

appVars == <<now, sourceVars, queueVars, worker, groups, proc, crashes>>
vars == <<appVars, known, archive, prefix, journal, components, progress>>
journalVars == <<journal, components, progress, known>>

Operations == {"source_poll", "prefix_ingest", "queue_ingest", "tick", "finalize", "replay", "proof"}
NoOperation == [op |-> "none", role |-> None]
Down == [step |-> "down", role |-> None, delivery |-> 0]
QueueHead == <<Len(batches), cursor, pending>>
CurrentHeads == [source |-> Len(source), prefix |-> prefix, queue |-> QueueHead]

Init ==
    /\ ApplicationInit
    /\ archive = [r \in Roles |-> <<>>]
    /\ prefix = 0
    /\ journal = NoOperation
    /\ components = CurrentHeads
    /\ progress = [anchor |-> -1, work |-> "none", slots |-> [r \in Roles |-> -1],
                   seals |-> {}, replays |-> {}, done |-> FALSE]

(***************************************************************************)
(* step: the next operation and its prepared row.                          *)
(***************************************************************************)
\* mutant: a poll does not wait for the roles
NeverWaits == TRUE

CaughtUp == \A r \in Roles : cursor[r] = Len(batches) /\ pending[r] = 0
FirstOf(S) == Order[CHOOSE i \in 1..Len(Order) :
                      Order[i] \in S /\ \A j \in 1..(i - 1) : Order[j] \notin S]
Behind == {r \in Roles : progress.slots[r] < now}

NextOperation ==
    CASE progress.done -> NoOperation
      [] InWindow /\ progress.work = "prefix" -> [op |-> "prefix_ingest", role |-> None]
      [] InWindow /\ progress.work = "queue" -> [op |-> "queue_ingest", role |-> None]
      [] InWindow /\ progress.work = "none" /\ progress.anchor # Anchor /\ CaughtUp ->
           [op |-> "source_poll", role |-> None]
      [] InWindow /\ progress.work = "none" /\ ~(progress.anchor # Anchor /\ CaughtUp) ->
           IF Behind = {} THEN NoOperation ELSE [op |-> "tick", role |-> FirstOf(Behind)]
      [] ~InWindow /\ progress.work # "none" -> NoOperation
      [] OTHER ->
           IF progress.seals # Roles
             THEN [op |-> "finalize", role |-> FirstOf(Roles \ progress.seals)]
           ELSE IF progress.replays # Roles
             THEN [op |-> "replay", role |-> FirstOf(Roles \ progress.replays)]
           ELSE [op |-> "proof", role |-> None]

\* A prepared source_poll records the anchor it was prepared in.
Prepare ==
    /\ At("idle") /\ NextOperation # NoOperation
    /\ journal' = NextOperation
    /\ progress' = IF NextOperation.op = "source_poll"
                     THEN [progress EXCEPT !.anchor = Anchor] ELSE progress
    /\ proc' = [step |-> NextOperation.op, role |-> NextOperation.role, delivery |-> 0]
    /\ UNCHANGED <<now, sourceVars, queueVars, worker, groups, crashes, known, archive, prefix,
                   components>>

(***************************************************************************)
(* The operations.                                                         *)
(***************************************************************************)
PollSource ==
    /\ At("source_poll")
    /\ \/ PollPrepared /\ UNCHANGED proc
       \/ (\E limited \in BOOLEAN : SourceResponse(limited)) /\ UNCHANGED proc
       \/ PollComplete /\ Goto("called")
       \/ ~SourcePending /\ PollReused /\ Active /\ Goto("called") /\ UNCHANGED sourceVars
    /\ UNCHANGED <<now, queueVars, worker, groups, crashes, archive, prefix, journalVars>>

IndexPrefix ==
    /\ At("prefix_ingest") /\ Active /\ ~SourcePending
    /\ prefix' = Len(source)
    /\ Goto("called")
    /\ UNCHANGED <<now, sourceVars, queueVars, worker, groups, crashes, archive, journalVars>>

IngestQueue ==
    /\ At("queue_ingest") /\ Active
    /\ \/ Ingest
       \/ ~SourcePending /\ retained = Len(source) /\ UNCHANGED queueVars
    /\ Goto("called")
    /\ UNCHANGED <<now, sourceVars, worker, groups, crashes, archive, prefix, journalVars>>

\* An application opens on its exact checkpoint: nothing but the archive.
Checkpointed(r) ==
    groups[r] = <<>> /\ Len(archive[r]) = known[r] /\ WorkerAt(r, known[r])

\* read: the index must end exactly where the batch offered to the role ends.
ReaderAccepts(b) ==
    /\ prefix = batches[b].to /\ prefix = batches[b].attested
    /\ batches[b].to - batches[b].from + 1 = Pairs + 2

ApplyTick ==
    /\ At("tick") /\ Checkpointed(Me) /\ known[Me] < MaxGroups /\ InWindow
    /\ Offer(Me)
    /\ proc' = [proc EXCEPT !.step = "offered", !.delivery = NextDelivery(Me)]
    /\ UNCHANGED <<now, sourceVars, worker, groups, crashes, archive, prefix, journalVars>>

\* read and the decision, both before anything of the group exists.
InputAccepted == InWindow /\ (proc.delivery # 0 => ReaderAccepts(proc.delivery))

ApplyStep ==
    /\ \/ InputAccepted /\ MakeGroup(known[Me] + 1)
       \/ WriteInputs \/ TickBegins \/ TickCompletes \/ TickRaises(Down)
       \/ WriteResult \/ AcknowledgeQueue \/ WriteAck \/ WriteComplete \/ DiesInApply(Down)
    /\ UNCHANGED <<archive, prefix, journal, components, progress>>

\* _archive_tail: the row is committed and read back, then the folder removed.
ArchiveGroup(from, to) ==
    /\ At(from)
    /\ archive' = [archive EXCEPT ![Me] = Append(@, Current.delivery)]
    /\ Goto(to)
    /\ UNCHANGED <<now, sourceVars, queueVars, worker, groups, crashes, prefix, journalVars>>

RemoveGroup(from, to) ==
    /\ At(from)
    /\ groups' = [groups EXCEPT ![Me] = <<>>]
    /\ Goto(to)
    /\ UNCHANGED <<now, sourceVars, queueVars, worker, crashes, archive, prefix, journalVars>>

\* finalize seals the worker; replay and proof write one result file each.
Finish ==
    /\ proc.step \in {"finalize", "replay", "proof"}
    /\ worker' = IF At("finalize") THEN [worker EXCEPT ![Me].state = "terminated"] ELSE worker
    /\ Goto("called")
    /\ UNCHANGED <<now, sourceVars, queueVars, groups, crashes, archive, prefix, journalVars>>

\* An operation that raises leaves its prepared row: a clock that left the
\* window since, an exhausted budget, an input the reader refuses.
OperationRaises ==
    /\ proc.step \in Operations \cup {"offered"}
    /\ At("tick") => ~InWindow \/ known[Me] = MaxGroups
    /\ At("offered") => ~InputAccepted
    /\ proc' = Down
    /\ UNCHANGED <<now, sourceVars, queueVars, worker, groups, crashes, archive, prefix, journalVars>>

(***************************************************************************)
(* The completed row: _transition, with the slot the worker really began.  *)
(***************************************************************************)
\* mutant: the replay of a role is not recorded
ForgetsReplay(j) == IF j.op = "replay" THEN progress ELSE
    CASE j.op = "source_poll" -> [progress EXCEPT !.work = "prefix"]
      [] j.op = "prefix_ingest" -> [progress EXCEPT !.work = "queue"]
      [] j.op = "queue_ingest" -> [progress EXCEPT !.work = "none"]
      [] j.op = "tick" -> [progress EXCEPT !.slots[j.role] = worker[j.role].slot]
      [] j.op = "finalize" -> [progress EXCEPT !.seals = @ \cup {j.role}]
      [] j.op = "proof" -> [progress EXCEPT !.done = TRUE]

Progressed(j) ==
    CASE j.op = "source_poll" -> [progress EXCEPT !.work = "prefix"]
      [] j.op = "prefix_ingest" -> [progress EXCEPT !.work = "queue"]
      [] j.op = "queue_ingest" -> [progress EXCEPT !.work = "none"]
      [] j.op = "tick" -> [progress EXCEPT !.slots[j.role] = worker[j.role].slot]
      [] j.op = "finalize" -> [progress EXCEPT !.seals = @ \cup {j.role}]
      [] j.op = "replay" -> [progress EXCEPT !.replays = @ \cup {j.role}]
      [] j.op = "proof" -> [progress EXCEPT !.done = TRUE]

\* mutant: the row of a tick keeps the queue reference it started from
CompleteStaleRow ==
    /\ components' = IF journal.op = "tick" THEN [CurrentHeads EXCEPT !.queue = components.queue]
                     ELSE CurrentHeads
    /\ progress' = Progressed(journal)
    /\ known' = IF journal.op = "tick" THEN [known EXCEPT ![journal.role] = @ + 1] ELSE known
    /\ journal' = NoOperation

CompleteRow ==
    /\ components' = CurrentHeads
    /\ progress' = Progressed(journal)
    /\ known' = IF journal.op = "tick" THEN [known EXCEPT ![journal.role] = @ + 1] ELSE known
    /\ journal' = NoOperation

Complete ==
    /\ At("called")
    /\ CompleteRow
    /\ proc' = Idle
    /\ UNCHANGED <<now, sourceVars, queueVars, worker, groups, crashes, archive, prefix>>

(***************************************************************************)
(* Crashes and the explicit recovery from any known reference: its chain   *)
(* is replayed, so that the journal alone decides.                         *)
(***************************************************************************)
\* rmtree may have removed a part of the folder.
Dies ==
    /\ crashes < MaxCrashes
    /\ proc.step \in Operations \cup {"idle", "called", "remove", "rearchive", "reremove", "rejournal"}
    /\ ~progress.done
    /\ \/ UNCHANGED groups
       \/ proc.step \in {"remove", "reremove"} /\ groups' = CurrentWith({}, TRUE)
    /\ proc' = Down
    /\ crashes' = crashes + 1
    /\ UNCHANGED <<now, sourceVars, queueVars, worker, archive, prefix, journalVars>>

\* _validate_components, without the role whose tick is under recovery.
HeadsMatch == components.source = Len(source) /\ components.prefix = prefix
RolesMatch(R) ==
    \A r \in R : IF r \in progress.seals THEN Len(archive[r]) = known[r] ELSE Checkpointed(r)

Restartable == journal.op = "none" /\ components = CurrentHeads /\ RolesMatch(Roles)

Restart ==
    /\ At("down") /\ Restartable /\ ~progress.done
    /\ proc' = Idle
    /\ UNCHANGED <<now, sourceVars, queueVars, worker, groups, crashes, archive, prefix, journalVars>>

\* mutant: a raw group that is already in the archive is archived again
RawGroup(r) == Len(groups[r]) = 1 /\ Intact(groups[r][1])

\* SegmentedCashApplicationV2.recover: one completed group beyond the
\* checkpoint, raw, archived and still raw, or archived and removed.
RawTail(r) == Len(archive[r]) = known[r] /\ Len(groups[r]) = 1 /\ Intact(groups[r][1])
Duplicate(r) == Len(archive[r]) = known[r] + 1 /\ Len(groups[r]) = 1 /\ Intact(groups[r][1])
Archived(r) == Len(archive[r]) = known[r] + 1 /\ groups[r] = <<>>
TailDeliveries(r) == archive[r] \o [i \in 1..Len(groups[r]) |-> groups[r][i].delivery]
\* _recovery_worker: the worker stands after the group, the role's cursor after
\* the deliveries of the groups, with none pending.
TailProved(r) ==
    /\ WorkerAt(r, known[r] + 1)
    /\ pending[r] = 0
    /\ cursor[r] = Max({0} \cup {TailDeliveries(r)[i] : i \in 1..Len(TailDeliveries(r))})

TickRecoverable(r) ==
    /\ RawTail(r) \/ Duplicate(r) \/ Archived(r)
    /\ TailProved(r)
    /\ HeadsMatch /\ RolesMatch(Roles \ {r})

RecoverTick ==
    /\ At("down") /\ journal.op = "tick" /\ TickRecoverable(journal.role)
    /\ proc' = [Down EXCEPT !.role = journal.role,
                  !.step = IF RawTail(journal.role) THEN "rearchive"
                           ELSE IF Duplicate(journal.role) THEN "reremove" ELSE "rejournal"]
    /\ UNCHANGED <<now, sourceVars, queueVars, worker, groups, crashes, archive, prefix, journalVars>>

RecoverJournal ==
    /\ At("rejournal")
    /\ CompleteRow
    /\ proc' = Idle
    /\ UNCHANGED <<now, sourceVars, queueVars, worker, groups, crashes, archive, prefix>>

\* The steps at which nothing reads the clock let it wait.
ClockStep ==
    /\ proc.step \in Operations \cup {"idle", "down", "offered", "prepared"}
    /\ ClockTicks
    /\ UNCHANGED <<sourceVars, queueVars, worker, groups, proc, crashes, archive, prefix, journalVars>>

ProcessStep ==
    \/ Prepare \/ PollSource \/ IndexPrefix \/ IngestQueue \/ ApplyTick \/ ApplyStep
    \/ ArchiveGroup("complete", "remove") \/ RemoveGroup("remove", "called")
    \/ Finish \/ OperationRaises \/ Complete
    \/ Restart \/ RecoverTick
    \/ ArchiveGroup("rearchive", "reremove") \/ RemoveGroup("reremove", "rejournal")
    \/ RecoverJournal

Next == ClockStep \/ ProcessStep \/ Dies

Spec == Init /\ [][Next]_vars

\* Time passes, a process that is not killed goes on, and its operator restarts
\* or recovers what may be restarted or recovered.
FairSpec == Spec /\ WF_vars(ClockStep) /\ WF_vars(ProcessStep)

-----------------------------------------------------------------------------
\* The coordinator never brings itself into a refusal that no recovery could
\* lift: the reader's index ends where the batch it is asked for ends, and the
\* worker is asked for a slot it has not used, even when the clock moved on
\* between the prepared row and the tick (paired_cached_coordinator.py:340-356, 279).
NeverRefused ==
    /\ At("offered") /\ proc.delivery # 0 => ReaderAccepts(proc.delivery)
    /\ At("prepared") /\ InWindow => WorkerAccepts(Me)

\* No completed group is lost: its folder goes only after its archive row, the
\* rows have no gap, and they repeat what the worker has executed
\* (cash_application_v2.py:292-315).
GroupsKept ==
    \A r \in Roles :
      /\ Len(archive[r]) <= Len(worker[r].ticks)
      /\ \A i \in 1..Len(archive[r]) : archive[r][i] = worker[r].ticks[i]
      /\ \A i \in 1..known[r] :
           i <= Len(archive[r]) \/ \E g \in {groups[r][j] : j \in 1..Len(groups[r])} : g.seq = i

\* After a crash between two operations, or after a completed tick, the process
\* restarts or the tick is recovered: the references of the journal are those
\* of the components, whatever was under way (paired_cached_coordinator.py:517-546).
\* Not claimed: a folder that a crash left partly removed.
RecoveryAccepts ==
    At("down") =>
      /\ journal.op = "none" => Restartable
      /\ journal.op = "tick" =>
           LET r == journal.role
           IN  (RawTail(r) \/ Duplicate(r) \/ Archived(r)) => TickRecoverable(r)

\* The run ends: with the final proof, or stopped by a prepared operation that
\* cannot be shown to be complete, or by a poll that the end of the window left
\* between the source and the queue.
Unknown == journal.op # "none" /\ ~(journal.op = "tick" /\ TickRecoverable(journal.role))
RunEnds == <>[](progress.done \/ (At("down") /\ Unknown) \/ (~InWindow /\ progress.work # "none"))
=============================================================================
