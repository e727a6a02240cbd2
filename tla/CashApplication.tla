-------------------------- MODULE CashApplication --------------------------
(* One application of a delivery, or of a heartbeat, to the captured paper  *)
(* worker of a role (cash_worker_application.py, with the worker's own      *)
(* prepared/complete log of paper_worker_capture_v2.py).  Every file of a   *)
(* group is written once; the process may die between any two steps, and    *)
(* inside a write, which then leaves part of the file.  A file's contents   *)
(* are the group they belong to, so a receipt is the group's number.        *)
EXTENDS ReferenceDelivery

CONSTANTS
    None,
    MaxGroups,   \* maximum_groups: applications of one role
    MaxCrashes   \* bound

ASSUME ApplicationAssumption == None \notin Roles /\ MaxGroups \in Nat /\ MaxCrashes \in Nat

VARIABLES
    worker,      \* per role: the deliveries of its ticks (0: a heartbeat), whether
                 \* a tick is open, and the slot of the last one begun
    groups,      \* per role: the groups in its folder
    known,       \* per role: the sequence of the checkpoint its caller keeps
    proc,        \* the process: its step, the role and the delivery it serves
    crashes

Files == {"input", "prepared", "worker-result", "worker-error", "ack", "complete"}
CompleteFiles == Files \ {"worker-error"}
Worker == [ticks : Seq(Nat), state : {"idle", "prepared", "terminated"}, slot : Int]
Group == [seq : Nat, delivery : Nat, files : SUBSET Files, torn : BOOLEAN]
Steps == {"offered", "folder", "prepared", "ticking", "ticked", "result", "acknowledged",
          "ackfile", "complete"}
Idle == [step |-> "idle", role |-> None, delivery |-> 0]

ApplicationInit ==
    /\ DeliveryInit
    /\ worker = [r \in Roles |-> [ticks |-> <<>>, state |-> "idle", slot |-> -1]]
    /\ groups = [r \in Roles |-> <<>>]
    /\ known = [r \in Roles |-> 0]
    /\ proc = Idle
    /\ crashes = 0

At(step) == proc.step = step
Goto(step) == proc' = [proc EXCEPT !.step = step]
Me == proc.role
Current == Last(groups[Me])
CurrentWith(files, torn) ==
    [groups EXCEPT ![Me][Len(groups[Me])].files = @ \cup files,
                   ![Me][Len(groups[Me])].torn = @ \/ torn]

\* _scan: every group of the folder is complete.
Intact(g) == g.files = CompleteFiles /\ ~g.torn
\* resume: the worker's log ends with a completed tick, after n ticks.
WorkerAt(r, n) == worker[r].state = "idle" /\ Len(worker[r].ticks) = n

(***************************************************************************)
(* apply: queue.next, then the group's folder and its input.               *)
(***************************************************************************)
QueueOffers(r) ==
    /\ InWindow
    /\ Offer(r)
    /\ proc' = [step |-> "offered", role |-> r, delivery |-> NextDelivery(r)]
    /\ UNCHANGED <<now, sourceVars, worker, groups, known, crashes>>

\* evaluate_cash_packet decides inside the window only.
Late == proc.delivery # 0 /\ ~InWindow

MakeGroup(seq) ==
    /\ At("offered") /\ ~Late
    /\ groups' = [groups EXCEPT ![Me] =
         Append(@, [seq |-> seq, delivery |-> proc.delivery, files |-> {}, torn |-> FALSE])]
    /\ Goto("folder")
    /\ UNCHANGED <<now, sourceVars, queueVars, worker, known, crashes>>

WriteInputs ==
    /\ At("folder")
    /\ groups' = CurrentWith({"input", "prepared"}, FALSE)
    /\ Goto("prepared")
    /\ UNCHANGED <<now, sourceVars, queueVars, worker, known, crashes>>

(***************************************************************************)
(* The worker's tick: prepared and complete are records of its own log.    *)
(***************************************************************************)
\* _begin: a finished log, the window, and one tick per poll slot.
WorkerAccepts(r) == worker[r].state = "idle" /\ InWindow /\ worker[r].slot < now

TickBegins ==
    /\ At("prepared") /\ WorkerAccepts(Me)
    /\ worker' = [worker EXCEPT ![Me].state = "prepared", ![Me].slot = now]
    /\ Goto("ticking")
    /\ UNCHANGED <<now, sourceVars, queueVars, groups, known, crashes>>

Ticked == Append(worker[Me].ticks, proc.delivery)

TickCompletes ==
    /\ At("ticking")
    /\ worker' = [worker EXCEPT ![Me].ticks = Ticked, ![Me].state = "idle"]
    /\ Goto("ticked")
    /\ UNCHANGED <<now, sourceVars, queueVars, groups, known, crashes>>

\* What a raise leaves in the folder: after the tick it may come from the checks,
\* or from the write of the receipt, which is then cut off or whole beside the error.
Raised ==
    {CurrentWith({"worker-error"}, FALSE)} \cup
    {CurrentWith({"worker-result", "worker-error"}, torn) : torn \in {t \in BOOLEAN : At("ticked")}}

\* A raise writes worker-error.json and goes on to the caller: the worker refuses
\* the tick, terminates for lack of resources, stops inside it, terminates after it
\* for its wall budget, or all is well with it and what follows raises.  A kill
\* inside that write leaves a folder that is refused as well.
TickRaises(end) ==
    /\ \/ At("prepared") /\ ~WorkerAccepts(Me) /\ UNCHANGED worker
       \/ /\ At("prepared") /\ WorkerAccepts(Me)
          /\ worker' = [worker EXCEPT ![Me].state = "terminated"]
       \/ At("ticking") /\ UNCHANGED worker
       \/ /\ At("ticking")
          /\ worker' = [worker EXCEPT ![Me].ticks = Ticked, ![Me].state = "terminated"]
       \/ At("ticked") /\ UNCHANGED worker
    /\ groups' \in Raised
    /\ proc' = end
    /\ UNCHANGED <<now, sourceVars, queueVars, known, crashes>>

(***************************************************************************)
(* The receipt is durable before the queue is acknowledged with it.        *)
(***************************************************************************)
WriteResult ==
    /\ At("ticked")
    /\ groups' = CurrentWith({"worker-result"}, FALSE)
    /\ Goto("result")
    /\ UNCHANGED <<now, sourceVars, queueVars, worker, known, crashes>>

\* A heartbeat acknowledges nothing.
AcknowledgeQueue ==
    /\ At("result")
    /\ IF proc.delivery = 0 THEN UNCHANGED queueVars
       ELSE Acknowledge(Me, proc.delivery, Current.seq)
    /\ Goto("acknowledged")
    /\ UNCHANGED <<now, sourceVars, worker, groups, known, crashes>>

WriteAck ==
    /\ At("acknowledged")
    /\ groups' = CurrentWith({"ack"}, FALSE)
    /\ Goto("ackfile")
    /\ UNCHANGED <<now, sourceVars, queueVars, worker, known, crashes>>

WriteComplete ==
    /\ At("ackfile")
    /\ groups' = CurrentWith({"complete"}, FALSE)
    /\ Goto("complete")
    /\ UNCHANGED <<now, sourceVars, queueVars, worker, known, crashes>>

\* The file being written when the process dies (_write_new has no rename).
Written ==
    CASE At("folder") -> {"input"}
      [] At("ticked") -> {"worker-result"}
      [] At("acknowledged") -> {"ack"}
      [] At("ackfile") -> {"complete"}
      [] OTHER -> {}

\* The process dies in an apply, perhaps inside a write.
DiesInApply(end) ==
    /\ crashes < MaxCrashes /\ proc.step \in Steps
    /\ \/ UNCHANGED groups
       \/ Written # {} /\ groups' = CurrentWith(Written, TRUE)
    /\ proc' = end
    /\ crashes' = crashes + 1
    /\ UNCHANGED <<now, sourceVars, queueVars, worker, known>>

-----------------------------------------------------------------------------
(* What an application promises *)

\* A worker executes the deliveries of its role once each, in their order,
\* through every crash, refusal and recovery: a tick whose receipt was lost is
\* never run again (cash_worker_application.py:234, 244, 180).
ExecutedInOrder ==
    \A r \in Roles : LET t == worker[r].ticks IN
      \A i \in 1..Len(t) : t[i] # 0 =>
        /\ \A j \in 1..i - 1 : t[j] < t[i]
        /\ \A d \in 1..t[i] - 1 : \E j \in 1..i - 1 : t[j] = d

\* The queue moves past a delivery only with the receipt of a tick that the
\* worker has completed on this very delivery (cash_worker_application.py:244).
AcknowledgedWasExecuted ==
    \A r \in Roles : \A b \in 1..cursor[r] :
      /\ acks[r][b] \in 1..Len(worker[r].ticks)
      /\ worker[r].ticks[acks[r][b]] = b

\* Both: one execution of each delivery, and the acknowledgement of this one
\* (cash_worker_application.py:210-262).
ExactlyOnce == ExecutedInOrder /\ AcknowledgedWasExecuted
=============================================================================
