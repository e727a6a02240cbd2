---------------------- MODULE PairedCoordinatorProofs ----------------------
(* For any number of roles, groups and crashes: the archive of a role         *)
(* repeats what its worker has executed, without a gap, and every group of    *)
(* the checkpoint is in it; the coordinator never brings itself into a        *)
(* refusal that no recovery could lift; and after a crash its references are  *)
(* those of the components.                                                   *)
EXTENDS PairedCoordinator, WellFoundedInduction, TLAPS

(* The first role of a non-empty set in the order of ROLES is one of the set. *)
LEMMA FirstIsMember ==
  ASSUME NEW S \in SUBSET Roles, S # {}
  PROVE  FirstOf(S) \in S
<1> USE OrderAssumption
<1> DEFINE T == {i \in 1..Len(Order) : Order[i] \in S}
<1>1. Len(Order) \in Nat /\ T \subseteq Nat /\ T # {}
  <2>1. PICK x \in S : TRUE
    OBVIOUS
  <2>2. PICK i \in 1..Len(Order) : Order[i] = x
    BY <2>1
  <2>3. Len(Order) \in Nat
    OBVIOUS
  <2>4. T \subseteq Nat
    BY <2>3
  <2>5. i \in T
    BY <2>2
  <2> QED
    BY <2>3, <2>4, <2>5
<1>2. PICK i \in T : \A j \in T : ~ (<<j, i>> \in OpToRel(<, Nat))
  <2>1. IsWellFoundedOn(OpToRel(<, Nat), Nat)
    BY NatLessThanWellFounded
  <2> HIDE DEF T
  <2> QED
    BY <1>1, <2>1, WFMin
<1>3. \A j \in T : ~ (j < i)
  BY <1>1, <1>2 DEF OpToRel
<1>4. /\ i \in 1..Len(Order) /\ Order[i] \in S
      /\ \A j \in 1..(i - 1) : Order[j] \notin S
  <2>1. i \in 1..Len(Order) /\ Order[i] \in S
    OBVIOUS
  <2>2. ASSUME NEW j \in 1..(i - 1) PROVE Order[j] \notin S
    <3>1. j \in 1..Len(Order) /\ j < i
      BY <1>1, <2>1
    <3>2. j \notin T
      BY <1>3, <3>1
    <3> QED
      BY <3>1, <3>2
  <2> QED
    BY <2>1, <2>2
<1> QED
  BY <1>4 DEF FirstOf

-----------------------------------------------------------------------------
(* The invariant. *)

MakingSteps == {"folder", "prepared", "ticking"}
RanSteps == {"ticked", "result", "acknowledged", "ackfile", "complete", "rearchive"}
ArchivedSteps == {"remove", "reremove"}
TickSteps == {"tick", "offered", "rejournal"} \cup MakingSteps \cup RanSteps \cup ArchivedSteps
CoordinatorSteps == {"idle", "down", "called"} \cup Operations \cup TickSteps

(* Type correctness of what a role's application and its archive depend on.   *)
DataTypeOK ==
    /\ now \in Nat
    /\ cursor \in [Roles -> Nat]
    /\ pending \in [Roles -> Nat]
    /\ worker \in [Roles -> Worker]
    /\ groups \in [Roles -> Seq(Group)]
    /\ archive \in [Roles -> Seq(Nat)]
    /\ known \in [Roles -> Nat]

ControlTypeOK ==
    /\ proc \in [step : CoordinatorSteps, role : Roles \cup {None}, delivery : Nat]
    /\ journal \in [op : Operations \cup {"none"}, role : Roles \cup {None}]

(* A role's archive a, ticks t, folder gs and checkpoint k: one application at *)
(* most is ahead of the checkpoint, and a group left of it is the tick's.     *)
Ahead(a, t, gs, k) ==
    /\ Len(a) \in {k, k + 1} /\ Len(t) \in {k, k + 1} /\ Len(a) <= Len(t)
    /\ Len(gs) <= 1
    /\ \A i \in 1..Len(a) : a[i] = t[i]
    /\ Len(t) = k + 1 /\ Len(gs) = 1 => gs[1].delivery = t[k + 1]

Settled(a, t, gs, k) == Len(a) = k /\ Len(t) = k /\ gs = <<>>

(* What the process has established when it is at step s with delivery d.     *)
Doing(s, d, a, t, gs, k) ==
    /\ s \in {"tick", "offered"} => Settled(a, t, gs, k)
    /\ s \in MakingSteps => Len(a) = k /\ Len(t) = k /\ Len(gs) = 1 /\ gs[1].delivery = d
    /\ s \in RanSteps => Len(a) = k /\ Len(t) = k + 1 /\ Len(gs) = 1
    /\ s \in ArchivedSteps => Len(a) = k + 1 /\ Len(t) = k + 1 /\ Len(gs) = 1
    /\ s \in {"rejournal", "called"} => Len(a) = k + 1 /\ Len(t) = k + 1 /\ gs = <<>>

UnderTick(r) == journal.op = "tick" /\ journal.role = r
RoleOK(r) ==
    /\ Ahead(archive[r], worker[r].ticks, groups[r], known[r])
    /\ ~UnderTick(r) => Settled(archive[r], worker[r].ticks, groups[r], known[r])

(* The prepared row names the operation that the process is performing.       *)
RowOK ==
    /\ proc.step = "idle" => journal.op = "none"
    /\ proc.step \in Operations => journal.op = proc.step /\ journal.role = proc.role
    /\ proc.step = "called" => journal.op # "none" /\ journal.role = proc.role
    /\ proc.step \in TickSteps => journal.op = "tick" /\ journal.role = proc.role
    /\ journal.op \in {"tick", "finalize", "replay"} => journal.role \in Roles

DoingOK ==
    journal.op = "tick" /\ proc.step # "down" =>
        Doing(proc.step, proc.delivery, archive[Me], worker[Me].ticks, groups[Me], known[Me])

(* The roles that are sealed and replayed are roles.                          *)
ProgressOK ==
    /\ {"seals", "replays"} \subseteq DOMAIN progress
    /\ progress.seals \subseteq Roles /\ progress.replays \subseteq Roles

IInv == DataTypeOK /\ ControlTypeOK /\ ProgressOK /\ RowOK /\ DoingOK /\ \A r \in Roles : RoleOK(r)

-----------------------------------------------------------------------------
(* Facts about the values of one role. *)

(* The tick of the group is completed.                                        *)
LEMMA TickAdds ==
  ASSUME NEW a \in Seq(Nat), NEW t \in Seq(Nat), NEW gs \in Seq(Group), NEW k \in Nat,
         NEW d \in Nat, Ahead(a, t, gs, k), Len(a) = k, Len(t) = k, Len(gs) = 1,
         gs[1].delivery = d
  PROVE  Ahead(a, Append(t, d), gs, k) /\ Len(Append(t, d)) = k + 1
<1> DEFINE u == Append(t, d)
<1>1. /\ u \in Seq(Nat) /\ Len(u) = k + 1 /\ u[k + 1] = d
      /\ \A i \in 1..k : u[i] = t[i]
  OBVIOUS
<1> HIDE DEF u
<1>2. Ahead(a, u, gs, k)
  BY <1>1 DEF Ahead
<1> QED
  BY <1>1, <1>2 DEF u

LEMMA SeqMember ==
  ASSUME NEW S, NEW s \in Seq(S), NEW i \in 1..Len(s)
  PROVE  s[i] \in S
OBVIOUS

LEMMA OnlyReplaced ==
  ASSUME NEW S, NEW s \in Seq(S), Len(s) = 1, NEW x \in S
  PROVE  /\ [s EXCEPT ![1] = x] \in Seq(S)
         /\ Len([s EXCEPT ![1] = x]) = 1
         /\ [s EXCEPT ![1] = x][1] = x
OBVIOUS

(* The group is archived.                                                     *)
LEMMA ArchiveAdds ==
  ASSUME NEW a \in Seq(Nat), NEW t \in Seq(Nat), NEW gs \in Seq(Group), NEW k \in Nat,
         Ahead(a, t, gs, k), Len(a) = k, Len(t) = k + 1, Len(gs) = 1
  PROVE  /\ Append(a, gs[1].delivery) \in Seq(Nat)
         /\ Ahead(Append(a, gs[1].delivery), t, gs, k)
         /\ Len(Append(a, gs[1].delivery)) = k + 1
<1>1. gs[1] \in Group
  <2>1. 1 \in 1..Len(gs)
    OBVIOUS
  <2> HIDE DEF Group
  <2> QED
    BY <2>1, SeqMember
<1> DEFINE d == gs[1].delivery
           b == Append(a, d)
<1>2. d \in Nat /\ d = t[k + 1]
  BY <1>1 DEF Ahead, Group
<1>3. /\ b \in Seq(Nat) /\ Len(b) = k + 1 /\ b[k + 1] = d
      /\ \A i \in 1..k : b[i] = a[i]
  BY <1>2
<1> HIDE DEF b, d
<1>4. Ahead(b, t, gs, k)
  BY <1>2, <1>3 DEF Ahead, d
<1> QED
  BY <1>3, <1>4 DEF b, d

(* The folder is removed.                                                     *)
LEMMA FolderRemoved ==
  ASSUME NEW a \in Seq(Nat), NEW t \in Seq(Nat), NEW gs, NEW k \in Nat,
         Ahead(a, t, gs, k)
  PROVE  Ahead(a, t, <<>>, k)
BY DEF Ahead

(* The completed row moves the checkpoint.                                    *)
LEMMA CheckpointMoves ==
  ASSUME NEW a \in Seq(Nat), NEW t \in Seq(Nat), NEW k \in Nat,
         Ahead(a, t, <<>>, k), Len(a) = k + 1, Len(t) = k + 1
  PROVE  Ahead(a, t, <<>>, k + 1) /\ Settled(a, t, <<>>, k + 1)
BY DEF Ahead, Settled

(* A new group, or more files in the group: it has the same delivery.         *)
LEMMA GroupChanges ==
  ASSUME NEW a \in Seq(Nat), NEW t \in Seq(Nat), NEW gs, NEW hs, NEW k \in Nat,
         Ahead(a, t, gs, k), Len(hs) = 1,
         Len(gs) = 1 => hs[1].delivery = gs[1].delivery,
         Len(gs) # 1 => Len(t) = k
  PROVE  Ahead(a, t, hs, k)
BY DEF Ahead

(* More files in the only group of the process' role.                         *)
LEMMA FilesAdded ==
  ASSUME groups \in [Roles -> Seq(Group)], Me \in Roles, Len(groups[Me]) = 1,
         NEW fs \in SUBSET Files, NEW torn \in BOOLEAN
  PROVE  /\ CurrentWith(fs, torn) \in [Roles -> Seq(Group)]
         /\ Len(CurrentWith(fs, torn)[Me]) = 1
         /\ CurrentWith(fs, torn)[Me][1].delivery = groups[Me][1].delivery
         /\ \A r \in Roles : r # Me => CurrentWith(fs, torn)[r] = groups[r]
<1> DEFINE gs == groups[Me]
           g == gs[1]
           g1 == [g EXCEPT !.files = @ \cup fs]
           g2 == [g1 EXCEPT !.torn = @ \/ torn]
           s1 == [gs EXCEPT ![1] = g1]
           s2 == [s1 EXCEPT ![1] = g2]
           h1 == [groups EXCEPT ![Me] = s1]
           h2 == [h1 EXCEPT ![Me] = s2]
<1>1. gs \in Seq(Group) /\ Len(gs) = 1
  OBVIOUS
<1>2. g \in Group
  <2> HIDE DEF gs, Group
  <2>1. 1 \in 1..Len(gs)
    BY <1>1
  <2> QED
    BY <1>1, <2>1, SeqMember
<1>3. g1 \in Group /\ g1.delivery = g.delivery
  <2> HIDE DEF g
  <2> QED
    BY <1>2 DEF Group
<1>4. g2 \in Group /\ g2.delivery = g.delivery
  <2> HIDE DEF g1
  <2> QED
    BY <1>3 DEF Group
<1>5. s1 \in Seq(Group) /\ Len(s1) = 1 /\ s1[1] = g1
  <2> HIDE DEF g1, gs, Group
  <2> QED
    BY <1>1, <1>3, OnlyReplaced
<1>6. s2 \in Seq(Group) /\ Len(s2) = 1 /\ s2[1] = g2
  <2> HIDE DEF g2, s1, Group
  <2> QED
    BY <1>4, <1>5, OnlyReplaced
<1>7. /\ h2 \in [Roles -> Seq(Group)] /\ h2[Me] = s2
      /\ \A r \in Roles : r # Me => h2[r] = groups[r]
  <2> HIDE DEF s1, s2
  <2> QED
    BY <1>5, <1>6
<1>8. CurrentWith(fs, torn) = h2
  <2>1. h1[Me] = s1 /\ h1[Me][1] = g1
    <3> HIDE DEF s1, g1
    <3> QED
      BY <1>5
  <2> QED
    BY <2>1, <1>1 DEF CurrentWith
<1> HIDE DEF h2, s2, g2
<1> QED
  BY <1>4, <1>6, <1>7, <1>8

-----------------------------------------------------------------------------
(* The frames of a step: the parts of the invariant it leaves alone. *)

RolesKept == UNCHANGED <<archive, worker, groups, known, journal>>

(* A step that changes no role, its archive and its checkpoint.               *)
LEMMA KeptFrame ==
  ASSUME IInv, RolesKept
  PROVE  \A r \in Roles : RoleOK(r)'
BY DEF IInv, RoleOK, UnderTick, RolesKept

(* A step that changes only the role of the process, under its tick.          *)
LEMMA RoleFrame ==
  ASSUME IInv, journal.op = "tick", journal.role = Me, UNCHANGED <<known, journal>>,
         \A r \in Roles : r # Me =>
           archive'[r] = archive[r] /\ worker'[r].ticks = worker[r].ticks /\ groups'[r] = groups[r],
         Ahead(archive'[Me], worker'[Me].ticks, groups'[Me], known[Me])
  PROVE  \A r \in Roles : RoleOK(r)'
<1>1. ASSUME NEW r \in Roles, r = Me PROVE RoleOK(r)'
  BY <1>1 DEF RoleOK, UnderTick
<1>2. ASSUME NEW r \in Roles, r # Me PROVE RoleOK(r)'
  BY <1>2 DEF IInv, RoleOK, UnderTick
<1> QED
  BY <1>1, <1>2

(* What the process knows of the role whose tick it performs.                 *)
LEMMA MyRole ==
  ASSUME IInv, proc.step \in TickSteps
  PROVE  /\ Me \in Roles /\ journal.op = "tick" /\ journal.role = Me
         /\ archive[Me] \in Seq(Nat) /\ worker[Me].ticks \in Seq(Nat)
         /\ groups[Me] \in Seq(Group) /\ known[Me] \in Nat /\ worker[Me] \in Worker
         /\ proc.delivery \in Nat
         /\ Ahead(archive[Me], worker[Me].ticks, groups[Me], known[Me])
         /\ Doing(proc.step, proc.delivery, archive[Me], worker[Me].ticks, groups[Me], known[Me])
<1>1. Me \in Roles /\ journal.op = "tick" /\ journal.role = Me
  BY DEF IInv, RowOK, Me
<1>2. proc.step # "down"
  BY DEF TickSteps, MakingSteps, RanSteps, ArchivedSteps
<1>3. worker[Me] \in Worker /\ worker[Me].ticks \in Seq(Nat)
  BY <1>1 DEF IInv, DataTypeOK, Worker
<1>4. /\ archive[Me] \in Seq(Nat) /\ groups[Me] \in Seq(Group) /\ known[Me] \in Nat
      /\ proc.delivery \in Nat
  <2> HIDE DEF Group
  <2> QED
    BY <1>1 DEF IInv, DataTypeOK, ControlTypeOK
<1> QED
  BY <1>1, <1>2, <1>3, <1>4 DEF IInv, RoleOK, DoingOK

(* A step that does not touch the clock, the queue and the roles.             *)
LEMMA StepFrame ==
  ASSUME IInv, RolesKept, UNCHANGED progress, DataTypeOK', ControlTypeOK', RowOK', DoingOK'
  PROVE  IInv'
<1>1. \A r \in Roles : RoleOK(r)'
  BY KeptFrame
<1> QED
  BY <1>1 DEF IInv, ProgressOK

-----------------------------------------------------------------------------
(* The operations outside the tick, and the steps that change no role. *)

(* An operation that is not a tick has returned, or goes on.                  *)
LEMMA OperationFrame ==
  ASSUME IInv, RolesKept, UNCHANGED <<progress, now, cursor, pending>>,
         proc.step \in Operations, journal.op # "tick",
         proc' = proc \/ Goto("called")
  PROVE  IInv'
<1>1. DataTypeOK'
  BY DEF RolesKept, IInv, DataTypeOK
<1>2. ControlTypeOK'
  BY DEF RolesKept, IInv, ControlTypeOK, Goto, CoordinatorSteps
<1>3. RowOK'
  <2>1. CASE proc' = proc
    BY <2>1 DEF RolesKept, IInv, RowOK
  <2>2. CASE Goto("called")
    <3>1. proc'.step = "called" /\ proc'.role = proc.role
      BY <2>2 DEF IInv, ControlTypeOK, Goto
    <3>2. "called" \notin Operations \cup TickSteps
      BY DEF Operations, TickSteps, MakingSteps, RanSteps, ArchivedSteps
    <3>3. journal.op # "none"
      BY DEF IInv, RowOK, Operations
    <3> QED
      BY <3>1, <3>2, <3>3 DEF RolesKept, IInv, RowOK
  <2> QED
    BY <2>1, <2>2
<1>4. DoingOK'
  BY DEF RolesKept, DoingOK
<1> QED
  BY <1>1, <1>2, <1>3, <1>4, StepFrame DEF RolesKept

(* The source, the index and the queue.                                       *)
LEMMA PollKeeps ==
  ASSUME IInv, PollSource \/ IndexPrefix \/ IngestQueue
  PROVE  IInv'
<1>1. /\ RolesKept /\ UNCHANGED <<progress, now>>
      /\ proc.step \in {"source_poll", "prefix_ingest", "queue_ingest"}
      /\ proc' = proc \/ Goto("called")
  BY DEF PollSource, IndexPrefix, IngestQueue, journalVars, RolesKept, At
<1>2. UNCHANGED <<cursor, pending>>
  BY DEF PollSource, IndexPrefix, IngestQueue, Ingest, queueVars
<1>3. journal.op # "tick" /\ proc.step \in Operations
  BY <1>1 DEF IInv, RowOK, Operations
<1> QED
  BY <1>1, <1>2, <1>3, OperationFrame

(* finalize seals the worker of a role: its ticks stay.                       *)
LEMMA FinishKeeps ==
  ASSUME IInv, Finish
  PROVE  IInv'
<1>1. /\ UNCHANGED <<archive, groups, known, journal, progress, now, cursor, pending>>
      /\ proc.step \in {"finalize", "replay", "proof"} /\ Goto("called")
      /\ journal.op = proc.step /\ journal.role = Me
  BY DEF Finish, journalVars, queueVars, IInv, RowOK, Operations, Me
<1>2. /\ worker' \in [Roles -> Worker]
      /\ \A r \in Roles : worker'[r].ticks = worker[r].ticks
  <2>1. CASE proc.step = "finalize"
    <3>1. Me \in Roles
      BY <1>1, <2>1 DEF IInv, RowOK
    <3>2. worker' = [worker EXCEPT ![Me].state = "terminated"]
      BY <2>1 DEF Finish, At
    <3> QED
      BY <3>1, <3>2 DEF IInv, DataTypeOK, Worker
  <2>2. CASE proc.step # "finalize"
    BY <2>2 DEF Finish, At, IInv, DataTypeOK
  <2> QED
    BY <2>1, <2>2
<1>3. DataTypeOK'
  BY <1>1, <1>2 DEF IInv, DataTypeOK
<1>4. proc'.step = "called" /\ proc'.role = proc.role /\ ControlTypeOK'
  BY <1>1 DEF IInv, ControlTypeOK, Goto, CoordinatorSteps
<1>5. RowOK'
  <2>1. "called" \notin Operations \cup TickSteps
    BY DEF Operations, TickSteps, MakingSteps, RanSteps, ArchivedSteps
  <2> QED
    BY <1>1, <1>4, <2>1 DEF IInv, RowOK, Me
<1>6. DoingOK'
  BY <1>1 DEF DoingOK
<1>7. \A r \in Roles : RoleOK(r)'
  BY <1>1, <1>2 DEF IInv, RoleOK, UnderTick
<1> QED
  BY <1>1, <1>3, <1>4, <1>5, <1>6, <1>7 DEF IInv, ProgressOK

(* A step that leaves the process down, or with what a tick begins with.      *)
LEMMA DownFrame ==
  ASSUME IInv, UNCHANGED <<archive, known, journal, progress, now>>, proc' = Down,
         DataTypeOK', \A r \in Roles : RoleOK(r)'
  PROVE  IInv'
<1>1. proc'.step = "down"
  BY DEF Down
<1>2. ControlTypeOK'
  BY DEF IInv, ControlTypeOK, Down, CoordinatorSteps
<1>3. RowOK'
  BY <1>1 DEF IInv, RowOK, Operations, TickSteps, MakingSteps, RanSteps, ArchivedSteps
<1>4. DoingOK'
  BY <1>1 DEF DoingOK
<1> QED
  BY <1>2, <1>3, <1>4 DEF IInv, ProgressOK

LEMMA RaisesKeeps ==
  ASSUME IInv, OperationRaises
  PROVE  IInv'
<1>1. RolesKept /\ proc' = Down /\ UNCHANGED <<progress, now, cursor, pending>>
  BY DEF OperationRaises, RolesKept, journalVars, queueVars
<1>2. DataTypeOK'
  BY <1>1 DEF IInv, DataTypeOK, RolesKept
<1> QED
  BY <1>1, <1>2, KeptFrame, DownFrame DEF RolesKept

LEMMA ClockKeeps ==
  ASSUME IInv, ClockStep
  PROVE  IInv'
<1>1. RolesKept /\ UNCHANGED <<proc, progress, cursor, pending>> /\ now' = now + 1
  BY DEF ClockStep, ClockTicks, RolesKept, journalVars, queueVars
<1>2. DataTypeOK'
  BY <1>1 DEF IInv, DataTypeOK, RolesKept
<1>3. ControlTypeOK' /\ RowOK' /\ DoingOK'
  BY <1>1 DEF IInv, ControlTypeOK, RowOK, DoingOK, Me, RolesKept
<1> QED
  BY <1>1, <1>2, <1>3, StepFrame

-----------------------------------------------------------------------------
(* The scheduler: prepared rows, completed rows, restarts. *)

(* The next operation is one of the seven, for a role where it needs one.     *)
LEMMA NextIsRow ==
  ASSUME ProgressOK, NextOperation # NoOperation
  PROVE  /\ NextOperation \in [op : Operations, role : Roles \cup {None}]
         /\ NextOperation.op \in {"tick", "finalize", "replay"} => NextOperation.role \in Roles
<1>1. Behind # {} => FirstOf(Behind) \in Roles
  BY FirstIsMember DEF Behind
<1>2. progress.seals # Roles => FirstOf(Roles \ progress.seals) \in Roles
  BY FirstIsMember DEF ProgressOK
<1>3. progress.replays # Roles => FirstOf(Roles \ progress.replays) \in Roles
  BY FirstIsMember DEF ProgressOK
<1> QED
  BY <1>1, <1>2, <1>3 DEF NextOperation, NoOperation, Operations

LEMMA PrepareKeeps ==
  ASSUME IInv, Prepare
  PROVE  IInv'
<1> DEFINE n == NextOperation
<1>1. /\ n \in [op : Operations, role : Roles \cup {None}]
      /\ n.op \in {"tick", "finalize", "replay"} => n.role \in Roles
  BY NextIsRow DEF Prepare, IInv
<1>2. /\ UNCHANGED <<archive, worker, groups, known, now, cursor, pending>>
      /\ proc.step = "idle" /\ journal' = n
      /\ proc' = [step |-> n.op, role |-> n.role, delivery |-> 0]
  BY DEF Prepare, At, queueVars
<1> HIDE DEF n
<1>3. journal.op = "none"
  BY <1>2 DEF IInv, RowOK
<1>4. \A r \in Roles : Settled(archive[r], worker[r].ticks, groups[r], known[r])
  BY <1>3 DEF IInv, RoleOK, UnderTick
<1>5. \A r \in Roles : RoleOK(r)'
  BY <1>2, <1>4 DEF IInv, RoleOK
<1>6. DataTypeOK'
  BY <1>2 DEF IInv, DataTypeOK
<1>7. ControlTypeOK'
  BY <1>1, <1>2 DEF ControlTypeOK, CoordinatorSteps
<1>8. RowOK'
  BY <1>1, <1>2 DEF RowOK, Operations, TickSteps, MakingSteps, RanSteps, ArchivedSteps
<1>9. DoingOK'
  <2>1. ASSUME n.op = "tick" PROVE Doing("tick", 0, archive[n.role], worker[n.role].ticks,
                                          groups[n.role], known[n.role])
    BY <1>1, <1>4, <2>1 DEF Doing, MakingSteps, RanSteps, ArchivedSteps
  <2> QED
    BY <1>2, <2>1 DEF DoingOK, Me
<1>10. ProgressOK'
  BY DEF Prepare, IInv, ProgressOK
<1> QED
  BY <1>5, <1>6, <1>7, <1>8, <1>9, <1>10 DEF IInv

(* A completed row records roles only.                                        *)
LEMMA ProgressKept ==
  ASSUME ProgressOK, journal.op \in Operations,
         journal.op \in {"tick", "finalize", "replay"} => journal.role \in Roles,
         progress' = Progressed(journal)
  PROVE  ProgressOK'
BY DEF ProgressOK, Progressed, Operations

(* The completed row of a tick moves the checkpoint over its group; the other *)
(* rows find every role settled.                                              *)
LEMMA CompleteKeeps ==
  ASSUME IInv, Complete \/ RecoverJournal
  PROVE  IInv'
<1>1. /\ UNCHANGED <<archive, worker, groups, now, cursor, pending>>
      /\ proc.step \in {"called", "rejournal"} /\ proc' = Idle
      /\ CompleteRow
  BY DEF Complete, RecoverJournal, At, queueVars
<1>2. /\ journal' = NoOperation /\ progress' = Progressed(journal)
      /\ known' = IF journal.op = "tick" THEN [known EXCEPT ![journal.role] = @ + 1] ELSE known
  BY <1>1 DEF CompleteRow
<1>3. journal.op \in Operations /\ journal.role = Me
  BY <1>1 DEF IInv, RowOK, ControlTypeOK, TickSteps, Operations, Me
<1>4. journal.op \in {"tick", "finalize", "replay"} => journal.role \in Roles
  BY DEF IInv, RowOK
<1>5. ASSUME NEW r \in Roles
      PROVE  known'[r] \in Nat /\ RoleOK(r)'
  <2> DEFINE a == archive[r]
             t == worker[r].ticks
             k == known[r]
  <2>1. a \in Seq(Nat) /\ t \in Seq(Nat) /\ k \in Nat /\ Ahead(a, t, groups[r], k)
    <3> HIDE DEF Group
    <3> QED
      BY DEF IInv, DataTypeOK, Worker, RoleOK
  <2>2. CASE journal.op = "tick" /\ journal.role = r
    <3>1. Doing(proc.step, proc.delivery, a, t, groups[r], k)
      BY <1>1, <1>3, <2>2 DEF IInv, DoingOK
    <3>2. Len(a) = k + 1 /\ Len(t) = k + 1 /\ groups[r] = <<>>
      BY <3>1, <1>1 DEF Doing
    <3>3. known'[r] = k + 1
      BY <1>2, <2>2 DEF IInv, DataTypeOK
    <3> HIDE DEF a, t, k
    <3>4. Ahead(a, t, <<>>, k + 1) /\ Settled(a, t, <<>>, k + 1)
      BY <2>1, <3>2, CheckpointMoves
    <3> USE DEF a, t, k
    <3> QED
      BY <1>1, <2>1, <3>2, <3>3, <3>4 DEF RoleOK
  <2>3. CASE ~ (journal.op = "tick" /\ journal.role = r)
    <3>1. known'[r] = k
      BY <1>2, <2>3 DEF IInv, DataTypeOK
    <3> QED
      BY <1>1, <2>1, <2>3, <3>1 DEF IInv, RoleOK, UnderTick
  <2> QED
    BY <2>2, <2>3
<1>6. DataTypeOK'
  <2>1. known' \in [Roles -> Nat]
    BY <1>2, <1>5 DEF IInv, DataTypeOK
  <2> QED
    BY <1>1, <2>1 DEF IInv, DataTypeOK
<1>7. ControlTypeOK' /\ RowOK' /\ DoingOK'
  BY <1>1, <1>2 DEF ControlTypeOK, RowOK, DoingOK, Idle, NoOperation, CoordinatorSteps, Operations,
     TickSteps, MakingSteps, RanSteps, ArchivedSteps
<1>8. ProgressOK'
  BY <1>2, <1>3, <1>4, ProgressKept DEF IInv
<1> QED
  BY <1>5, <1>6, <1>7, <1>8 DEF IInv

LEMMA RestartKeeps ==
  ASSUME IInv, Restart
  PROVE  IInv'
<1>1. /\ RolesKept /\ UNCHANGED <<progress, now, cursor, pending>>
      /\ proc' = Idle /\ journal.op = "none"
  BY DEF Restart, Restartable, RolesKept, journalVars, queueVars
<1>2. DataTypeOK'
  BY <1>1 DEF IInv, DataTypeOK, RolesKept
<1>3. ControlTypeOK' /\ RowOK' /\ DoingOK'
  BY <1>1 DEF IInv, ControlTypeOK, RowOK, DoingOK, Idle, RolesKept, CoordinatorSteps, Operations,
     TickSteps, MakingSteps, RanSteps, ArchivedSteps
<1> QED
  BY <1>1, <1>2, <1>3, StepFrame

(* A recovery has seen the tick in the worker and where its group is.         *)
LEMMA RecoverKeeps ==
  ASSUME IInv, RecoverTick
  PROVE  IInv'
<1> DEFINE r == journal.role
           s == IF RawTail(r) THEN "rearchive" ELSE IF Duplicate(r) THEN "reremove" ELSE "rejournal"
<1>1. /\ RolesKept /\ UNCHANGED <<progress, now, cursor, pending>>
      /\ journal.op = "tick" /\ r \in Roles
  BY DEF RecoverTick, RolesKept, journalVars, queueVars, IInv, RowOK
<1>2. proc' = [step |-> s, role |-> r, delivery |-> 0] /\ s \in {"rearchive", "reremove", "rejournal"}
  BY DEF RecoverTick, Down
<1>3. Doing(s, 0, archive[r], worker[r].ticks, groups[r], known[r])
  <2>1. TickRecoverable(r) /\ Len(worker[r].ticks) = known[r] + 1
    BY DEF RecoverTick, TickRecoverable, TailProved, WorkerAt
  <2>2. CASE RawTail(r)
    BY <2>1, <2>2 DEF RawTail, Doing, MakingSteps, RanSteps, ArchivedSteps
  <2>3. CASE ~RawTail(r) /\ Duplicate(r)
    BY <2>1, <2>3 DEF Duplicate, Doing, MakingSteps, RanSteps, ArchivedSteps
  <2>4. CASE ~RawTail(r) /\ ~Duplicate(r)
    BY <2>1, <2>4 DEF TickRecoverable, Archived, Doing, MakingSteps, RanSteps, ArchivedSteps
  <2> QED
    BY <2>2, <2>3, <2>4
<1> HIDE DEF s
<1>4. DataTypeOK'
  BY <1>1 DEF IInv, DataTypeOK, RolesKept
<1>5. ControlTypeOK' /\ RowOK'
  BY <1>1, <1>2 DEF IInv, ControlTypeOK, RowOK, RolesKept, CoordinatorSteps, Operations,
     TickSteps, MakingSteps, RanSteps, ArchivedSteps
<1>6. DoingOK'
  BY <1>1, <1>2, <1>3 DEF DoingOK, Me, RolesKept
<1> QED
  BY <1>1, <1>4, <1>5, <1>6, StepFrame

-----------------------------------------------------------------------------
(* The steps of a tick. *)

(* The process is at step s of the tick of its role and goes on to step n.    *)
LEMMA TickFrame ==
  ASSUME IInv, proc.step \in TickSteps, UNCHANGED <<known, journal, progress>>, DataTypeOK',
         \A r \in Roles : RoleOK(r)', NEW n \in TickSteps \cup {"called"}, NEW d \in Nat,
         proc' = [step |-> n, role |-> Me, delivery |-> d],
         Doing(n, d, archive'[Me], worker'[Me].ticks, groups'[Me], known[Me])
  PROVE  IInv'
<1>1. Me \in Roles /\ journal.op = "tick" /\ journal.role = Me
  BY MyRole
<1>2. ControlTypeOK'
  BY <1>1 DEF ControlTypeOK, IInv, CoordinatorSteps
<1>3. RowOK'
  BY <1>1 DEF RowOK, IInv, Operations, TickSteps, MakingSteps, RanSteps, ArchivedSteps, Me
<1>4. DoingOK'
  BY <1>1 DEF DoingOK, Me
<1> QED
  BY <1>2, <1>3, <1>4 DEF IInv, ProgressOK

(* Goto, as a record.                                                         *)
LEMMA GotoIs ==
  ASSUME ControlTypeOK, NEW n, Goto(n)
  PROVE  proc' = [step |-> n, role |-> Me, delivery |-> proc.delivery]
BY DEF ControlTypeOK, Goto, Me

(* The queue's deliveries are natural numbers.                                *)
LEMMA NextIsNat ==
  ASSUME DataTypeOK, NEW r \in Roles
  PROVE  NextDelivery(r) \in Nat
BY DEF DataTypeOK, NextDelivery

LEMMA OfferKeeps ==
  ASSUME IInv, ApplyTick
  PROVE  IInv'
<1>1. /\ UNCHANGED <<archive, worker, groups, now, cursor, known, journal, progress>>
      /\ proc.step = "tick" /\ proc' = [proc EXCEPT !.step = "offered", !.delivery = NextDelivery(Me)]
      /\ pending' = [pending EXCEPT ![Me] = IF NextDelivery(Me) # 0 THEN NextDelivery(Me) ELSE @]
  BY DEF ApplyTick, Offer, At, journalVars
<1>2. proc.step \in TickSteps
  BY <1>1 DEF TickSteps
<1>3. /\ Me \in Roles
      /\ Doing("tick", proc.delivery, archive[Me], worker[Me].ticks, groups[Me], known[Me])
  BY <1>1, <1>2, MyRole
<1>4. NextDelivery(Me) \in Nat
  BY <1>3, NextIsNat DEF IInv
<1>5. DataTypeOK'
  BY <1>1, <1>3, <1>4 DEF IInv, DataTypeOK
<1>6. \A r \in Roles : RoleOK(r)'
  BY <1>1, KeptFrame DEF RolesKept
<1>7. Doing("offered", NextDelivery(Me), archive[Me], worker[Me].ticks, groups[Me], known[Me])
  BY <1>3 DEF Doing, MakingSteps, RanSteps, ArchivedSteps
<1>8. proc' = [step |-> "offered", role |-> Me, delivery |-> NextDelivery(Me)]
  BY <1>1 DEF IInv, ControlTypeOK, Me
<1>9. "offered" \in TickSteps \cup {"called"}
  BY DEF TickSteps
<1> QED
  BY <1>1, <1>2, <1>4, <1>5, <1>6, <1>7, <1>8, <1>9, TickFrame

(* Files are added to the group: the same group, of the same delivery.        *)
LEMMA FilesKeep ==
  ASSUME IInv, proc.step \in TickSteps, Len(groups[Me]) = 1,
         NEW fs \in SUBSET Files, NEW torn \in BOOLEAN, groups' = CurrentWith(fs, torn),
         UNCHANGED <<archive, known, journal, now, cursor, pending, worker>>
  PROVE  /\ DataTypeOK' /\ \A r \in Roles : RoleOK(r)'
         /\ Len(groups'[Me]) = 1 /\ groups'[Me][1].delivery = groups[Me][1].delivery
<1>1. /\ groups' \in [Roles -> Seq(Group)] /\ Len(groups'[Me]) = 1
      /\ groups'[Me][1].delivery = groups[Me][1].delivery
      /\ \A r \in Roles : r # Me => groups'[r] = groups[r]
  <2>1. groups \in [Roles -> Seq(Group)]
    BY DEF IInv, DataTypeOK
  <2> QED
    BY <2>1, MyRole, FilesAdded
<1>2. DataTypeOK'
  BY <1>1 DEF IInv, DataTypeOK
<1>3. Ahead(archive[Me], worker[Me].ticks, groups'[Me], known[Me])
  <2> HIDE DEF Group
  <2> QED
    BY <1>1, MyRole, GroupChanges
<1>4. \A r \in Roles : RoleOK(r)'
  BY <1>1, <1>3, MyRole, RoleFrame
<1> QED
  BY <1>1, <1>2, <1>4

(* The group is made, from a settled role.                                    *)
LEMMA MakeKeeps ==
  ASSUME IInv, MakeGroup(known[Me] + 1), UNCHANGED <<archive, journal, progress>>
  PROVE  IInv'
<1> DEFINE g == [seq |-> known[Me] + 1, delivery |-> proc.delivery, files |-> {}, torn |-> FALSE]
<1>1. /\ UNCHANGED <<archive, worker, now, cursor, pending, known, journal, progress>>
      /\ proc.step = "offered" /\ Goto("folder")
      /\ groups' = [groups EXCEPT ![Me] = Append(@, g)]
  BY DEF MakeGroup, At, queueVars
<1>2. proc.step \in TickSteps
  BY <1>1 DEF TickSteps
<1>3. /\ Me \in Roles /\ known[Me] \in Nat /\ proc.delivery \in Nat
      /\ Settled(archive[Me], worker[Me].ticks, groups[Me], known[Me])
      /\ Ahead(archive[Me], worker[Me].ticks, groups[Me], known[Me])
  BY <1>1, <1>2, MyRole DEF Doing
<1>4. g \in Group /\ g.delivery = proc.delivery
  BY <1>3 DEF Group
<1> HIDE DEF g
<1>5. groups[Me] = <<>>
  BY <1>3 DEF Settled
<1>6. Append(groups[Me], g) = <<g>>
  BY <1>5
<1>7. /\ groups' \in [Roles -> Seq(Group)] /\ groups'[Me] = <<g>>
      /\ \A r \in Roles : r # Me => groups'[r] = groups[r]
  <2> HIDE DEF Group
  <2>1. <<g>> \in Seq(Group)
    BY <1>4
  <2> QED
    BY <1>1, <1>3, <1>6, <2>1 DEF IInv, DataTypeOK
<1>8. DataTypeOK'
  BY <1>1, <1>7 DEF IInv, DataTypeOK
<1>9. Ahead(archive[Me], worker[Me].ticks, <<g>>, known[Me])
  BY <1>3 DEF Settled, Ahead
<1>10. \A r \in Roles : RoleOK(r)'
  BY <1>1, <1>2, <1>7, <1>9, MyRole, RoleFrame
<1>11. Doing("folder", proc.delivery, archive[Me], worker[Me].ticks, <<g>>, known[Me])
  BY <1>3, <1>4 DEF Settled, Doing, MakingSteps, RanSteps, ArchivedSteps
<1>12. proc' = [step |-> "folder", role |-> Me, delivery |-> proc.delivery]
  BY <1>1, GotoIs DEF IInv
<1>13. "folder" \in TickSteps \cup {"called"}
  BY DEF TickSteps, MakingSteps
<1> QED
  BY <1>1, <1>2, <1>3, <1>7, <1>8, <1>10, <1>11, <1>12, <1>13, TickFrame

(* The files of a group that is going on.                                     *)
LEMMA WritesKeep ==
  ASSUME IInv, WriteInputs \/ WriteResult \/ WriteAck \/ WriteComplete,
         UNCHANGED <<archive, journal, progress>>
  PROVE  IInv'
<1>1. /\ UNCHANGED <<archive, worker, now, cursor, pending, known, journal, progress>>
      /\ \E fs \in SUBSET Files : groups' = CurrentWith(fs, FALSE)
      /\ \/ proc.step = "folder" /\ Goto("prepared")
         \/ proc.step = "ticked" /\ Goto("result")
         \/ proc.step = "acknowledged" /\ Goto("ackfile")
         \/ proc.step = "ackfile" /\ Goto("complete")
  BY DEF WriteInputs, WriteResult, WriteAck, WriteComplete, At, queueVars, Files
<1>2. PICK n \in MakingSteps \cup RanSteps :
        /\ Goto(n) /\ proc.step \in MakingSteps \cup RanSteps
        /\ proc.step \in MakingSteps <=> n \in MakingSteps
  BY <1>1 DEF MakingSteps, RanSteps
<1>3. proc.step \in TickSteps /\ n \in TickSteps \cup {"called"}
  BY <1>2 DEF TickSteps
<1>4. /\ Doing(proc.step, proc.delivery, archive[Me], worker[Me].ticks, groups[Me], known[Me])
      /\ proc.delivery \in Nat
  BY <1>3, MyRole
<1>5. Len(groups[Me]) = 1
  BY <1>2, <1>4 DEF Doing
<1>6. /\ DataTypeOK' /\ \A r \in Roles : RoleOK(r)'
      /\ Len(groups'[Me]) = 1 /\ groups'[Me][1].delivery = groups[Me][1].delivery
  BY <1>1, <1>3, <1>5, FilesKeep
<1>7. Doing(n, proc.delivery, archive[Me], worker[Me].ticks, groups'[Me], known[Me])
  BY <1>2, <1>4, <1>6 DEF Doing, MakingSteps, RanSteps, ArchivedSteps
<1>8. proc' = [step |-> n, role |-> Me, delivery |-> proc.delivery]
  BY <1>2, GotoIs DEF IInv
<1> QED
  BY <1>1, <1>3, <1>4, <1>6, <1>7, <1>8, TickFrame

(* What a raise writes: an error, and after the tick the receipt beside it.   *)
LEMMA RaisedFiles ==
  ASSUME groups' \in Raised
  PROVE  /\ ~ At("ticked") => groups' = CurrentWith({"worker-error"}, FALSE)
         /\ \E fs \in SUBSET Files, torn \in BOOLEAN :
              groups' = CurrentWith(fs, torn) /\ "ack" \notin fs
<1>1. {"worker-error"} \in SUBSET Files /\ {"worker-result", "worker-error"} \in SUBSET Files
  BY DEF Files
<1>2. CASE groups' = CurrentWith({"worker-error"}, FALSE)
  BY <1>1, <1>2
<1>3. CASE \E torn \in BOOLEAN :
        At("ticked") /\ groups' = CurrentWith({"worker-result", "worker-error"}, torn)
  BY <1>1, <1>3
<1> QED
  BY <1>2, <1>3 DEF Raised

(* What the worker's tick does to the worker of the process' role.            *)
LEMMA WorkerMoves ==
  ASSUME IInv, TickBegins \/ TickCompletes \/ (TickRaises(Down) /\ ~ At("ticked"))
  PROVE  /\ proc.step \in MakingSteps
         /\ worker' \in [Roles -> Worker]
         /\ \A r \in Roles : r # Me => worker'[r].ticks = worker[r].ticks
         /\ \/ worker'[Me].ticks = worker[Me].ticks
            \/ worker'[Me].ticks = Append(worker[Me].ticks, proc.delivery)
         /\ TickBegins => worker'[Me].ticks = worker[Me].ticks
         /\ TickCompletes => worker'[Me].ticks = Append(worker[Me].ticks, proc.delivery)
<1>1. proc.step \in MakingSteps
  BY DEF TickBegins, TickCompletes, TickRaises, At, MakingSteps
<1>2. /\ Me \in Roles /\ worker[Me] \in Worker /\ proc.delivery \in Nat
      /\ worker[Me].ticks \in Seq(Nat) /\ now \in Int /\ worker \in [Roles -> Worker]
  <2>1. proc.step \in TickSteps
    BY <1>1 DEF TickSteps
  <2> QED
    BY <2>1, MyRole DEF IInv, DataTypeOK
<1> DEFINE u == Append(worker[Me].ticks, proc.delivery)
<1>3. u \in Seq(Nat)
  BY <1>2
<1> HIDE DEF u
<1>4. \/ TickBegins /\ worker' = [worker EXCEPT ![Me].state = "prepared", ![Me].slot = now]
      \/ TickCompletes /\ worker' = [worker EXCEPT ![Me].ticks = u, ![Me].state = "idle"]
      \/ /\ ~TickBegins /\ ~TickCompletes
         /\ \/ worker' = worker
            \/ worker' = [worker EXCEPT ![Me].state = "terminated"]
            \/ worker' = [worker EXCEPT ![Me].ticks = u, ![Me].state = "terminated"]
  <2>1. TickBegins => worker' = [worker EXCEPT ![Me].state = "prepared", ![Me].slot = now]
    BY DEF TickBegins
  <2>2. TickCompletes => worker' = [worker EXCEPT ![Me].ticks = u, ![Me].state = "idle"]
    BY DEF TickCompletes, Ticked, u
  <2>3. TickRaises(Down) /\ ~ At("ticked") =>
          \/ worker' = worker
          \/ worker' = [worker EXCEPT ![Me].state = "terminated"]
          \/ worker' = [worker EXCEPT ![Me].ticks = u, ![Me].state = "terminated"]
    BY DEF TickRaises, Ticked, u
  <2> QED
    BY <2>1, <2>2, <2>3
<1>5. ~ (TickBegins /\ TickCompletes)
  BY DEF TickBegins, TickCompletes, At
<1>6. /\ worker' \in [Roles -> Worker]
      /\ \A r \in Roles : r # Me => worker'[r].ticks = worker[r].ticks
  <2> DEFINE w == worker[Me]
             w1 == [w EXCEPT !.state = "prepared", !.slot = now]
             w2 == [w EXCEPT !.ticks = u, !.state = "idle"]
             w3 == [w EXCEPT !.state = "terminated"]
             w4 == [w EXCEPT !.ticks = u, !.state = "terminated"]
  <2>1. {w1, w2, w3, w4} \subseteq Worker
    BY <1>2, <1>3 DEF Worker
  <2>2. \E v \in {w, w1, w2, w3, w4} : worker' = [worker EXCEPT ![Me] = v]
    BY <1>2, <1>4
  <2>3. PICK v \in Worker : worker' = [worker EXCEPT ![Me] = v]
    <3> HIDE DEF w1, w2, w3, w4
    <3> QED
      BY <1>2, <2>1, <2>2
  <2> HIDE DEF w1, w2, w3, w4, w
  <2> QED
    BY <1>2, <2>3
<1>7. /\ worker'[Me].ticks = worker[Me].ticks \/ worker'[Me].ticks = u
      /\ TickBegins => worker'[Me].ticks = worker[Me].ticks
      /\ TickCompletes => worker'[Me].ticks = u
  BY <1>2, <1>4, <1>5 DEF Worker
<1> QED
  BY <1>1, <1>6, <1>7 DEF u

(* The tick of a group begins, is completed, or raises before it is complete. *)
LEMMA TickKeeps ==
  ASSUME IInv, TickBegins \/ TickCompletes \/ (TickRaises(Down) /\ ~ At("ticked")),
         UNCHANGED <<archive, journal, progress>>
  PROVE  IInv'
<1> DEFINE t == worker[Me].ticks
           u == worker'[Me].ticks
<1>1. UNCHANGED <<archive, now, cursor, pending, known, journal, progress>>
  BY DEF TickBegins, TickCompletes, TickRaises, queueVars
<1>2. proc.step \in TickSteps
  BY WorkerMoves DEF TickSteps
<1>3. /\ Me \in Roles /\ archive[Me] \in Seq(Nat) /\ t \in Seq(Nat)
      /\ groups[Me] \in Seq(Group) /\ known[Me] \in Nat /\ proc.delivery \in Nat
      /\ Ahead(archive[Me], t, groups[Me], known[Me])
      /\ Len(archive[Me]) = known[Me] /\ Len(t) = known[Me]
      /\ Len(groups[Me]) = 1 /\ groups[Me][1].delivery = proc.delivery
  <2> HIDE DEF Group
  <2> QED
    BY <1>2, MyRole, WorkerMoves DEF Doing
<1>4. /\ Ahead(archive[Me], Append(t, proc.delivery), groups[Me], known[Me])
      /\ Len(Append(t, proc.delivery)) = known[Me] + 1
  <2> HIDE DEF t, Group
  <2> QED
    BY <1>3, TickAdds
<1>5. Ahead(archive[Me], u, groups[Me], known[Me])
  BY <1>3, <1>4, WorkerMoves
<1>6. TickBegins \/ TickCompletes => IInv'
  <2> SUFFICES ASSUME TickBegins \/ TickCompletes PROVE IInv'
    OBVIOUS
  <2>1. groups' = groups
    BY DEF TickBegins, TickCompletes
  <2>2. \A r \in Roles : RoleOK(r)'
    BY <1>1, <1>2, <1>5, <2>1, MyRole, WorkerMoves, RoleFrame
  <2>3. DataTypeOK'
    BY <1>1, <2>1, WorkerMoves DEF IInv, DataTypeOK
  <2>4. CASE TickBegins
    <3>1. Goto("ticking") /\ u = t
      BY <2>4, WorkerMoves DEF TickBegins
    <3>2. proc' = [step |-> "ticking", role |-> Me, delivery |-> proc.delivery]
      BY <3>1, GotoIs DEF IInv
    <3>3. Doing("ticking", proc.delivery, archive[Me], u, groups[Me], known[Me])
      BY <1>3, <3>1 DEF Doing, MakingSteps, RanSteps, ArchivedSteps
    <3>4. "ticking" \in TickSteps \cup {"called"}
      BY DEF TickSteps, MakingSteps
    <3> QED
      BY <1>1, <1>2, <1>3, <2>1, <2>2, <2>3, <3>2, <3>3, <3>4, TickFrame
  <2>5. CASE TickCompletes
    <3>1. Goto("ticked") /\ u = Append(t, proc.delivery)
      BY <2>5, WorkerMoves DEF TickCompletes
    <3>2. proc' = [step |-> "ticked", role |-> Me, delivery |-> proc.delivery]
      BY <3>1, GotoIs DEF IInv
    <3>3. Doing("ticked", proc.delivery, archive[Me], u, groups[Me], known[Me])
      BY <1>3, <1>4, <3>1 DEF Doing, MakingSteps, RanSteps, ArchivedSteps
    <3>4. "ticked" \in TickSteps \cup {"called"}
      BY DEF TickSteps, RanSteps
    <3> QED
      BY <1>1, <1>2, <1>3, <2>1, <2>2, <2>3, <3>2, <3>3, <3>4, TickFrame
  <2> QED
    BY <2>4, <2>5
<1>7. TickRaises(Down) /\ ~ At("ticked") => IInv'
  <2> SUFFICES ASSUME TickRaises(Down) /\ ~ At("ticked") PROVE IInv'
    OBVIOUS
  <2>1. groups' = CurrentWith({"worker-error"}, FALSE) /\ proc' = Down
    BY RaisedFiles DEF TickRaises
  <2>2. /\ groups' \in [Roles -> Seq(Group)] /\ Len(groups'[Me]) = 1
        /\ groups'[Me][1].delivery = groups[Me][1].delivery
        /\ \A r \in Roles : r # Me => groups'[r] = groups[r]
    <3>1. groups \in [Roles -> Seq(Group)]
      BY DEF IInv, DataTypeOK
    <3>2. {"worker-error"} \in SUBSET Files /\ FALSE \in BOOLEAN
      BY DEF Files
    <3> HIDE DEF Group
    <3> QED
      BY <1>3, <2>1, <3>1, <3>2, FilesAdded
  <2>3. DataTypeOK'
    BY <1>1, <2>2, WorkerMoves DEF IInv, DataTypeOK
  <2>4. u \in Seq(Nat)
    BY <1>3, WorkerMoves DEF Worker
  <2>5. Ahead(archive[Me], u, groups'[Me], known[Me])
    <3> HIDE DEF u, Group
    <3> QED
      BY <1>3, <1>5, <2>2, <2>4, GroupChanges
  <2>6. \A r \in Roles : RoleOK(r)'
    BY <1>1, <1>2, <2>2, <2>5, MyRole, WorkerMoves, RoleFrame
  <2> QED
    BY <1>1, <2>1, <2>3, <2>6, DownFrame
<1> QED
  BY <1>6, <1>7

(* The acknowledgement of the queue.                                          *)
LEMMA AcknowledgeKeeps ==
  ASSUME IInv, AcknowledgeQueue, UNCHANGED <<archive, journal, progress>>
  PROVE  IInv'
<1>1. /\ UNCHANGED <<archive, worker, groups, now, known, journal, progress>>
      /\ proc.step = "result" /\ Goto("acknowledged")
  BY DEF AcknowledgeQueue, At
<1>2. proc.step \in TickSteps
  BY <1>1 DEF TickSteps, RanSteps
<1>3. /\ Me \in Roles /\ proc.delivery \in Nat
      /\ Doing(proc.step, proc.delivery, archive[Me], worker[Me].ticks, groups[Me], known[Me])
  BY <1>2, MyRole
<1>4. DataTypeOK'
  <2>1. /\ cursor' = cursor \/ cursor' = [cursor EXCEPT ![Me] = proc.delivery]
        /\ pending' = pending \/ pending' = [pending EXCEPT ![Me] = 0]
    BY DEF AcknowledgeQueue, Acknowledge, queueVars
  <2>2. cursor \in [Roles -> Nat] /\ pending \in [Roles -> Nat]
    BY DEF IInv, DataTypeOK
  <2>3. cursor' \in [Roles -> Nat]
    BY <1>3, <2>1, <2>2
  <2>4. pending' \in [Roles -> Nat]
    BY <1>3, <2>1, <2>2
  <2> QED
    BY <1>1, <2>3, <2>4 DEF IInv, DataTypeOK
<1>5. \A r \in Roles : RoleOK(r)'
  BY <1>1, KeptFrame DEF RolesKept
<1>6. Doing("acknowledged", proc.delivery, archive[Me], worker[Me].ticks, groups[Me], known[Me])
  BY <1>1, <1>3 DEF Doing, MakingSteps, RanSteps, ArchivedSteps
<1>7. proc' = [step |-> "acknowledged", role |-> Me, delivery |-> proc.delivery]
  BY <1>1, GotoIs DEF IInv
<1>8. "acknowledged" \in TickSteps \cup {"called"}
  BY DEF TickSteps, RanSteps
<1> QED
  BY <1>1, <1>2, <1>3, <1>4, <1>5, <1>6, <1>7, <1>8, TickFrame

(* The archive row of the group, by the tick or by its recovery.              *)
LEMMA ArchiveKeeps ==
  ASSUME IInv, NEW from \in RanSteps, NEW to \in ArchivedSteps, ArchiveGroup(from, to)
  PROVE  IInv'
<1> DEFINE a == Append(archive[Me], groups[Me][1].delivery)
<1>1. /\ UNCHANGED <<worker, groups, now, cursor, pending, known, journal, progress>>
      /\ proc.step = from /\ Goto(to)
      /\ archive' = [archive EXCEPT ![Me] = Append(@, Current.delivery)]
  BY DEF ArchiveGroup, At, queueVars, journalVars
<1>2. proc.step \in TickSteps /\ to \in TickSteps \cup {"called"}
  BY <1>1 DEF TickSteps
<1>3. /\ Me \in Roles /\ proc.delivery \in Nat
      /\ archive[Me] \in Seq(Nat) /\ worker[Me].ticks \in Seq(Nat)
      /\ groups[Me] \in Seq(Group) /\ known[Me] \in Nat
      /\ Ahead(archive[Me], worker[Me].ticks, groups[Me], known[Me])
      /\ Doing(from, proc.delivery, archive[Me], worker[Me].ticks, groups[Me], known[Me])
  <2> HIDE DEF Group
  <2> QED
    BY <1>1, <1>2, MyRole
<1>4. Len(archive[Me]) = known[Me] /\ Len(worker[Me].ticks) = known[Me] + 1 /\ Len(groups[Me]) = 1
  BY <1>3 DEF Doing
<1>5. a \in Seq(Nat) /\ Ahead(a, worker[Me].ticks, groups[Me], known[Me]) /\ Len(a) = known[Me] + 1
  <2> HIDE DEF Group
  <2> QED
    BY <1>3, <1>4, ArchiveAdds
<1>6. Current = groups[Me][1]
  BY <1>4 DEF Current, Last
<1>7. archive' = [archive EXCEPT ![Me] = a]
  BY <1>1, <1>6
<1> HIDE DEF a
<1>8. /\ archive' \in [Roles -> Seq(Nat)] /\ archive'[Me] = a
      /\ \A r \in Roles : r # Me => archive'[r] = archive[r]
  BY <1>3, <1>5, <1>7 DEF IInv, DataTypeOK
<1>9. DataTypeOK'
  BY <1>1, <1>8 DEF IInv, DataTypeOK
<1>10. \A r \in Roles : RoleOK(r)'
  BY <1>1, <1>2, <1>5, <1>8, MyRole, RoleFrame
<1>11. Doing(to, proc.delivery, a, worker[Me].ticks, groups[Me], known[Me])
  BY <1>4, <1>5 DEF Doing, MakingSteps, RanSteps, ArchivedSteps
<1>12. proc' = [step |-> to, role |-> Me, delivery |-> proc.delivery]
  BY <1>1, GotoIs DEF IInv
<1> QED
  BY <1>1, <1>2, <1>3, <1>8, <1>9, <1>10, <1>11, <1>12, TickFrame

(* The folder goes, once the archive has its group.                           *)
LEMMA RemoveKeeps ==
  ASSUME IInv, NEW from \in ArchivedSteps, NEW to \in {"called", "rejournal"},
         RemoveGroup(from, to)
  PROVE  IInv'
<1>1. /\ UNCHANGED <<archive, worker, now, cursor, pending, known, journal, progress>>
      /\ proc.step = from /\ Goto(to)
      /\ groups' = [groups EXCEPT ![Me] = <<>>]
  BY DEF RemoveGroup, At, queueVars, journalVars
<1>2. proc.step \in TickSteps /\ to \in TickSteps \cup {"called"}
  BY <1>1 DEF TickSteps
<1>3. /\ Me \in Roles /\ proc.delivery \in Nat
      /\ archive[Me] \in Seq(Nat) /\ worker[Me].ticks \in Seq(Nat) /\ known[Me] \in Nat
      /\ Ahead(archive[Me], worker[Me].ticks, groups[Me], known[Me])
      /\ Doing(from, proc.delivery, archive[Me], worker[Me].ticks, groups[Me], known[Me])
  <2> HIDE DEF Group
  <2> QED
    BY <1>1, <1>2, MyRole
<1>4. Len(archive[Me]) = known[Me] + 1 /\ Len(worker[Me].ticks) = known[Me] + 1
  BY <1>3 DEF Doing
<1>5. Ahead(archive[Me], worker[Me].ticks, <<>>, known[Me])
  BY <1>3, FolderRemoved
<1>6. /\ groups' \in [Roles -> Seq(Group)] /\ groups'[Me] = <<>>
      /\ \A r \in Roles : r # Me => groups'[r] = groups[r]
  <2> HIDE DEF Group
  <2>1. <<>> \in Seq(Group)
    OBVIOUS
  <2> QED
    BY <1>1, <1>3, <2>1 DEF IInv, DataTypeOK
<1>7. DataTypeOK'
  BY <1>1, <1>6 DEF IInv, DataTypeOK
<1>8. \A r \in Roles : RoleOK(r)'
  BY <1>1, <1>2, <1>5, <1>6, MyRole, RoleFrame
<1>9. Doing(to, proc.delivery, archive[Me], worker[Me].ticks, <<>>, known[Me])
  BY <1>4 DEF Doing, MakingSteps, RanSteps, ArchivedSteps
<1>10. proc' = [step |-> to, role |-> Me, delivery |-> proc.delivery]
  BY <1>1, GotoIs DEF IInv
<1> QED
  BY <1>1, <1>2, <1>3, <1>6, <1>7, <1>8, <1>9, <1>10, TickFrame

(* A crash, perhaps inside a write or a removal, or a raise after the tick.   *)
LEMMA DeathKeeps ==
  ASSUME IInv,
         \/ Dies
         \/ /\ DiesInApply(Down) \/ (TickRaises(Down) /\ At("ticked"))
            /\ UNCHANGED <<archive, journal, progress>>
  PROVE  IInv'
<1>1. /\ UNCHANGED <<archive, worker, now, cursor, pending, known, journal, progress>>
      /\ proc' = Down
  BY DEF Dies, DiesInApply, TickRaises, At, queueVars, journalVars
<1>2. \/ groups' = groups
      \/ /\ proc.step \in MakingSteps \cup RanSteps \cup ArchivedSteps
         /\ \E fs \in SUBSET Files, torn \in BOOLEAN : groups' = CurrentWith(fs, torn)
  <2>1. CASE Dies
    BY <2>1 DEF Dies, ArchivedSteps
  <2>2. CASE DiesInApply(Down)
    BY <2>2 DEF DiesInApply, Written, At, Files, MakingSteps, RanSteps
  <2>3. CASE TickRaises(Down) /\ At("ticked")
    BY <2>3, RaisedFiles DEF TickRaises, At, RanSteps
  <2> QED
    BY <2>1, <2>2, <2>3
<1>3. CASE groups' = groups
  <2>1. DataTypeOK'
    BY <1>1, <1>3 DEF IInv, DataTypeOK
  <2>2. \A r \in Roles : RoleOK(r)'
    BY <1>1, <1>3, KeptFrame DEF RolesKept
  <2> QED
    BY <1>1, <2>1, <2>2, DownFrame
<1>4. CASE /\ proc.step \in MakingSteps \cup RanSteps \cup ArchivedSteps
           /\ \E fs \in SUBSET Files, torn \in BOOLEAN : groups' = CurrentWith(fs, torn)
  <2>1. proc.step \in TickSteps
    BY <1>4 DEF TickSteps
  <2>2. Len(groups[Me]) = 1
    BY <1>4, <2>1, MyRole DEF Doing
  <2>3. DataTypeOK' /\ \A r \in Roles : RoleOK(r)'
    BY <1>1, <1>4, <2>1, <2>2, FilesKeep
  <2> QED
    BY <1>1, <2>3, DownFrame
<1> QED
  BY <1>2, <1>3, <1>4

-----------------------------------------------------------------------------
(* The theorem. *)

LEMMA Initially == Init => IInv
<1> SUFFICES ASSUME Init PROVE IInv
  OBVIOUS
<1>1. /\ now = 0 /\ cursor = [r \in Roles |-> 0] /\ pending = [r \in Roles |-> 0]
      /\ worker = [r \in Roles |-> [ticks |-> <<>>, state |-> "idle", slot |-> -1]]
      /\ groups = [r \in Roles |-> <<>>] /\ archive = [r \in Roles |-> <<>>]
      /\ known = [r \in Roles |-> 0] /\ proc = Idle /\ journal = NoOperation
  BY DEF Init, ApplicationInit, DeliveryInit
<1>2. DataTypeOK
  <2>1. worker \in [Roles -> Worker]
    BY <1>1 DEF Worker
  <2>2. groups \in [Roles -> Seq(Group)]
    <3> HIDE DEF Group
    <3>1. <<>> \in Seq(Group)
      OBVIOUS
    <3> QED
      BY <1>1, <3>1
  <2> QED
    BY <1>1, <2>1, <2>2 DEF DataTypeOK
<1>3. ControlTypeOK /\ RowOK /\ DoingOK
  BY <1>1 DEF ControlTypeOK, RowOK, DoingOK, Idle, NoOperation, CoordinatorSteps, Operations,
     TickSteps, MakingSteps, RanSteps, ArchivedSteps
<1>4. ProgressOK
  BY DEF Init, ProgressOK
<1>5. \A r \in Roles : RoleOK(r)
  BY <1>1 DEF RoleOK, Ahead, Settled
<1> QED
  BY <1>2, <1>3, <1>4, <1>5 DEF IInv

LEMMA StepKeeps == IInv /\ [Next]_vars => IInv'
<1> SUFFICES ASSUME IInv, [Next]_vars PROVE IInv'
  OBVIOUS
<1>1. CASE UNCHANGED vars
  BY <1>1 DEF vars, appVars, queueVars, IInv, DataTypeOK, ControlTypeOK, ProgressOK, RowOK, DoingOK,
     RoleOK, UnderTick, Me
<1>2. CASE ClockStep
  BY <1>2, ClockKeeps
<1>3. CASE Dies
  BY <1>3, DeathKeeps
<1>4. CASE Prepare
  BY <1>4, PrepareKeeps
<1>5. CASE PollSource \/ IndexPrefix \/ IngestQueue
  BY <1>5, PollKeeps
<1>6. CASE ApplyTick
  BY <1>6, OfferKeeps
<1>7. CASE ApplyStep
  <2>1. UNCHANGED <<archive, journal, progress>>
    BY <1>7 DEF ApplyStep
  <2>2. \/ MakeGroup(known[Me] + 1)
        \/ WriteInputs \/ WriteResult \/ WriteAck \/ WriteComplete
        \/ TickBegins \/ TickCompletes \/ TickRaises(Down)
        \/ AcknowledgeQueue \/ DiesInApply(Down)
    BY <1>7 DEF ApplyStep
  <2> QED
    BY <2>1, <2>2, MakeKeeps, WritesKeep, TickKeeps, AcknowledgeKeeps, DeathKeeps
<1>8. CASE ArchiveGroup("complete", "remove") \/ ArchiveGroup("rearchive", "reremove")
  BY <1>8, ArchiveKeeps DEF RanSteps, ArchivedSteps
<1>9. CASE RemoveGroup("remove", "called") \/ RemoveGroup("reremove", "rejournal")
  BY <1>9, RemoveKeeps DEF ArchivedSteps
<1>10. CASE Finish
  BY <1>10, FinishKeeps
<1>11. CASE OperationRaises
  BY <1>11, RaisesKeeps
<1>12. CASE Complete \/ RecoverJournal
  BY <1>12, CompleteKeeps
<1>13. CASE Restart
  BY <1>13, RestartKeeps
<1>14. CASE RecoverTick
  BY <1>14, RecoverKeeps
<1> QED
  BY <1>1, <1>2, <1>3, <1>4, <1>5, <1>6, <1>7, <1>8, <1>9, <1>10, <1>11, <1>12, <1>13, <1>14
  DEF Next, ProcessStep

(* No completed group is lost and none is archived twice, through every crash *)
(* of a tick, of its archiving and of their recovery: a role's archive        *)
(* repeats, without a gap, what its worker has executed, and every group the  *)
(* checkpoint speaks of is in it (cash_application_v2.py:292-315).            *)
THEOREM GroupsKeptHolds == Spec => []GroupsKept
<1>1. IInv => GroupsKept
  <2> SUFFICES ASSUME IInv, NEW r \in Roles
               PROVE  /\ Len(archive[r]) <= Len(worker[r].ticks)
                      /\ \A i \in 1..Len(archive[r]) : archive[r][i] = worker[r].ticks[i]
                      /\ \A i \in 1..known[r] : i <= Len(archive[r])
    BY DEF GroupsKept
  <2>1. /\ Ahead(archive[r], worker[r].ticks, groups[r], known[r]) /\ known[r] \in Nat
    BY DEF IInv, RoleOK, DataTypeOK
  <2> QED
    BY <2>1 DEF Ahead
<1> QED
  BY <1>1, Initially, StepKeeps, PTL DEF Spec

-----------------------------------------------------------------------------
(* The invariant of the scheduler: source, index and queue move one poll at a *)
(* time, and a worker is asked once per slot for the delivery it is offered.  *)

Poll == Pairs + 2
Kinds == {"poll_prepared", "source_response", "poll_complete"}

ScheduleTypeOK ==
    /\ source \in Seq(Kinds) /\ retained \in Nat /\ prefix \in Nat
    /\ batches \in Seq(Batch)
    /\ progress \in [anchor : Int, work : {"none", "prefix", "queue"}, slots : [Roles -> Int],
                     seals : SUBSET Roles, replays : SUBSET Roles, done : BOOLEAN]

(* What the source holds beyond the queue is one poll, or a part of it.       *)
Fresh == Len(source) - retained
SourceOK ==
    /\ Fresh \in 0..Poll
    /\ \A i \in 1..Fresh :
         source[retained + i] = IF i = 1 THEN "poll_prepared"
                                ELSE IF i = Poll THEN "poll_complete" ELSE "source_response"
    /\ retained # 0 => source[retained] = "poll_complete"

(* Each batch is one poll, offered as soon as it is retained.                 *)
BatchesOK ==
    /\ \A b \in 1..Len(batches) :
         batches[b].attested = batches[b].to /\ batches[b].to - batches[b].from + 1 = Poll
    /\ batches # <<>> => batches[Len(batches)].to = retained
    /\ \A b \in 1..Len(batches) : batches[b].to <= retained
    /\ \A r \in Roles :
         /\ cursor[r] \in {Len(batches) - 1, Len(batches)}
         /\ pending[r] \in {0, cursor[r] + 1} /\ pending[r] <= Len(batches)

(* How far the poll under way has come, by the work that is left of it.       *)
PipelineOK ==
    /\ progress.work = "none" /\ journal.op # "source_poll" => Fresh = 0 /\ prefix = retained
    /\ journal.op = "source_poll" =>
         /\ progress.work = "none" /\ prefix = retained /\ CaughtUp
         /\ proc.step = "source_poll" => Fresh # Poll
         /\ proc.step = "called" => Fresh \in {0, Poll}
    /\ progress.work = "prefix" =>
         /\ journal.op \in {"none", "prefix_ingest"} /\ CaughtUp /\ Fresh \in {0, Poll}
         /\ journal.op = "prefix_ingest" /\ proc.step = "called" => prefix = Len(source)
    /\ progress.work = "queue" =>
         /\ journal.op \in {"none", "queue_ingest"} /\ prefix = Len(source) /\ Fresh \in {0, Poll}
         /\ journal.op = "none" \/ proc.step = "queue_ingest" => CaughtUp
         /\ journal.op = "queue_ingest" /\ proc.step = "called" => Fresh = 0
    /\ journal.op = "prefix_ingest" => progress.work = "prefix"
    /\ journal.op = "queue_ingest" => progress.work = "queue"

(* The heads of the last completed row are those of the components.           *)
HeadsOK ==
    /\ journal.op = "none" => components = CurrentHeads
    /\ journal.op = "tick" => components.source = Len(source) /\ components.prefix = prefix

(* c is the greatest of the first n deliveries of t, or 0.                    *)
Peak(t, n, c) ==
    /\ \A i \in 1..n : t[i] <= c
    /\ c = 0 \/ \E i \in 1..n : t[i] = c

(* What a role's worker w, its checkpoint k, cursor c and pending delivery p  *)
(* look like before and after a tick is acknowledged, and which of its        *)
(* archive a and folder gs show that it was.                                  *)
Waiting(w, k, c, p) == p = 0 /\ Peak(w.ticks, k, c)
Finished(w, k, c, p) ==
    p = 0 /\ w.state = "idle" /\ Len(w.ticks) = k + 1 /\ Peak(w.ticks, k + 1, c)
Acknowledged(a, gs, k) == Len(a) = k + 1 \/ (Len(gs) = 1 /\ "ack" \in gs[1].files)

Sealing(r) == journal.op = "finalize" /\ journal.role = r
ServedOK(r) ==
    /\ ~UnderTick(r) =>
         /\ Waiting(worker[r], known[r], cursor[r], pending[r])
         /\ worker[r].slot = progress.slots[r]
         /\ r \in progress.seals \/ Sealing(r) \/ worker[r].state = "idle"
    /\ UnderTick(r) /\ Acknowledged(archive[r], groups[r], known[r]) =>
         Finished(worker[r], known[r], cursor[r], pending[r])

BegunSteps == {"offered", "folder", "prepared"}
UnackedSteps == BegunSteps \cup {"ticking", "ticked", "result"}
AckedSteps == {"acknowledged", "ackfile", "complete", "remove", "called",
               "rearchive", "reremove", "rejournal"}

(* What the process has established at step s of a tick, with delivery d.     *)
Serving(s, d, w, k, c, p) ==
    /\ s = "tick" => Waiting(w, k, c, p)
    /\ s \in {"tick"} \cup BegunSteps => w.slot < now
    /\ s \in BegunSteps => w.state = "idle"
    /\ s \in UnackedSteps => d = p /\ Peak(w.ticks, k, c)
    /\ s \in {"ticked", "result"} => w.state = "idle" /\ w.ticks[k + 1] = d
    /\ s \in AckedSteps => Finished(w, k, c, p)

ServingOK ==
    journal.op = "tick" /\ proc.step # "down" =>
        Serving(proc.step, proc.delivery, worker[Me], known[Me], cursor[Me], pending[Me])

QueueInv == ScheduleTypeOK /\ SourceOK /\ BatchesOK /\ PipelineOK /\ HeadsOK
ServiceInv == (\A r \in Roles : ServedOK(r)) /\ ServingOK

-----------------------------------------------------------------------------
(* The source and the queue. *)

LEMMA PollLength == Poll \in Nat /\ Poll > 2 /\ Pairs = Poll - 2 /\ BatchEvents \in Nat /\ Poll <= BatchEvents
BY DeliveryAssumption DEF Poll

LEMMA SourceTyped ==
  ASSUME ScheduleTypeOK, SourceOK
  PROVE  /\ Len(source) \in Nat /\ retained \in Nat /\ Fresh \in 0..Poll
         /\ Len(source) = retained + Fresh
BY PollLength DEF ScheduleTypeOK, SourceOK, Fresh

(* The source waits for a poll exactly inside one, and has the responses of   *)
(* the poll it is in.                                                         *)
LEMMA InsidePoll ==
  ASSUME ScheduleTypeOK, SourceOK
  PROVE  /\ SourcePending <=> Fresh \notin {0, Poll}
         /\ SourcePending => Responses = Fresh - 1
<1> DEFINE n == Len(source)
           f == Fresh
<1>1. n \in Nat /\ retained \in Nat /\ f \in 0..Poll /\ n = retained + f
  BY SourceTyped
<1>2. \A i \in 1..f :
        source[retained + i] = IF i = 1 THEN "poll_prepared"
                               ELSE IF i = Poll THEN "poll_complete" ELSE "source_response"
  BY DEF SourceOK
<1>3. source \in Seq(Kinds) /\ (retained # 0 => source[retained] = "poll_complete")
  BY DEF ScheduleTypeOK, SourceOK
<1> HIDE DEF f
<1>4. SourcePending <=> f \notin {0, Poll}
  <2>1. CASE n = 0
    <3>1. source = <<>> /\ f = 0
      BY <1>1, <1>3, <2>1
    <3> QED
      BY <3>1 DEF SourcePending
  <2>2. CASE n # 0
    <3>1. source # <<>> /\ Last(source) = source[n]
      BY <1>3, <2>2 DEF Last
    <3> HIDE DEF n
    <3>2. f = 0 => source[n] = "poll_complete"
      BY <1>1, <1>3, <2>2
    <3>3. f # 0 => source[n] = IF f = 1 THEN "poll_prepared"
                               ELSE IF f = Poll THEN "poll_complete" ELSE "source_response"
      BY <1>1, <1>2
    <3> QED
      BY <1>1, <3>1, <3>2, <3>3, PollLength DEF SourcePending
  <2> QED
    BY <2>1, <2>2
<1>5. ASSUME f \notin {0, Poll} PROVE Responses = f - 1
  <2> DEFINE first == retained + 1
             T == {0} \cup {i \in 1..n : source[i] = "poll_prepared"}
  <2> HIDE DEF n
  <2>1. first \in Nat /\ first \in 1..n /\ source[first] = "poll_prepared"
    BY <1>1, <1>2, <1>5
  <2>2. ASSUME NEW i \in T PROVE i <= first
    <3>1. CASE i = 0
      BY <2>1, <3>1
    <3>2. CASE i # 0 /\ i > first
      <4>1. i - retained \in 1..f /\ i - retained # 1 /\ retained + (i - retained) = i
        BY <1>1, <2>2, <3>2
      <4>2. source[i] # "poll_prepared"
        BY <1>2, <4>1
      <4> QED
        BY <2>2, <3>2, <4>2
    <3>3. i \in Int
      BY <1>1, <2>2
    <3> QED
      BY <2>1, <3>1, <3>2, <3>3
  <2>3. Max(T) = first
    <3>1. T \subseteq Int /\ first \in T
      BY <1>1, <2>1
    <3> HIDE DEF T, first
    <3>2. \A y \in T : first >= y
      BY <2>1, <2>2, <3>1
    <3>3. \A x \in T : (\A y \in T : x >= y) => x = first
      BY <3>1, <3>2
    <3> QED
      BY <3>1, <3>2, <3>3 DEF Max
  <2>4. Responses = n - Max(T)
    BY DEF Responses, n
  <2> HIDE DEF T
  <2> QED
    BY <1>1, <2>3, <2>4 DEF first
<1> QED
  BY <1>4, <1>5 DEF f

(* Another event of the poll under way.                                       *)
LEMMA EventAdded ==
  ASSUME ScheduleTypeOK, SourceOK, Fresh # Poll, NEW kind \in Kinds,
         source' = Append(source, kind), retained' = retained,
         kind = IF Fresh = 0 THEN "poll_prepared"
                ELSE IF Fresh = Poll - 1 THEN "poll_complete" ELSE "source_response"
  PROVE  SourceOK' /\ Fresh' = Fresh + 1 /\ source' \in Seq(Kinds)
<1> DEFINE s == Append(source, kind)
           f == Fresh
<1>1. Len(source) \in Nat /\ retained \in Nat /\ f \in 0..Poll /\ Len(source) = retained + f
  BY SourceTyped
<1>2. /\ s \in Seq(Kinds) /\ Len(s) = Len(source) + 1 /\ s[Len(source) + 1] = kind
      /\ \A i \in 1..Len(source) : s[i] = source[i]
  BY DEF ScheduleTypeOK
<1>3. source' = s
  OBVIOUS
<1>4. \A i \in 1..f :
        source[retained + i] = IF i = 1 THEN "poll_prepared"
                               ELSE IF i = Poll THEN "poll_complete" ELSE "source_response"
  BY DEF SourceOK
<1>5. f # Poll /\ kind = IF f = 0 THEN "poll_prepared"
                         ELSE IF f = Poll - 1 THEN "poll_complete" ELSE "source_response"
  OBVIOUS
<1>6. retained # 0 => source[retained] = "poll_complete"
  BY DEF SourceOK
<1>7. Fresh' = Len(s) - retained
  BY <1>3 DEF Fresh
<1> HIDE DEF s, f
<1>8. Fresh' = f + 1 /\ f + 1 \in 0..Poll
  BY <1>1, <1>2, <1>5, <1>7, PollLength
<1>9. ASSUME NEW i \in 1..f + 1
      PROVE  s[retained + i] = IF i = 1 THEN "poll_prepared"
                               ELSE IF i = Poll THEN "poll_complete" ELSE "source_response"
  <2>1. CASE i \in 1..f
    <3>1. retained + i \in 1..Len(source)
      BY <1>1, <2>1
    <3> QED
      BY <1>2, <1>4, <2>1, <3>1
  <2>2. CASE i = f + 1
    <3>1. retained + i = Len(source) + 1
      BY <1>1, <2>2
    <3> QED
      BY <1>1, <1>2, <1>5, <2>2, <3>1, PollLength
  <2> QED
    BY <1>1, <2>1, <2>2
<1>10. retained # 0 => s[retained] = "poll_complete"
  <2>1. retained # 0 => retained \in 1..Len(source)
    BY <1>1
  <2> QED
    BY <1>2, <1>6, <2>1
<1>11. SourceOK'
  BY <1>3, <1>8, <1>9, <1>10 DEF SourceOK, Poll
<1> QED
  BY <1>2, <1>3, <1>8, <1>11 DEF f

LEMMA SourceSame ==
  ASSUME UNCHANGED <<source, retained>>
  PROVE  /\ (SourceOK' <=> SourceOK) /\ Fresh' = Fresh
         /\ (SourcePending' <=> SourcePending)
BY DEF SourceOK, Fresh, SourcePending, Poll

(* A step of a poll.                                                          *)
LEMMA PollMoves ==
  ASSUME ScheduleTypeOK, SourceOK, Fresh # Poll, retained' = retained,
         PollPrepared \/ PollComplete \/ \E limited \in BOOLEAN : SourceResponse(limited)
  PROVE  /\ SourceOK' /\ source' \in Seq(Kinds)
         /\ IF PollComplete THEN Fresh' = Poll ELSE Fresh' # Poll
<1>1. Fresh \in 0..Poll
  BY SourceTyped
<1>2. CASE PollPrepared
  <2>1. Fresh = 0 /\ source' = Append(source, "poll_prepared")
    BY <1>2, InsidePoll DEF PollPrepared
  <2>2. ~ PollComplete
    BY <1>2 DEF PollPrepared, PollComplete
  <2>3. SourceOK' /\ Fresh' = Fresh + 1 /\ source' \in Seq(Kinds)
    BY <2>1, EventAdded DEF Kinds
  <2> QED
    BY <2>1, <2>2, <2>3, PollLength
<1>3. CASE PollComplete
  <2>1. Fresh # 0 /\ Fresh - 1 = Poll - 2 /\ source' = Append(source, "poll_complete")
    BY <1>3, InsidePoll, PollLength DEF PollComplete
  <2>2. Fresh = Poll - 1
    BY <1>1, <2>1, PollLength
  <2>3. SourceOK' /\ Fresh' = Fresh + 1 /\ source' \in Seq(Kinds)
    BY <2>1, <2>2, EventAdded DEF Kinds
  <2> QED
    BY <1>3, <2>2, <2>3, PollLength
<1>4. CASE \E limited \in BOOLEAN : SourceResponse(limited)
  <2>1. Fresh # 0 /\ Fresh - 1 < Poll - 2 /\ source' = Append(source, "source_response")
    BY <1>4, InsidePoll, PollLength DEF SourceResponse
  <2>2. Fresh < Poll - 1
    BY <1>1, <2>1, PollLength
  <2>3. ~ PollComplete
    <3>1. Responses # Pairs
      BY <1>4, <2>1, PollLength DEF SourceResponse
    <3> QED
      BY <3>1 DEF PollComplete
  <2>4. SourceOK' /\ Fresh' = Fresh + 1 /\ source' \in Seq(Kinds)
    BY <1>1, <2>1, <2>2, EventAdded, PollLength DEF Kinds
  <2> QED
    BY <1>1, <2>2, <2>3, <2>4, PollLength
<1> QED
  BY <1>2, <1>3, <1>4

(* A queue that lacks one poll retains it as one batch.                       *)
LEMMA WholePoll ==
  ASSUME ScheduleTypeOK, SourceOK, Fresh = Poll
  PROVE  Max(WholePolls) = Poll
<1>1. Len(source) \in Nat /\ retained \in Nat /\ Len(source) = retained + Poll
  BY SourceTyped
<1>2. \A i \in 1..Poll :
        source[retained + i] = IF i = 1 THEN "poll_prepared"
                               ELSE IF i = Poll THEN "poll_complete" ELSE "source_response"
  BY DEF SourceOK
<1>3. WholePolls = {Poll}
  <2>1. Poll \in WholePolls
    <3>1. Poll \in 1..BatchEvents /\ Poll \in 1..Poll /\ Poll # 1
      BY PollLength
    <3>2. source[retained + Poll] = "poll_complete" /\ retained + Poll <= Len(source)
      BY <1>1, <1>2, <3>1
    <3> QED
      BY <3>1, <3>2 DEF WholePolls
  <2>2. ASSUME NEW n \in WholePolls PROVE n = Poll
    <3>1. n \in 1..BatchEvents /\ retained + n <= Len(source) /\ source[retained + n] = "poll_complete"
      BY DEF WholePolls
    <3>2. n \in 1..Poll
      BY <1>1, <3>1, PollLength
    <3> QED
      BY <1>2, <3>1, <3>2
  <2> QED
    BY <2>1, <2>2
<1> QED
  BY <1>3, PollLength DEF Max

LEMMA IngestMoves ==
  ASSUME ScheduleTypeOK, SourceOK, BatchesOK, CaughtUp, Fresh = Poll, Ingest, source' = source,
         cursor \in [Roles -> Nat]
  PROVE  /\ retained' = Len(source) /\ batches' \in Seq(Batch)
         /\ SourceOK' /\ BatchesOK' /\ Fresh' = 0
<1> DEFINE e == retained + Poll
           b == [from |-> retained + 1, to |-> e, attested |-> Len(source)]
           bs == Append(batches, b)
<1>1. Len(source) \in Nat /\ retained \in Nat /\ Len(source) = e /\ Poll \in Nat /\ Poll > 2
  BY SourceTyped, PollLength
<1>2. retained' = e /\ batches' = bs /\ cursor' = cursor /\ pending' = pending
  BY WholePoll DEF Ingest
<1>3. /\ b \in Batch /\ b.from = retained + 1 /\ b.to = e /\ b.attested = e
  BY <1>1 DEF Batch
<1> HIDE DEF b
<1>4. /\ bs \in Seq(Batch) /\ Len(bs) = Len(batches) + 1 /\ Len(batches) \in Nat
      /\ bs[Len(batches) + 1] = b
      /\ \A i \in 1..Len(batches) : bs[i] = batches[i]
  BY <1>3 DEF ScheduleTypeOK
<1> HIDE DEF bs
<1>5. Fresh' = 0
  BY <1>1, <1>2 DEF Fresh
<1>6. SourceOK'
  <2>1. source[e] = "poll_complete"
    <3>1. Poll \in 1..Fresh /\ Poll # 1
      BY <1>1
    <3> QED
      BY <3>1 DEF SourceOK
  <2>2. 0 \in 0..Poll /\ 1..0 = {}
    BY <1>1
  <2> QED
    BY <1>2, <1>5, <2>1, <2>2 DEF SourceOK, Poll
<1>7. ASSUME NEW i \in 1..Len(bs)
      PROVE  /\ bs[i].attested = bs[i].to /\ bs[i].to - bs[i].from + 1 = Poll
             /\ bs[i].to <= e
  <2>1. CASE i \in 1..Len(batches)
    <3>1. batches[i] \in Batch
      BY <2>1 DEF ScheduleTypeOK
    <3>2. batches[i].to \in Nat
      BY <3>1 DEF Batch
    <3>3. /\ batches[i].attested = batches[i].to /\ batches[i].to - batches[i].from + 1 = Poll
          /\ batches[i].to <= retained
      BY <2>1 DEF BatchesOK
    <3>4. batches[i].to <= e
      BY <1>1, <3>2, <3>3
    <3> QED
      BY <1>4, <2>1, <3>3, <3>4
  <2>2. CASE i = Len(batches) + 1
    <3>1. e - (retained + 1) + 1 = Poll /\ e <= e
      BY <1>1
    <3> QED
      BY <1>3, <1>4, <2>2, <3>1
  <2> QED
    BY <1>4, <2>1, <2>2
<1>8. bs[Len(bs)].to = e
  BY <1>3, <1>4
<1>9. ASSUME NEW r \in Roles
      PROVE  /\ cursor[r] \in {Len(bs) - 1, Len(bs)}
             /\ pending[r] \in {0, cursor[r] + 1} /\ pending[r] <= Len(bs)
  BY <1>4 DEF CaughtUp
<1>10. BatchesOK'
  BY <1>2, <1>7, <1>8, <1>9 DEF BatchesOK, Poll
<1> QED
  BY <1>1, <1>2, <1>4, <1>5, <1>6, <1>10

-----------------------------------------------------------------------------
(* What each step does to source, index and queue. *)

PollOperations == {"source_poll", "prefix_ingest", "queue_ingest"}

(* A step outside a poll that leaves them alone.                              *)
LEMMA QueueFrame ==
  ASSUME QueueInv,
         UNCHANGED <<source, retained, prefix, batches, cursor, pending, progress, components,
                     journal>>,
         journal.op \notin PollOperations \/ proc' = proc \/ proc'.step = "down"
  PROVE  QueueInv'
<1>1. SourceOK' /\ Fresh' = Fresh
  BY SourceSame DEF QueueInv
<1>2. ScheduleTypeOK' /\ BatchesOK' /\ HeadsOK'
  BY DEF QueueInv, ScheduleTypeOK, BatchesOK, HeadsOK, CurrentHeads, QueueHead, Poll
<1>3. CaughtUp' <=> CaughtUp
  BY DEF CaughtUp
<1>4. PipelineOK'
  BY <1>1, <1>3 DEF QueueInv, PipelineOK, PollOperations, Poll
<1> QED
  BY <1>1, <1>2, <1>4 DEF QueueInv

(* A tick moves the role's cursor and pending delivery only.                  *)
LEMMA TickQueueFrame ==
  ASSUME QueueInv, journal.op = "tick", BatchesOK',
         UNCHANGED <<source, retained, prefix, batches, progress, components, journal>>
  PROVE  QueueInv'
<1>1. SourceOK' /\ Fresh' = Fresh
  BY SourceSame DEF QueueInv
<1>2. ScheduleTypeOK' /\ HeadsOK'
  BY DEF QueueInv, ScheduleTypeOK, HeadsOK
<1>3. PipelineOK'
  BY <1>1 DEF QueueInv, PipelineOK, Poll
<1> QED
  BY <1>1, <1>2, <1>3 DEF QueueInv

LEMMA SourcePolled ==
  ASSUME IInv, QueueInv, PollSource
  PROVE  QueueInv'
<1>1. /\ UNCHANGED <<retained, batches, cursor, pending, prefix, progress, components, journal>>
      /\ proc.step = "source_poll" /\ journal.op = "source_poll"
  BY DEF PollSource, At, queueVars, journalVars, IInv, RowOK, Operations
<1>2. /\ ScheduleTypeOK /\ SourceOK /\ Fresh # Poll /\ Fresh \in 0..Poll
      /\ progress.work = "none" /\ prefix = retained /\ CaughtUp
  BY <1>1, SourceTyped DEF QueueInv, PipelineOK
<1>3. /\ SourceOK' /\ source' \in Seq(Kinds)
      /\ proc'.step = "source_poll" => Fresh' # Poll
      /\ proc'.step = "called" => Fresh' \in {0, Poll}
      /\ proc'.step \in {"source_poll", "called"}
  <2>1. CASE PollPrepared /\ proc' = proc
    <3>1. ~PollComplete
      BY <2>1 DEF PollPrepared, PollComplete
    <3> QED
      BY <1>1, <1>2, <2>1, <3>1, PollMoves
  <2>2. CASE (\E limited \in BOOLEAN : SourceResponse(limited)) /\ proc' = proc
    <3>1. ~PollComplete
      BY <2>2 DEF SourceResponse, PollComplete
    <3> QED
      BY <1>1, <1>2, <2>2, <3>1, PollMoves
  <2>3. CASE PollComplete /\ Goto("called")
    <3>1. proc'.step = "called"
      BY <2>3 DEF IInv, ControlTypeOK, Goto
    <3> QED
      BY <1>1, <1>2, <2>3, <3>1, PollMoves
  <2>4. CASE ~SourcePending /\ Goto("called") /\ UNCHANGED sourceVars
    <3>1. proc'.step = "called" /\ source' = source
      BY <2>4 DEF IInv, ControlTypeOK, Goto, sourceVars
    <3>2. Fresh \in {0, Poll}
      BY <1>2, <2>4, InsidePoll
    <3>3. SourceOK' /\ Fresh' = Fresh
      BY <1>1, <1>2, <3>1, SourceSame
    <3> QED
      BY <1>2, <3>1, <3>2, <3>3 DEF ScheduleTypeOK
  <2> QED
    BY <2>1, <2>2, <2>3, <2>4 DEF PollSource
<1>4. ScheduleTypeOK' /\ BatchesOK' /\ HeadsOK'
  BY <1>1, <1>3 DEF QueueInv, ScheduleTypeOK, BatchesOK, HeadsOK, Poll
<1>5. CaughtUp'
  BY <1>1, <1>2 DEF CaughtUp
<1>6. PipelineOK'
  BY <1>1, <1>2, <1>3, <1>5 DEF PipelineOK, Poll
<1> QED
  BY <1>3, <1>4, <1>6 DEF QueueInv

LEMMA PrefixIndexed ==
  ASSUME IInv, QueueInv, IndexPrefix
  PROVE  QueueInv'
<1>1. /\ UNCHANGED <<source, retained, batches, cursor, pending, progress, components, journal>>
      /\ proc.step = "prefix_ingest" /\ journal.op = "prefix_ingest"
      /\ prefix' = Len(source) /\ proc'.step = "called"
  BY DEF IndexPrefix, At, sourceVars, queueVars, journalVars, IInv, RowOK, Operations, Goto,
     ControlTypeOK
<1>2. SourceOK' /\ Fresh' = Fresh /\ Len(source) \in Nat
  BY <1>1, SourceSame, SourceTyped DEF QueueInv
<1>3. ScheduleTypeOK' /\ BatchesOK' /\ HeadsOK'
  BY <1>1, <1>2 DEF QueueInv, ScheduleTypeOK, BatchesOK, HeadsOK, Poll
<1>4. CaughtUp' <=> CaughtUp
  BY <1>1 DEF CaughtUp
<1>5. PipelineOK'
  BY <1>1, <1>2, <1>4 DEF QueueInv, PipelineOK, Poll
<1> QED
  BY <1>2, <1>3, <1>5 DEF QueueInv

LEMMA PollQueued ==
  ASSUME IInv, QueueInv, IngestQueue
  PROVE  QueueInv'
<1>1. /\ UNCHANGED <<source, prefix, progress, components, journal>>
      /\ proc.step = "queue_ingest" /\ journal.op = "queue_ingest" /\ proc'.step = "called"
  BY DEF IngestQueue, At, sourceVars, journalVars, IInv, RowOK, Operations, Goto, ControlTypeOK
<1>2. /\ progress.work = "queue" /\ prefix = Len(source) /\ Fresh \in {0, Poll} /\ CaughtUp
      /\ ScheduleTypeOK /\ SourceOK /\ BatchesOK
  BY <1>1 DEF QueueInv, PipelineOK
<1>3. Len(source) \in Nat /\ retained \in Nat /\ Len(source) = retained + Fresh
  BY <1>2, SourceTyped
<1>4. retained' \in Nat /\ batches' \in Seq(Batch) /\ SourceOK' /\ BatchesOK' /\ Fresh' = 0
  <2>1. CASE Ingest
    <3>1. Fresh = Poll
      BY <1>2, <1>3, <2>1 DEF Ingest
    <3>2. cursor \in [Roles -> Nat]
      BY DEF IInv, DataTypeOK
    <3> QED
      BY <1>1, <1>2, <1>3, <2>1, <3>1, <3>2, IngestMoves
  <2>2. CASE ~SourcePending /\ retained = Len(source) /\ UNCHANGED queueVars
    <3>1. UNCHANGED <<retained, batches, cursor, pending>> /\ Fresh = 0
      BY <1>3, <2>2 DEF queueVars, Fresh
    <3>2. SourceOK' /\ Fresh' = Fresh
      BY <1>1, <1>2, <3>1, SourceSame
    <3> QED
      BY <1>2, <1>3, <3>1, <3>2 DEF BatchesOK, ScheduleTypeOK, Poll
  <2> QED
    BY <2>1, <2>2 DEF IngestQueue
<1>5. ScheduleTypeOK' /\ HeadsOK'
  BY <1>1, <1>2, <1>4 DEF ScheduleTypeOK, HeadsOK
<1>6. PipelineOK'
  BY <1>1, <1>2, <1>4 DEF PipelineOK, Poll
<1> QED
  BY <1>4, <1>5, <1>6 DEF QueueInv

(* When each operation is prepared.                                           *)
LEMMA NextIsDue ==
  ASSUME ScheduleTypeOK, NextOperation # NoOperation
  PROVE  /\ NextOperation.op \in Operations
         /\ NextOperation.op = "prefix_ingest" => progress.work = "prefix"
         /\ NextOperation.op = "queue_ingest" => progress.work = "queue"
         /\ NextOperation.op \notin {"prefix_ingest", "queue_ingest"} => progress.work = "none"
         /\ NextOperation.op = "source_poll" => CaughtUp
         /\ NextOperation.op = "tick" =>
              NextOperation.role \in Roles /\ progress.slots[NextOperation.role] < now
<1>1. progress.work \in {"none", "prefix", "queue"}
  BY DEF ScheduleTypeOK
<1>2. Behind # {} => FirstOf(Behind) \in Roles /\ progress.slots[FirstOf(Behind)] < now
  BY FirstIsMember DEF Behind
<1> QED
  BY <1>1, <1>2 DEF NextOperation, NoOperation, Operations

LEMMA RowPrepared ==
  ASSUME IInv, QueueInv, Prepare
  PROVE  QueueInv'
<1> DEFINE n == NextOperation
<1>1. /\ UNCHANGED <<source, retained, prefix, batches, cursor, pending, components>>
      /\ journal.op = "none" /\ journal' = n /\ proc'.step = n.op
      /\ progress' = IF n.op = "source_poll" THEN [progress EXCEPT !.anchor = Anchor] ELSE progress
  BY DEF Prepare, At, sourceVars, queueVars, IInv, RowOK
<1>2. /\ n.op \in Operations
      /\ n.op = "prefix_ingest" => progress.work = "prefix"
      /\ n.op = "queue_ingest" => progress.work = "queue"
      /\ n.op \notin {"prefix_ingest", "queue_ingest"} => progress.work = "none"
      /\ n.op = "source_poll" => CaughtUp
  BY NextIsDue DEF Prepare, QueueInv
<1> HIDE DEF n
<1>3. /\ progress' \in [anchor : Int, work : {"none", "prefix", "queue"}, slots : [Roles -> Int],
                        seals : SUBSET Roles, replays : SUBSET Roles, done : BOOLEAN]
      /\ progress'.work = progress.work
  <2>1. Anchor \in Int
    BY DeliveryAssumption DEF Anchor, IInv, DataTypeOK
  <2> QED
    BY <1>1, <2>1 DEF QueueInv, ScheduleTypeOK
<1>4. SourceOK' /\ Fresh' = Fresh
  BY <1>1, SourceSame DEF QueueInv
<1>5. ScheduleTypeOK' /\ BatchesOK'
  BY <1>1, <1>3 DEF QueueInv, ScheduleTypeOK, BatchesOK, Poll
<1>6. HeadsOK'
  <2>1. components = CurrentHeads /\ n.op # "none"
    BY <1>1, <1>2 DEF QueueInv, HeadsOK, Operations
  <2> QED
    BY <1>1, <2>1 DEF HeadsOK, CurrentHeads
<1>7. CaughtUp' <=> CaughtUp
  BY <1>1 DEF CaughtUp
<1>8. Poll > 2 /\ Poll \in Nat /\ Fresh \in 0..Poll
  BY PollLength, SourceTyped DEF QueueInv
<1>9. PipelineOK'
  BY <1>1, <1>2, <1>3, <1>4, <1>7, <1>8 DEF QueueInv, PipelineOK, Operations, Poll
<1> QED
  BY <1>4, <1>5, <1>6, <1>9 DEF QueueInv

(* A completed row.                                                           *)
LEMMA RowCompleted ==
  ASSUME IInv, QueueInv, Complete \/ RecoverJournal
  PROVE  QueueInv'
<1>1. /\ UNCHANGED <<source, retained, prefix, batches, cursor, pending, worker>>
      /\ proc.step \in {"called", "rejournal"} /\ proc'.step = "idle"
      /\ CompleteRow
  BY DEF Complete, RecoverJournal, At, sourceVars, queueVars, Idle
<1>2. /\ journal' = NoOperation /\ progress' = Progressed(journal) /\ components' = CurrentHeads
  BY <1>1 DEF CompleteRow
<1>3. /\ journal.op \in Operations /\ (proc.step = "rejournal" => journal.op = "tick")
      /\ (journal.op \in {"tick", "finalize", "replay"} => journal.role \in Roles)
  BY <1>1 DEF IInv, RowOK, ControlTypeOK, TickSteps, Operations
<1>4. /\ progress' \in [anchor : Int, work : {"none", "prefix", "queue"}, slots : [Roles -> Int],
                        seals : SUBSET Roles, replays : SUBSET Roles, done : BOOLEAN]
      /\ progress'.work = IF journal.op = "source_poll" THEN "prefix"
                          ELSE IF journal.op = "prefix_ingest" THEN "queue"
                          ELSE IF journal.op = "queue_ingest" THEN "none" ELSE progress.work
  <2>1. \A r \in Roles : worker[r].slot \in Int
    BY DEF IInv, DataTypeOK, Worker
  <2> QED
    BY <1>2, <1>3, <2>1 DEF QueueInv, ScheduleTypeOK, Progressed, Operations
<1>5. SourceOK' /\ Fresh' = Fresh
  BY <1>1, SourceSame DEF QueueInv
<1>6. ScheduleTypeOK' /\ BatchesOK'
  BY <1>1, <1>4 DEF QueueInv, ScheduleTypeOK, BatchesOK, Poll
<1>7. HeadsOK'
  BY <1>1, <1>2 DEF HeadsOK, CurrentHeads, QueueHead, NoOperation
<1>8. CaughtUp' <=> CaughtUp
  BY <1>1 DEF CaughtUp
<1>9. /\ Poll > 2 /\ Poll \in Nat /\ Len(source) = retained + Fresh /\ retained \in Nat
      /\ Len(source) \in Nat
  BY PollLength, SourceTyped DEF QueueInv
<1>10. journal'.op = "none"
  BY <1>2 DEF NoOperation
<1>11. PipelineOK'
  <2>1. CASE journal.op = "source_poll"
    <3>1. CaughtUp /\ Fresh \in {0, Poll} /\ progress'.work = "prefix"
      BY <1>1, <1>3, <1>4, <2>1 DEF QueueInv, PipelineOK
    <3> QED
      BY <1>5, <1>8, <1>10, <3>1 DEF PipelineOK, Poll
  <2>2. CASE journal.op = "prefix_ingest"
    <3>1. CaughtUp /\ Fresh \in {0, Poll} /\ prefix = Len(source) /\ progress'.work = "queue"
      BY <1>1, <1>3, <1>4, <2>2 DEF QueueInv, PipelineOK
    <3> QED
      BY <1>1, <1>5, <1>8, <1>10, <3>1 DEF PipelineOK, Poll
  <2>3. CASE journal.op = "queue_ingest"
    <3>1. Fresh = 0 /\ prefix = Len(source) /\ progress'.work = "none"
      BY <1>1, <1>3, <1>4, <2>3 DEF QueueInv, PipelineOK
    <3> QED
      BY <1>1, <1>5, <1>9, <1>10, <3>1 DEF PipelineOK, Poll
  <2>4. CASE journal.op \notin PollOperations
    <3>1. progress.work = "none" /\ progress'.work = "none"
      BY <1>3, <1>4, <2>4 DEF QueueInv, PipelineOK, Operations, ScheduleTypeOK, PollOperations
    <3>2. Fresh = 0 /\ prefix = retained
      BY <2>4, <3>1 DEF QueueInv, PipelineOK, PollOperations
    <3> QED
      BY <1>1, <1>5, <1>10, <3>1, <3>2 DEF PipelineOK, Poll
  <2> QED
    BY <2>1, <2>2, <2>3, <2>4 DEF PollOperations
<1> QED
  BY <1>5, <1>6, <1>7, <1>11 DEF QueueInv

-----------------------------------------------------------------------------
(* What each step does to the worker and the queue of a role. *)

(* A step that leaves every role as it was.                                   *)
LEMMA ServedSame ==
  ASSUME ServiceInv,
         UNCHANGED <<worker, known, cursor, pending, archive, groups, progress, journal>>
  PROVE  \A r \in Roles : ServedOK(r)'
BY DEF ServiceInv, ServedOK, UnderTick, Sealing

(* A step that changes only the role under the tick of the process.           *)
LEMMA ServedFrame ==
  ASSUME ServiceInv, journal.op = "tick", journal.role = Me, UNCHANGED <<progress, journal, known>>,
         \A r \in Roles : r # Me =>
           /\ worker'[r] = worker[r] /\ cursor'[r] = cursor[r] /\ pending'[r] = pending[r]
           /\ archive'[r] = archive[r] /\ groups'[r] = groups[r],
         Acknowledged(archive'[Me], groups'[Me], known[Me]) =>
           Finished(worker'[Me], known[Me], cursor'[Me], pending'[Me])
  PROVE  \A r \in Roles : ServedOK(r)'
<1>1. ASSUME NEW r \in Roles, r = Me PROVE ServedOK(r)'
  BY <1>1 DEF ServedOK, UnderTick
<1>2. ASSUME NEW r \in Roles, r # Me PROVE ServedOK(r)'
  BY <1>2 DEF ServiceInv, ServedOK, UnderTick, Sealing
<1> QED
  BY <1>1, <1>2

(* Outside a tick only the roles matter.                                      *)
LEMMA ServingIdle == journal'.op # "tick" \/ proc'.step = "down" => ServingOK'
BY DEF ServingOK

(* The first ticks stay when one is added, and it may be the highest.         *)
LEMMA PeakBefore ==
  ASSUME NEW t \in Seq(Nat), NEW k \in Nat, NEW c, NEW d \in Nat, Len(t) = k, Peak(t, k, c)
  PROVE  Peak(Append(t, d), k, c) /\ Append(t, d)[k + 1] = d /\ Len(Append(t, d)) = k + 1
<1> DEFINE u == Append(t, d)
<1>1. Len(u) = k + 1 /\ u[k + 1] = d /\ \A i \in 1..k : u[i] = t[i]
  OBVIOUS
<1> HIDE DEF u
<1>2. Peak(u, k, c)
  BY <1>1 DEF Peak
<1> QED
  BY <1>1, <1>2 DEF u

LEMMA PeakAfter ==
  ASSUME NEW t \in Seq(Nat), NEW k \in Nat, NEW c \in Nat, Peak(t, k, c), Len(t) = k + 1,
         t[k + 1] \in {0, c + 1}
  PROVE  Peak(t, k + 1, IF t[k + 1] = 0 THEN c ELSE t[k + 1])
<1>1. \A i \in 1..k + 1 : t[i] \in Nat
  OBVIOUS
<1>2. \A i \in 1..k + 1 : i \in 1..k \/ i = k + 1
  OBVIOUS
<1>3. \A i \in 1..k : i \in 1..k + 1
  OBVIOUS
<1>4. CASE t[k + 1] = 0
  BY <1>1, <1>2, <1>3, <1>4 DEF Peak
<1>5. CASE t[k + 1] = c + 1
  <2>1. \A i \in 1..k : t[i] <= c + 1
    BY <1>1, <1>3 DEF Peak
  <2>2. c + 1 # 0 /\ k + 1 \in 1..k + 1
    OBVIOUS
  <2> QED
    BY <1>2, <1>5, <2>1, <2>2 DEF Peak
<1> QED
  BY <1>4, <1>5

(* What the process knows of the role it serves.                              *)
LEMMA MyService ==
  ASSUME IInv, ServiceInv, proc.step \in TickSteps
  PROVE  /\ Me \in Roles /\ journal.op = "tick" /\ journal.role = Me
         /\ cursor[Me] \in Nat /\ pending[Me] \in Nat /\ now \in Nat /\ worker[Me].slot \in Int
         /\ Serving(proc.step, proc.delivery, worker[Me], known[Me], cursor[Me], pending[Me])
         /\ Acknowledged(archive[Me], groups[Me], known[Me]) =>
              Finished(worker[Me], known[Me], cursor[Me], pending[Me])
<1>1. Me \in Roles /\ journal.op = "tick" /\ journal.role = Me
  BY MyRole
<1>2. proc.step # "down"
  BY DEF TickSteps, MakingSteps, RanSteps, ArchivedSteps
<1>3. cursor[Me] \in Nat /\ pending[Me] \in Nat /\ now \in Nat /\ worker[Me].slot \in Int
  BY <1>1 DEF IInv, DataTypeOK, Worker
<1>4. Serving(proc.step, proc.delivery, worker[Me], known[Me], cursor[Me], pending[Me])
  BY <1>1, <1>2 DEF ServiceInv, ServingOK
<1>5. ServedOK(Me) /\ UnderTick(Me)
  BY <1>1 DEF ServiceInv, UnderTick
<1> QED
  BY <1>1, <1>3, <1>4, <1>5 DEF ServedOK

(* Before its tick is completed nothing of a role shows an acknowledgement.   *)
LEMMA NotYet ==
  ASSUME IInv, ServiceInv, proc.step \in {"tick", "offered"} \cup MakingSteps
  PROVE  ~ Acknowledged(archive[Me], groups[Me], known[Me])
<1>1. proc.step \in TickSteps
  BY DEF TickSteps
<1>2. Doing(proc.step, proc.delivery, archive[Me], worker[Me].ticks, groups[Me], known[Me])
  BY <1>1, MyRole
<1>3. Len(worker[Me].ticks) = known[Me] /\ known[Me] \in Nat
  BY <1>1, <1>2, MyRole DEF Doing, Settled
<1>4. ~ Finished(worker[Me], known[Me], cursor[Me], pending[Me])
  BY <1>3 DEF Finished
<1> QED
  BY <1>1, <1>4, MyService

LEMMA ServingLater ==
  ASSUME journal'.op = "tick", NEW n, NEW d, proc' = [step |-> n, role |-> Me, delivery |-> d],
         now' = now,
         Serving(n, d, worker'[Me], known'[Me], cursor'[Me], pending'[Me])
  PROVE  ServingOK'
BY DEF ServingOK, Serving, Me

(* The delivery that is offered is the last batch, or none.                   *)
LEMMA OfferIsLast ==
  ASSUME IInv, QueueInv, Fresh = 0, NEW r \in Roles
  PROVE  LET d == NextDelivery(r)
         IN  /\ d \in {0, cursor[r] + 1} /\ d <= Len(batches)
             /\ pending[r] # 0 => d = pending[r]
             /\ d # 0 => d = Len(batches)
<1> DEFINE b == IF pending[r] # 0 THEN pending[r] ELSE cursor[r] + 1
<1>1. /\ cursor[r] \in Nat /\ pending[r] \in Nat /\ Len(batches) \in Nat
      /\ cursor[r] \in {Len(batches) - 1, Len(batches)}
      /\ pending[r] \in {0, cursor[r] + 1} /\ pending[r] <= Len(batches)
  BY DEF IInv, DataTypeOK, QueueInv, BatchesOK, ScheduleTypeOK
<1>2. b = cursor[r] + 1
  BY <1>1
<1>3. NextDelivery(r) = IF b <= Len(batches) /\ Resolved(b) THEN b ELSE 0
  BY DEF NextDelivery
<1> HIDE DEF b
<1>4. b <= Len(batches) => Resolved(b)
  <2>1. b <= Len(batches) => b \in 1..Len(batches)
    BY <1>1, <1>2
  <2>2. ASSUME b \in 1..Len(batches) PROVE Resolved(b)
    BY <2>2 DEF QueueInv, BatchesOK, Resolved
  <2> QED
    BY <2>1, <2>2
<1> QED
  BY <1>1, <1>2, <1>3, <1>4

LEMMA DeliveryOffered ==
  ASSUME IInv, QueueInv, ServiceInv, ApplyTick
  PROVE  QueueInv' /\ ServiceInv'
<1> DEFINE d == NextDelivery(Me)
<1>1. /\ UNCHANGED <<source, retained, batches, cursor, worker, groups, archive, prefix, now,
                     known, journal, components, progress>>
      /\ proc.step = "tick" /\ proc' = [proc EXCEPT !.step = "offered", !.delivery = d]
      /\ pending' = [pending EXCEPT ![Me] = IF d # 0 THEN d ELSE @]
      /\ worker[Me].state = "idle"
  BY DEF ApplyTick, Offer, At, sourceVars, journalVars, Checkpointed, WorkerAt
<1>2. proc.step \in TickSteps
  BY <1>1 DEF TickSteps
<1>3. /\ Me \in Roles /\ journal.op = "tick" /\ journal.role = Me
      /\ pending[Me] = 0 /\ Peak(worker[Me].ticks, known[Me], cursor[Me])
      /\ worker[Me].slot < now
  BY <1>1, <1>2, MyService DEF Serving, Waiting
<1>4. Fresh = 0
  BY <1>3 DEF QueueInv, PipelineOK, ScheduleTypeOK
<1>5. d \in {0, cursor[Me] + 1} /\ d <= Len(batches)
  BY <1>3, <1>4, OfferIsLast
<1> HIDE DEF d
<1>6. /\ pending'[Me] = d
      /\ \A r \in Roles : r # Me => pending'[r] = pending[r]
  BY <1>1, <1>3 DEF IInv, DataTypeOK
<1>7. BatchesOK'
  <2>1. \A r \in Roles : /\ cursor[r] \in {Len(batches) - 1, Len(batches)}
                         /\ pending'[r] \in {0, cursor[r] + 1} /\ pending'[r] <= Len(batches)
    <3> TAKE r \in Roles
    <3>1. CASE r = Me
      BY <1>5, <1>6, <3>1 DEF QueueInv, BatchesOK
    <3>2. CASE r # Me
      BY <1>6, <3>2 DEF QueueInv, BatchesOK
    <3> QED
      BY <3>1, <3>2
  <2> QED
    BY <1>1, <2>1 DEF QueueInv, BatchesOK, Poll
<1>8. QueueInv'
  BY <1>1, <1>3, <1>7, TickQueueFrame
<1>9. \A r \in Roles : ServedOK(r)'
  <2>1. ~ Acknowledged(archive[Me], groups[Me], known[Me])
    BY <1>1, NotYet
  <2> QED
    BY <1>1, <1>3, <1>6, <2>1, ServedFrame
<1>10. ServingOK'
  <2>1. Serving("offered", d, worker[Me], known[Me], cursor[Me], pending'[Me])
    BY <1>1, <1>3, <1>6 DEF Serving, BegunSteps, UnackedSteps, AckedSteps
  <2>2. proc' = [step |-> "offered", role |-> Me, delivery |-> d]
    BY <1>1 DEF IInv, ControlTypeOK, Me
  <2> QED
    BY <1>1, <1>3, <2>1, <2>2, ServingLater
<1> QED
  BY <1>8, <1>9, <1>10 DEF ServiceInv

(* Files are added to the group of a tick that goes on.                       *)
LEMMA FilesInGroup ==
  ASSUME groups \in [Roles -> Seq(Group)], Me \in Roles, Len(groups[Me]) = 1,
         NEW fs \in SUBSET Files, NEW torn \in BOOLEAN
  PROVE  /\ CurrentWith(fs, torn)[Me][1].files = groups[Me][1].files \cup fs
         /\ Len(CurrentWith(fs, torn)[Me]) = 1
         /\ \A r \in Roles : r # Me => CurrentWith(fs, torn)[r] = groups[r]
<1> DEFINE gs == groups[Me]
           g == gs[1]
           g1 == [g EXCEPT !.files = @ \cup fs]
           g2 == [g1 EXCEPT !.torn = @ \/ torn]
           s1 == [gs EXCEPT ![1] = g1]
           s2 == [s1 EXCEPT ![1] = g2]
           h1 == [groups EXCEPT ![Me] = s1]
           h2 == [h1 EXCEPT ![Me] = s2]
<1>1. gs \in Seq(Group) /\ Len(gs) = 1
  OBVIOUS
<1>2. g \in Group
  <2> HIDE DEF gs, Group
  <2>1. 1 \in 1..Len(gs)
    BY <1>1
  <2> QED
    BY <1>1, <2>1, SeqMember
<1>3. g1 \in Group /\ g1.files = g.files \cup fs
  <2> HIDE DEF g
  <2> QED
    BY <1>2 DEF Group
<1>4. g2 \in Group /\ g2.files = g1.files
  <2> HIDE DEF g1
  <2> QED
    BY <1>3 DEF Group
<1>5. s1 \in Seq(Group) /\ Len(s1) = 1 /\ s1[1] = g1
  <2> HIDE DEF g1, gs, Group
  <2> QED
    BY <1>1, <1>3, OnlyReplaced
<1>6. s2 \in Seq(Group) /\ Len(s2) = 1 /\ s2[1] = g2
  <2> HIDE DEF g2, s1, Group
  <2> QED
    BY <1>4, <1>5, OnlyReplaced
<1>7. /\ h2 \in [Roles -> Seq(Group)] /\ h2[Me] = s2
      /\ \A r \in Roles : r # Me => h2[r] = groups[r]
  <2> HIDE DEF s1, s2
  <2> QED
    BY <1>5, <1>6
<1>8. CurrentWith(fs, torn) = h2
  <2>1. h1[Me] = s1 /\ h1[Me][1] = g1
    <3> HIDE DEF s1, g1
    <3> QED
      BY <1>5
  <2> QED
    BY <2>1, <1>1 DEF CurrentWith
<1> HIDE DEF h2, s2, g2, g1
<1> QED
  BY <1>3, <1>4, <1>6, <1>7, <1>8

(* A poll leaves the roles alone.                                             *)
LEMMA PollServes ==
  ASSUME IInv, ServiceInv, PollSource \/ IndexPrefix \/ IngestQueue
  PROVE  ServiceInv'
<1>1. /\ UNCHANGED <<worker, known, cursor, pending, archive, groups, progress, journal>>
      /\ journal.op # "tick"
  BY DEF PollSource, IndexPrefix, IngestQueue, Ingest, At, queueVars, journalVars, IInv, RowOK,
     Operations
<1> QED
  BY <1>1, ServedSame, ServingIdle DEF ServiceInv

(* finalize seals a worker: its prepared row says so.                         *)
LEMMA FinishServes ==
  ASSUME IInv, QueueInv, ServiceInv, Finish
  PROVE  QueueInv' /\ ServiceInv'
<1>1. /\ UNCHANGED <<now, source, retained, batches, cursor, pending, groups, archive, prefix,
                     journal, components, progress, known>>
      /\ proc.step \in {"finalize", "replay", "proof"}
      /\ journal.op = proc.step /\ journal.role = Me
  BY DEF Finish, sourceVars, queueVars, journalVars, IInv, RowOK, Operations, Me
<1>2. \A r \in Roles : /\ worker'[r].ticks = worker[r].ticks /\ worker'[r].slot = worker[r].slot
                       /\ worker'[r].state = worker[r].state \/ Sealing(r)
  <2>1. CASE proc.step = "finalize"
    <3>1. Me \in Roles /\ worker \in [Roles -> Worker]
      BY <1>1, <2>1 DEF IInv, RowOK, DataTypeOK
    <3>2. worker' = [worker EXCEPT ![Me].state = "terminated"]
      BY <2>1 DEF Finish, At
    <3> TAKE r \in Roles
    <3>3. CASE r = Me
      BY <1>1, <2>1, <3>1, <3>2, <3>3 DEF Worker, Sealing
    <3>4. CASE r # Me
      BY <3>1, <3>2, <3>4
    <3> QED
      BY <3>3, <3>4
  <2>2. CASE proc.step # "finalize"
    BY <2>2 DEF Finish, At
  <2> QED
    BY <2>1, <2>2
<1>3. \A r \in Roles : ServedOK(r)'
  <2> TAKE r \in Roles
  <2>1. ServedOK(r) /\ ~UnderTick(r)
    BY <1>1 DEF ServiceInv, UnderTick
  <2> QED
    BY <1>1, <1>2, <2>1 DEF ServedOK, UnderTick, Waiting, Peak, Sealing
<1> QED
  BY <1>1, <1>3, QueueFrame, ServingIdle DEF ServiceInv, PollOperations

(* More files in the group of the tick: its ack only when the tick was        *)
(* acknowledged.                                                              *)
LEMMA FilesServe ==
  ASSUME IInv, ServiceInv, proc.step \in TickSteps, Len(groups[Me]) = 1,
         NEW fs \in SUBSET Files, NEW torn \in BOOLEAN, groups' = CurrentWith(fs, torn),
         UNCHANGED <<worker, known, cursor, pending, archive, progress, journal>>,
         "ack" \in fs => Finished(worker[Me], known[Me], cursor[Me], pending[Me])
  PROVE  \A r \in Roles : ServedOK(r)'
<1>1. /\ Me \in Roles /\ journal.op = "tick" /\ journal.role = Me
      /\ Acknowledged(archive[Me], groups[Me], known[Me]) =>
           Finished(worker[Me], known[Me], cursor[Me], pending[Me])
  BY MyService
<1>2. groups \in [Roles -> Seq(Group)]
  BY DEF IInv, DataTypeOK
<1>3. /\ groups'[Me][1].files = groups[Me][1].files \cup fs
      /\ Len(groups'[Me]) = 1
      /\ \A r \in Roles : r # Me => groups'[r] = groups[r]
  <2> DEFINE h == CurrentWith(fs, torn)
  <2>1. /\ h[Me][1].files = groups[Me][1].files \cup fs
        /\ Len(h[Me]) = 1
        /\ \A r \in Roles : r # Me => h[r] = groups[r]
    BY <1>1, <1>2, FilesInGroup
  <2>2. groups' = h
    OBVIOUS
  <2> HIDE DEF h
  <2> QED
    BY <2>1, <2>2
<1>4. Acknowledged(archive'[Me], groups'[Me], known[Me]) =>
        Finished(worker'[Me], known[Me], cursor'[Me], pending'[Me])
  BY <1>1, <1>3 DEF Acknowledged
<1> QED
  BY <1>1, <1>3, <1>4, ServedFrame

(* An operation raises, or a tick that was complete, or the process is killed. *)
LEMMA DownServes ==
  ASSUME IInv, QueueInv, ServiceInv,
         \/ OperationRaises \/ Dies
         \/ /\ DiesInApply(Down) \/ (TickRaises(Down) /\ At("ticked"))
            /\ UNCHANGED <<archive, prefix, journal, components, progress>>
  PROVE  QueueInv' /\ ServiceInv'
<1>1. /\ UNCHANGED <<now, source, retained, batches, cursor, pending, worker, archive, prefix,
                     journal, components, progress, known>>
      /\ proc'.step = "down"
  <2>1. CASE OperationRaises
    BY <2>1 DEF OperationRaises, sourceVars, queueVars, journalVars, Down
  <2>2. CASE Dies
    BY <2>2 DEF Dies, sourceVars, queueVars, journalVars, Down
  <2>3. CASE DiesInApply(Down) /\ UNCHANGED <<archive, prefix, journal, components, progress>>
    BY <2>3 DEF DiesInApply, sourceVars, queueVars, Down
  <2>4. CASE /\ TickRaises(Down) /\ At("ticked")
             /\ UNCHANGED <<archive, prefix, journal, components, progress>>
    BY <2>4 DEF TickRaises, At, sourceVars, queueVars, Down
  <2> QED
    BY <2>1, <2>2, <2>3, <2>4
<1>2. \/ groups' = groups
      \/ /\ proc.step \in MakingSteps \cup RanSteps \cup ArchivedSteps
         /\ \E fs \in SUBSET Files, torn \in BOOLEAN :
              groups' = CurrentWith(fs, torn) /\ ("ack" \in fs => proc.step = "acknowledged")
  <2>1. CASE OperationRaises
    BY <2>1 DEF OperationRaises
  <2>2. CASE Dies
    <3>1. \/ groups' = groups
          \/ proc.step \in ArchivedSteps /\ groups' = CurrentWith({}, TRUE)
      BY <2>2 DEF Dies, ArchivedSteps
    <3>2. {} \in SUBSET Files /\ "ack" \notin {}
      OBVIOUS
    <3> QED
      BY <3>1, <3>2
  <2>3. CASE DiesInApply(Down)
    <3>1. \/ groups' = groups
          \/ Written # {} /\ groups' = CurrentWith(Written, TRUE)
      BY <2>3 DEF DiesInApply
    <3>2. /\ Written \in SUBSET Files
          /\ Written # {} => proc.step \in MakingSteps \cup RanSteps
          /\ "ack" \in Written => proc.step = "acknowledged"
      BY DEF Written, At, Files, MakingSteps, RanSteps
    <3> QED
      BY <3>1, <3>2
  <2>4. CASE TickRaises(Down) /\ At("ticked")
    BY <2>4, RaisedFiles DEF TickRaises, At, RanSteps
  <2> QED
    BY <2>1, <2>2, <2>3, <2>4
<1>3. CASE groups' = groups
  BY <1>1, <1>3, QueueFrame, ServedSame, ServingIdle DEF ServiceInv
<1>4. CASE /\ proc.step \in MakingSteps \cup RanSteps \cup ArchivedSteps
           /\ \E fs \in SUBSET Files, torn \in BOOLEAN :
                groups' = CurrentWith(fs, torn) /\ ("ack" \in fs => proc.step = "acknowledged")
  <2>1. proc.step \in TickSteps
    BY <1>4 DEF TickSteps
  <2>2. Len(groups[Me]) = 1
    BY <1>4, <2>1, MyRole DEF Doing
  <2>3. PICK fs \in SUBSET Files, torn \in BOOLEAN :
          groups' = CurrentWith(fs, torn) /\ ("ack" \in fs => proc.step = "acknowledged")
    BY <1>4
  <2>4. proc.step = "acknowledged" => Finished(worker[Me], known[Me], cursor[Me], pending[Me])
    BY <2>1, MyService DEF Serving, AckedSteps
  <2>5. \A r \in Roles : ServedOK(r)'
    BY <1>1, <2>1, <2>2, <2>3, <2>4, FilesServe
  <2> QED
    BY <1>1, <2>5, QueueFrame, ServingIdle DEF ServiceInv
<1> QED
  BY <1>2, <1>3, <1>4

LEMMA ClockServes ==
  ASSUME IInv, QueueInv, ServiceInv, ClockStep
  PROVE  QueueInv' /\ ServiceInv'
<1>1. /\ UNCHANGED <<source, retained, batches, cursor, pending, worker, groups, archive, prefix,
                     journal, components, progress, known, proc>>
      /\ now' = now + 1
  BY DEF ClockStep, ClockTicks, sourceVars, queueVars, journalVars
<1>2. ServingOK'
  <2>1. CASE journal.op = "tick" /\ proc.step # "down"
    <3>1. Me \in Roles
      BY <2>1 DEF IInv, RowOK, ControlTypeOK, CoordinatorSteps, TickSteps, Me
    <3>2. worker[Me].slot \in Int /\ now \in Nat
      BY <3>1 DEF IInv, DataTypeOK, Worker
    <3>3. worker[Me].slot < now => worker[Me].slot < now'
      BY <1>1, <3>2
    <3>4. Serving(proc.step, proc.delivery, worker[Me], known[Me], cursor[Me], pending[Me])
      BY <2>1 DEF ServiceInv, ServingOK
    <3> HIDE DEF Me
    <3>5. Me' = Me
      BY <1>1 DEF Me
    <3> QED
      BY <1>1, <3>3, <3>4, <3>5 DEF Serving, ServingOK
  <2>2. CASE ~(journal.op = "tick" /\ proc.step # "down")
    BY <1>1, <2>2 DEF ServingOK
  <2> QED
    BY <2>1, <2>2
<1> QED
  BY <1>1, <1>2, QueueFrame, ServedSame DEF ServiceInv

(* A prepared row; that of a tick finds the role waiting for a new slot.      *)
LEMMA PrepareServes ==
  ASSUME IInv, QueueInv, ServiceInv, Prepare
  PROVE  ServiceInv'
<1> DEFINE n == NextOperation
<1>1. /\ UNCHANGED <<now, cursor, pending, worker, groups, archive, known>>
      /\ journal.op = "none" /\ journal' = n
      /\ proc' = [step |-> n.op, role |-> n.role, delivery |-> 0]
      /\ progress' = IF n.op = "source_poll" THEN [progress EXCEPT !.anchor = Anchor] ELSE progress
  BY DEF Prepare, At, queueVars, IInv, RowOK
<1>2. progress'.slots = progress.slots /\ progress'.seals = progress.seals
  BY <1>1 DEF QueueInv, ScheduleTypeOK
<1>3. n.op = "tick" => n.role \in Roles /\ progress.slots[n.role] < now
  BY NextIsDue DEF Prepare, QueueInv
<1> HIDE DEF n
<1>4. ASSUME NEW r \in Roles
      PROVE  /\ Waiting(worker[r], known[r], cursor[r], pending[r])
             /\ worker[r].slot = progress.slots[r]
             /\ r \in progress.seals \/ worker[r].state = "idle"
             /\ ~ Acknowledged(archive[r], groups[r], known[r])
  <2>1. ~UnderTick(r) /\ ~Sealing(r) /\ known[r] \in Nat
    BY <1>1 DEF UnderTick, Sealing, IInv, DataTypeOK
  <2>2. Settled(archive[r], worker[r].ticks, groups[r], known[r])
    BY <2>1 DEF IInv, RoleOK
  <2> QED
    BY <2>1, <2>2 DEF ServiceInv, ServedOK, Settled, Acknowledged
<1>5. \A r \in Roles : ServedOK(r)'
  BY <1>1, <1>2, <1>4 DEF ServedOK, Sealing
<1>6. ServingOK'
  <2>1. CASE n.op = "tick"
    <3>1. Me' = n.role
      BY <1>1 DEF Me
    <3>2. Serving("tick", 0, worker[n.role], known[n.role], cursor[n.role], pending[n.role])
      BY <1>3, <1>4, <2>1 DEF Serving, BegunSteps, UnackedSteps, AckedSteps
    <3> QED
      BY <1>1, <2>1, <3>1, <3>2 DEF Serving, ServingOK
  <2>2. CASE n.op # "tick"
    BY <1>1, <2>2, ServingIdle
  <2> QED
    BY <2>1, <2>2
<1> QED
  BY <1>5, <1>6 DEF ServiceInv

(* A completed row: what the tick has finished is what the role waits with.   *)
LEMMA CompleteServes ==
  ASSUME IInv, QueueInv, ServiceInv, Complete \/ RecoverJournal
  PROVE  ServiceInv'
<1> DEFINE o == journal.role
<1>1. /\ UNCHANGED <<now, cursor, pending, worker, groups, archive>>
      /\ proc.step \in {"called", "rejournal"} /\ CompleteRow
  BY DEF Complete, RecoverJournal, At, queueVars
<1>2. /\ journal' = NoOperation /\ progress' = Progressed(journal)
      /\ known' = IF journal.op = "tick" THEN [known EXCEPT ![o] = @ + 1] ELSE known
  BY <1>1 DEF CompleteRow
<1>3. /\ journal.op \in Operations /\ journal.role = Me
      /\ journal.op = "tick" => o \in Roles
  BY <1>1 DEF IInv, RowOK, ControlTypeOK, TickSteps, Operations, Me
<1>4. /\ progress'.slots = IF journal.op = "tick"
                           THEN [progress.slots EXCEPT ![o] = worker[o].slot] ELSE progress.slots
      /\ progress'.seals = IF journal.op = "finalize" THEN progress.seals \cup {o}
                           ELSE progress.seals
      /\ progress.slots \in [Roles -> Int] /\ known \in [Roles -> Nat]
  BY <1>2, <1>3 DEF QueueInv, ScheduleTypeOK, Progressed, Operations, IInv, DataTypeOK
<1>5. journal.op = "tick" => Finished(worker[o], known[o], cursor[o], pending[o])
  BY <1>1, <1>3 DEF ServiceInv, ServingOK, Serving, AckedSteps
<1> HIDE DEF o
<1>6. ASSUME NEW r \in Roles PROVE ServedOK(r)'
  <2>1. CASE journal.op = "tick" /\ r = o
    <3>1. /\ Waiting(worker[r], known[r] + 1, cursor[r], pending[r])
          /\ worker[r].state = "idle"
      BY <1>5, <2>1 DEF Finished, Waiting
    <3>2. known'[r] = known[r] + 1 /\ progress'.slots[r] = worker[r].slot
      BY <1>2, <1>4, <2>1
    <3> QED
      BY <1>1, <1>2, <3>1, <3>2 DEF ServedOK, UnderTick, NoOperation
  <2>2. CASE ~(journal.op = "tick" /\ r = o)
    <3>1. ServedOK(r) /\ ~UnderTick(r)
      BY <2>2 DEF ServiceInv, UnderTick, o
    <3>2. known'[r] = known[r] /\ progress'.slots[r] = progress.slots[r]
      BY <1>2, <1>4, <2>2
    <3>3. r \in progress.seals \/ Sealing(r) => r \in progress'.seals
      BY <1>4 DEF Sealing, o
    <3> QED
      BY <1>1, <1>2, <3>1, <3>2, <3>3 DEF ServedOK, UnderTick, NoOperation
  <2> QED
    BY <2>1, <2>2
<1>7. ServingOK'
  BY <1>2, ServingIdle DEF NoOperation
<1> QED
  BY <1>6, <1>7 DEF ServiceInv

LEMMA RestartServes ==
  ASSUME IInv, QueueInv, ServiceInv, Restart
  PROVE  QueueInv' /\ ServiceInv'
<1>1. /\ UNCHANGED <<now, source, retained, batches, cursor, pending, worker, groups, archive, prefix,
                     journal, components, progress, known>>
      /\ journal.op = "none"
  BY DEF Restart, Restartable, sourceVars, queueVars, journalVars
<1> QED
  BY <1>1, QueueFrame, ServedSame, ServingIdle DEF ServiceInv, PollOperations

(* Whatever a recovery finds of the group, the queue was acknowledged.        *)
LEMMA TailIsAcknowledged ==
  ASSUME NEW r, RawTail(r) \/ Duplicate(r) \/ Archived(r)
  PROVE  Acknowledged(archive[r], groups[r], known[r])
BY DEF RawTail, Duplicate, Archived, Acknowledged, Intact, CompleteFiles, Files

LEMMA RecoverServes ==
  ASSUME IInv, QueueInv, ServiceInv, RecoverTick
  PROVE  QueueInv' /\ ServiceInv'
<1> DEFINE o == journal.role
<1>1. /\ UNCHANGED <<now, source, retained, batches, cursor, pending, worker, groups, archive, prefix,
                     journal, components, progress, known>>
      /\ journal.op = "tick" /\ o \in Roles
      /\ RawTail(o) \/ Duplicate(o) \/ Archived(o)
  BY DEF RecoverTick, TickRecoverable, sourceVars, queueVars, journalVars, IInv, RowOK
<1>2. proc' \in [step : {"rearchive", "reremove", "rejournal"}, role : {o}, delivery : {0}]
  BY DEF RecoverTick, Down
<1> HIDE DEF o
<1>3. Finished(worker[o], known[o], cursor[o], pending[o])
  BY <1>1, TailIsAcknowledged DEF ServiceInv, ServedOK, UnderTick, o
<1>4. ServingOK'
  <2>1. Me' = o /\ proc'.step \in {"rearchive", "reremove", "rejournal"}
    BY <1>2 DEF Me
  <2> QED
    BY <1>1, <1>3, <2>1 DEF ServingOK, Serving, BegunSteps, UnackedSteps
<1> QED
  BY <1>1, <1>4, QueueFrame, ServedSame DEF ServiceInv, PollOperations

(* The group of a tick is made: it has no file yet.                           *)
LEMMA MakeServes ==
  ASSUME IInv, QueueInv, ServiceInv, MakeGroup(known[Me] + 1),
         UNCHANGED <<archive, prefix, journal, components, progress>>
  PROVE  QueueInv' /\ ServiceInv'
<1> DEFINE g == [seq |-> known[Me] + 1, delivery |-> proc.delivery, files |-> {}, torn |-> FALSE]
<1>1. /\ UNCHANGED <<now, source, retained, batches, cursor, pending, worker, archive, prefix,
                     journal, components, progress, known>>
      /\ groups' = [groups EXCEPT ![Me] = Append(@, g)]
      /\ proc.step = "offered" /\ Goto("folder")
  BY DEF MakeGroup, At, sourceVars, queueVars
<1>2. proc.step \in TickSteps
  BY <1>1 DEF TickSteps
<1>3. /\ Me \in Roles /\ journal.op = "tick" /\ journal.role = Me
      /\ Settled(archive[Me], worker[Me].ticks, groups[Me], known[Me])
      /\ known[Me] \in Nat
      /\ Serving("offered", proc.delivery, worker[Me], known[Me], cursor[Me], pending[Me])
  BY <1>1, <1>2, MyRole, MyService DEF Doing
<1>4. g.files = {}
  OBVIOUS
<1> HIDE DEF g
<1>5. /\ groups'[Me] = <<g>>
      /\ \A r \in Roles : r # Me => groups'[r] = groups[r]
  <2> HIDE DEF Group
  <2> QED
    BY <1>1, <1>3 DEF IInv, DataTypeOK, Settled
<1>6. ~ Acknowledged(archive'[Me], groups'[Me], known[Me])
  BY <1>1, <1>3, <1>4, <1>5 DEF Acknowledged, Settled
<1>7. \A r \in Roles : ServedOK(r)'
  BY <1>1, <1>3, <1>5, <1>6, ServedFrame
<1>8. ServingOK'
  <2>1. Serving("folder", proc.delivery, worker[Me], known[Me], cursor[Me], pending[Me])
    BY <1>3 DEF Serving, BegunSteps, UnackedSteps, AckedSteps
  <2>2. proc' = [step |-> "folder", role |-> Me, delivery |-> proc.delivery]
    BY <1>1, GotoIs DEF IInv
  <2> QED
    BY <1>1, <1>3, <2>1, <2>2, ServingLater
<1> QED
  BY <1>1, <1>3, <1>7, <1>8, QueueFrame DEF ServiceInv, PollOperations

LEMMA WritesServe ==
  ASSUME IInv, QueueInv, ServiceInv, WriteInputs \/ WriteResult \/ WriteAck \/ WriteComplete,
         UNCHANGED <<archive, prefix, journal, components, progress>>
  PROVE  QueueInv' /\ ServiceInv'
<1>1. /\ UNCHANGED <<now, source, retained, batches, cursor, pending, worker, archive, prefix,
                     journal, components, progress, known>>
      /\ \E fs \in SUBSET Files : groups' = CurrentWith(fs, FALSE)
                                  /\ ("ack" \in fs => proc.step = "acknowledged")
      /\ \/ proc.step = "folder" /\ Goto("prepared")
         \/ proc.step = "ticked" /\ Goto("result")
         \/ proc.step = "acknowledged" /\ Goto("ackfile")
         \/ proc.step = "ackfile" /\ Goto("complete")
  <2>1. {"input", "prepared"} \in SUBSET Files /\ {"worker-result"} \in SUBSET Files
        /\ {"ack"} \in SUBSET Files /\ {"complete"} \in SUBSET Files
    BY DEF Files
  <2>2. CASE WriteInputs
    BY <2>1, <2>2 DEF WriteInputs, At, sourceVars, queueVars
  <2>3. CASE WriteResult
    BY <2>1, <2>3 DEF WriteResult, At, sourceVars, queueVars
  <2>4. CASE WriteAck
    BY <2>1, <2>4 DEF WriteAck, At, sourceVars, queueVars
  <2>5. CASE WriteComplete
    BY <2>1, <2>5 DEF WriteComplete, At, sourceVars, queueVars
  <2> QED
    BY <2>2, <2>3, <2>4, <2>5
<1>2. proc.step \in TickSteps
  BY <1>1 DEF TickSteps, MakingSteps, RanSteps
<1>3. /\ Me \in Roles /\ journal.op = "tick" /\ Len(groups[Me]) = 1
      /\ Serving(proc.step, proc.delivery, worker[Me], known[Me], cursor[Me], pending[Me])
  BY <1>1, <1>2, MyRole, MyService DEF Doing, MakingSteps, RanSteps
<1>4. \A r \in Roles : ServedOK(r)'
  <2>1. PICK fs \in SUBSET Files : groups' = CurrentWith(fs, FALSE)
                                   /\ ("ack" \in fs => proc.step = "acknowledged")
    BY <1>1
  <2>2. proc.step = "acknowledged" => Finished(worker[Me], known[Me], cursor[Me], pending[Me])
    BY <1>3 DEF Serving, AckedSteps
  <2> QED
    BY <1>1, <1>2, <1>3, <2>1, <2>2, FilesServe
<1>5. ServingOK'
  <2>1. PICK n \in {"prepared", "result", "ackfile", "complete"} :
          Goto(n) /\ Serving(n, proc.delivery, worker[Me], known[Me], cursor[Me], pending[Me])
    BY <1>1, <1>3 DEF Serving, BegunSteps, UnackedSteps, AckedSteps
  <2>2. proc' = [step |-> n, role |-> Me, delivery |-> proc.delivery]
    BY <2>1, GotoIs DEF IInv
  <2> QED
    BY <1>1, <1>3, <2>1, <2>2, ServingLater
<1> QED
  BY <1>1, <1>3, <1>4, <1>5, QueueFrame DEF ServiceInv, PollOperations

(* The worker's tick begins or is completed: the acknowledgement is to come.  *)
LEMMA TickServes ==
  ASSUME IInv, QueueInv, ServiceInv, TickBegins \/ TickCompletes,
         UNCHANGED <<archive, prefix, journal, components, progress>>
  PROVE  QueueInv' /\ ServiceInv'
<1> DEFINE w == worker[Me]
           k == known[Me]
           u == Append(w.ticks, proc.delivery)
           b == [w EXCEPT !.state = "prepared", !.slot = now]
           e == [w EXCEPT !.ticks = u, !.state = "idle"]
           v == IF TickBegins THEN b ELSE e
           n == IF TickBegins THEN "ticking" ELSE "ticked"
<1>1. /\ UNCHANGED <<now, source, retained, batches, cursor, pending, groups, archive, prefix,
                     journal, components, progress, known>>
      /\ proc.step \in {"prepared", "ticking"} /\ (TickBegins <=> proc.step = "prepared")
      /\ Goto(n)
  BY DEF TickBegins, TickCompletes, At, sourceVars, queueVars
<1>2. proc.step \in TickSteps
  BY <1>1 DEF TickSteps, MakingSteps
<1>3. /\ Me \in Roles /\ journal.op = "tick" /\ journal.role = Me
      /\ w \in Worker /\ w.ticks \in Seq(Nat) /\ k \in Nat /\ proc.delivery \in Nat
      /\ Len(w.ticks) = k /\ cursor[Me] \in Nat
      /\ proc.delivery = pending[Me] /\ Peak(w.ticks, k, cursor[Me])
      /\ worker \in [Roles -> Worker] /\ now \in Nat
  BY <1>1, <1>2, MyRole, MyService
  DEF Doing, MakingSteps, Serving, BegunSteps, UnackedSteps, IInv, DataTypeOK
<1>4. worker' = [worker EXCEPT ![Me] = v]
  <2>1. TickBegins => worker' = [worker EXCEPT ![Me].state = "prepared", ![Me].slot = now]
    BY DEF TickBegins
  <2>2. TickCompletes => worker' = [worker EXCEPT ![Me].ticks = u, ![Me].state = "idle"]
    BY DEF TickCompletes, Ticked
  <2> QED
    BY <1>1, <1>3, <2>1, <2>2
<1>5. worker'[Me] = v /\ \A r \in Roles : r # Me => worker'[r] = worker[r]
  <2> HIDE DEF v
  <2> QED
    BY <1>3, <1>4
<1>6. Peak(u, k, cursor[Me]) /\ u[k + 1] = proc.delivery
  <2> HIDE DEF w, k
  <2> QED
    BY <1>3, PeakBefore
<1>7. Serving(n, proc.delivery, v, k, cursor[Me], pending[Me])
  <2>1. CASE TickBegins
    <3>1. v.ticks = w.ticks /\ n = "ticking"
      BY <1>3, <2>1 DEF Worker
    <3> HIDE DEF v, n, w, k
    <3> QED
      BY <1>3, <3>1 DEF Serving, BegunSteps, UnackedSteps, AckedSteps, Peak
  <2>2. CASE ~TickBegins
    <3>1. v.ticks = u /\ v.state = "idle" /\ n = "ticked"
      BY <1>3, <2>2 DEF Worker
    <3> HIDE DEF v, n, w, k, u
    <3> QED
      BY <1>3, <1>6, <3>1 DEF Serving, BegunSteps, UnackedSteps, AckedSteps, Peak
  <2> QED
    BY <2>1, <2>2
<1> HIDE DEF v, n, u, w
<1>8. \A r \in Roles : ServedOK(r)'
  <2>1. ~ Acknowledged(archive[Me], groups[Me], known[Me])
    BY <1>1, NotYet DEF MakingSteps
  <2> QED
    BY <1>1, <1>3, <1>5, <2>1, ServedFrame
<1>9. ServingOK'
  <2>1. proc' = [step |-> n, role |-> Me, delivery |-> proc.delivery]
    BY <1>1, GotoIs DEF IInv
  <2> QED
    BY <1>1, <1>3, <1>5, <1>7, <2>1, ServingLater
<1> QED
  BY <1>1, <1>3, <1>8, <1>9, QueueFrame DEF ServiceInv, PollOperations

(* A tick that raises stops the process before anything is acknowledged.      *)
LEMMA RaiseServes ==
  ASSUME IInv, QueueInv, ServiceInv, TickRaises(Down), ~ At("ticked"),
         UNCHANGED <<archive, prefix, journal, components, progress>>
  PROVE  QueueInv' /\ ServiceInv'
<1>1. /\ UNCHANGED <<now, source, retained, batches, cursor, pending, archive, prefix,
                     journal, components, progress, known>>
      /\ proc.step \in {"prepared", "ticking"} /\ proc'.step = "down"
      /\ groups' = CurrentWith({"worker-error"}, FALSE)
  BY RaisedFiles DEF TickRaises, At, sourceVars, queueVars, Down
<1>2. proc.step \in TickSteps
  BY <1>1 DEF TickSteps, MakingSteps
<1>3. /\ Me \in Roles /\ journal.op = "tick" /\ journal.role = Me /\ Len(groups[Me]) = 1
      /\ groups \in [Roles -> Seq(Group)]
  BY <1>1, <1>2, MyRole, MyService DEF Doing, MakingSteps, IInv, DataTypeOK
<1>4. \A r \in Roles : r # Me => worker'[r] = worker[r]
  <2>1. worker \in [Roles -> Worker]
    BY DEF IInv, DataTypeOK
  <2>2. \/ worker' = worker
        \/ worker' = [worker EXCEPT ![Me].state = "terminated"]
        \/ worker' = [worker EXCEPT ![Me].ticks = Ticked, ![Me].state = "terminated"]
    BY DEF TickRaises
  <2> HIDE DEF Ticked, Me
  <2> QED
    BY <1>3, <2>1, <2>2
<1>5. /\ groups'[Me][1].files = groups[Me][1].files \cup {"worker-error"}
      /\ Len(groups'[Me]) = 1
      /\ \A r \in Roles : r # Me => groups'[r] = groups[r]
  <2>1. {"worker-error"} \in SUBSET Files
    BY DEF Files
  <2> HIDE DEF Group
  <2> QED
    BY <1>1, <1>3, <2>1, FilesInGroup
<1>6. ~ Acknowledged(archive'[Me], groups'[Me], known[Me])
  <2>1. ~ Acknowledged(archive[Me], groups[Me], known[Me])
    BY <1>1, NotYet DEF MakingSteps
  <2> QED
    BY <1>1, <1>3, <1>5, <2>1 DEF Acknowledged
<1>7. \A r \in Roles : ServedOK(r)'
  BY <1>1, <1>3, <1>4, <1>5, <1>6, ServedFrame
<1> QED
  BY <1>1, <1>7, QueueFrame, ServingIdle DEF ServiceInv

(* The queue is acknowledged with the delivery that the worker has executed,  *)
(* which is the one after the cursor.                                         *)
LEMMA AcknowledgeServes ==
  ASSUME IInv, QueueInv, ServiceInv, AcknowledgeQueue,
         UNCHANGED <<archive, prefix, journal, components, progress>>
  PROVE  QueueInv' /\ ServiceInv'
<1> DEFINE t == worker[Me].ticks
           k == known[Me]
           c == cursor[Me]
           d == proc.delivery
<1>1. /\ UNCHANGED <<now, source, worker, groups, archive, prefix, journal, components, progress,
                     known>>
      /\ proc.step = "result" /\ Goto("acknowledged")
      /\ IF d = 0 THEN UNCHANGED queueVars ELSE Acknowledge(Me, d, Current.seq)
  BY DEF AcknowledgeQueue, At, sourceVars
<1>2. proc.step \in TickSteps
  BY <1>1 DEF TickSteps, RanSteps
<1>3. /\ Me \in Roles /\ journal.op = "tick" /\ journal.role = Me
      /\ t \in Seq(Nat) /\ k \in Nat /\ c \in Nat /\ d \in Nat
      /\ Len(t) = k + 1 /\ t[k + 1] = d /\ Peak(t, k, c)
      /\ worker[Me].state = "idle" /\ d = pending[Me]
      /\ cursor \in [Roles -> Nat] /\ pending \in [Roles -> Nat]
  BY <1>1, <1>2, MyRole, MyService
  DEF Doing, RanSteps, Serving, UnackedSteps, IInv, DataTypeOK
<1>4. /\ c \in {Len(batches) - 1, Len(batches)} /\ d \in {0, c + 1} /\ d <= Len(batches)
      /\ Len(batches) \in Nat
  BY <1>3 DEF QueueInv, BatchesOK, ScheduleTypeOK
<1> HIDE DEF t, k, c, d
<1>5. /\ UNCHANGED <<retained, batches>>
      /\ \A r \in Roles : r # Me => cursor'[r] = cursor[r] /\ pending'[r] = pending[r]
      /\ cursor'[Me] = (IF d = 0 THEN c ELSE d) /\ pending'[Me] = 0
  <2>1. CASE d = 0
    BY <1>1, <1>3, <2>1 DEF queueVars, c
  <2>2. CASE d # 0
    <3>1. d \notin 1..cursor[Me]
      BY <1>3, <1>4, <2>2 DEF c
    <3>2. ~ Repeated(Me, d, Current.seq)
      BY <3>1 DEF Repeated
    <3>3. /\ cursor' = [cursor EXCEPT ![Me] = d] /\ pending' = [pending EXCEPT ![Me] = 0]
          /\ UNCHANGED <<retained, batches>>
      BY <1>1, <2>2, <3>2 DEF Acknowledge
    <3> QED
      BY <1>3, <2>2, <3>3
  <2> QED
    BY <2>1, <2>2
<1>6. Finished(worker[Me], known[Me], cursor'[Me], pending'[Me])
  <2>1. Peak(t, k + 1, IF d = 0 THEN c ELSE d)
    BY <1>3, <1>4, PeakAfter
  <2> QED
    BY <1>3, <1>5, <2>1 DEF Finished, t, k
<1>7. BatchesOK'
  <2>1. \A r \in Roles : /\ cursor'[r] \in {Len(batches) - 1, Len(batches)}
                         /\ pending'[r] \in {0, cursor'[r] + 1} /\ pending'[r] <= Len(batches)
    <3> TAKE r \in Roles
    <3>1. CASE r = Me
      BY <1>3, <1>4, <1>5, <3>1
    <3>2. CASE r # Me
      BY <1>5, <3>2 DEF QueueInv, BatchesOK
    <3> QED
      BY <3>1, <3>2
  <2> QED
    BY <1>5, <2>1 DEF QueueInv, BatchesOK, Poll
<1>8. QueueInv'
  BY <1>1, <1>3, <1>5, <1>7, TickQueueFrame
<1>9. \A r \in Roles : ServedOK(r)'
  BY <1>1, <1>3, <1>5, <1>6, ServedFrame
<1>10. ServingOK'
  <2>1. Serving("acknowledged", d, worker[Me], known[Me], cursor'[Me], pending'[Me])
    BY <1>6 DEF Serving, BegunSteps, UnackedSteps
  <2>2. proc' = [step |-> "acknowledged", role |-> Me, delivery |-> d]
    BY <1>1, GotoIs DEF IInv, d
  <2> QED
    BY <1>1, <1>3, <2>1, <2>2, ServingLater
<1> QED
  BY <1>8, <1>9, <1>10 DEF ServiceInv

(* After its acknowledgement the group is archived and its folder removed.    *)
LEMMA ArchiveServes ==
  ASSUME IInv, QueueInv, ServiceInv, NEW from \in AckedSteps \cap TickSteps, NEW to \in AckedSteps,
         ArchiveGroup(from, to) \/ RemoveGroup(from, to)
  PROVE  QueueInv' /\ ServiceInv'
<1>1. /\ UNCHANGED <<now, source, retained, batches, cursor, pending, worker, prefix, journal,
                     components, progress, known>>
      /\ proc.step = from /\ Goto(to)
      /\ \/ archive' = [archive EXCEPT ![Me] = Append(@, Current.delivery)] /\ groups' = groups
         \/ groups' = [groups EXCEPT ![Me] = <<>>] /\ archive' = archive
  BY DEF ArchiveGroup, RemoveGroup, At, sourceVars, queueVars, journalVars
<1>2. /\ Me \in Roles /\ journal.op = "tick" /\ journal.role = Me
      /\ Finished(worker[Me], known[Me], cursor[Me], pending[Me])
  BY <1>1, MyService DEF Serving
<1>3. \A r \in Roles : r # Me => archive'[r] = archive[r] /\ groups'[r] = groups[r]
  <2>1. archive \in [Roles -> Seq(Nat)] /\ groups \in [Roles -> Seq(Group)]
    BY DEF IInv, DataTypeOK
  <2> HIDE DEF Group
  <2> QED
    BY <1>1, <1>2, <2>1
<1>4. \A r \in Roles : ServedOK(r)'
  BY <1>1, <1>2, <1>3, ServedFrame
<1>5. ServingOK'
  <2>1. Serving(to, proc.delivery, worker[Me], known[Me], cursor[Me], pending[Me])
    BY <1>2 DEF Serving, BegunSteps, UnackedSteps, AckedSteps
  <2>2. proc' = [step |-> to, role |-> Me, delivery |-> proc.delivery]
    BY <1>1, GotoIs DEF IInv
  <2> QED
    BY <1>1, <1>2, <2>1, <2>2, ServingLater
<1> QED
  BY <1>1, <1>2, <1>4, <1>5, QueueFrame DEF ServiceInv, PollOperations

-----------------------------------------------------------------------------
(* The invariant of the scheduler is one. *)

LEMMA ScheduleInitially == Init => QueueInv /\ ServiceInv
<1> SUFFICES ASSUME Init PROVE QueueInv /\ ServiceInv
  OBVIOUS
<1>1. /\ source = <<>> /\ retained = 0 /\ batches = <<>> /\ prefix = 0
      /\ cursor = [r \in Roles |-> 0] /\ pending = [r \in Roles |-> 0]
      /\ worker = [r \in Roles |-> [ticks |-> <<>>, state |-> "idle", slot |-> -1]]
      /\ groups = [r \in Roles |-> <<>>] /\ archive = [r \in Roles |-> <<>>]
      /\ known = [r \in Roles |-> 0] /\ journal = NoOperation /\ components = CurrentHeads
      /\ progress = [anchor |-> -1, work |-> "none", slots |-> [r \in Roles |-> -1],
                     seals |-> {}, replays |-> {}, done |-> FALSE]
  BY DEF Init, ApplicationInit, DeliveryInit
<1>2. Fresh = 0 /\ Poll \in Nat
  BY <1>1, PollLength DEF Fresh
<1>3. ScheduleTypeOK
  <2>1. source \in Seq(Kinds) /\ batches \in Seq(Batch)
    <3> HIDE DEF Batch, Kinds
    <3> QED
      BY <1>1
  <2> QED
    BY <1>1, <2>1 DEF ScheduleTypeOK
<1>4. SourceOK
  BY <1>1, <1>2 DEF SourceOK
<1>5. BatchesOK
  BY <1>1 DEF BatchesOK
<1>6. PipelineOK /\ HeadsOK
  BY <1>1, <1>2 DEF PipelineOK, HeadsOK, NoOperation
<1>7. \A r \in Roles : ServedOK(r)
  BY <1>1 DEF ServedOK, Waiting, Peak, UnderTick, NoOperation
<1>8. ServingOK
  BY <1>1 DEF ServingOK, NoOperation
<1> QED
  BY <1>3, <1>4, <1>5, <1>6, <1>7, <1>8 DEF QueueInv, ServiceInv

LEMMA ScheduleKept == IInv /\ QueueInv /\ ServiceInv /\ [Next]_vars => QueueInv' /\ ServiceInv'
<1> SUFFICES ASSUME IInv, QueueInv, ServiceInv, [Next]_vars PROVE QueueInv' /\ ServiceInv'
  OBVIOUS
<1>1. CASE UNCHANGED vars
  <2>1. UNCHANGED <<now, source, retained, batches, cursor, pending, worker, groups, archive, prefix,
                    journal, components, progress, known, proc>>
    BY <1>1 DEF vars, appVars, sourceVars, queueVars
  <2>2. ServingOK'
    BY <2>1 DEF ServiceInv, ServingOK, Serving, Me
  <2> QED
    BY <2>1, <2>2, QueueFrame, ServedSame DEF ServiceInv
<1>2. CASE ClockStep
  BY <1>2, ClockServes
<1>3. CASE Dies
  BY <1>3, DownServes
<1>4. CASE Prepare
  BY <1>4, RowPrepared, PrepareServes
<1>5. CASE PollSource
  BY <1>5, SourcePolled, PollServes
<1>6. CASE IndexPrefix
  BY <1>6, PrefixIndexed, PollServes
<1>7. CASE IngestQueue
  BY <1>7, PollQueued, PollServes
<1>8. CASE ApplyTick
  BY <1>8, DeliveryOffered
<1>9. CASE ApplyStep
  <2>1. UNCHANGED <<archive, prefix, journal, components, progress>>
    BY <1>9 DEF ApplyStep
  <2>2. \/ MakeGroup(known[Me] + 1)
        \/ WriteInputs \/ WriteResult \/ WriteAck \/ WriteComplete
        \/ TickBegins \/ TickCompletes \/ TickRaises(Down)
        \/ AcknowledgeQueue \/ DiesInApply(Down)
    BY <1>9 DEF ApplyStep
  <2> QED
    BY <2>1, <2>2, MakeServes, WritesServe, TickServes, RaiseServes, AcknowledgeServes, DownServes
<1>10. CASE \/ ArchiveGroup("complete", "remove") \/ RemoveGroup("remove", "called")
            \/ ArchiveGroup("rearchive", "reremove") \/ RemoveGroup("reremove", "rejournal")
  <2>1. /\ {"complete", "remove", "rearchive", "reremove"} \subseteq AckedSteps \cap TickSteps
        /\ {"remove", "called", "reremove", "rejournal"} \subseteq AckedSteps
    BY DEF AckedSteps, TickSteps, RanSteps, ArchivedSteps
  <2> QED
    BY <1>10, <2>1, ArchiveServes
<1>11. CASE Finish
  BY <1>11, FinishServes
<1>12. CASE OperationRaises
  BY <1>12, DownServes
<1>13. CASE Complete \/ RecoverJournal
  BY <1>13, RowCompleted, CompleteServes
<1>14. CASE Restart
  BY <1>14, RestartServes
<1>15. CASE RecoverTick
  BY <1>15, RecoverServes
<1> QED
  BY <1>1, <1>2, <1>3, <1>4, <1>5, <1>6, <1>7, <1>8, <1>9, <1>10, <1>11, <1>12, <1>13, <1>14, <1>15
  DEF Next, ProcessStep

LEMMA ScheduleHolds == Spec => [](IInv /\ QueueInv /\ ServiceInv)
BY Initially, StepKeeps, ScheduleInitially, ScheduleKept, PTL DEF Spec

(* The coordinator never brings itself into a refusal that no recovery could  *)
(* lift: whatever the clock and the crashes did before, the delivery that a   *)
(* tick is offered is the last batch and ends where the reader's index ends,  *)
(* and the worker has not used the slot it is asked for                       *)
(* (paired_cached_coordinator.py:340-356, 279).                               *)
THEOREM NeverRefusedHolds == Spec => []NeverRefused
<1>1. ASSUME IInv, QueueInv, ServiceInv PROVE NeverRefused
  <2>1. ASSUME proc.step \in {"offered", "prepared"}
        PROVE  /\ journal.op = "tick" /\ Me \in Roles
               /\ Serving(proc.step, proc.delivery, worker[Me], known[Me], cursor[Me], pending[Me])
    <3>1. proc.step \in TickSteps
      BY <2>1 DEF TickSteps, MakingSteps
    <3> QED
      BY <1>1, <3>1, MyService
  <2>2. ASSUME At("offered"), proc.delivery # 0 PROVE ReaderAccepts(proc.delivery)
    <3> DEFINE d == proc.delivery
    <3>1. journal.op = "tick" /\ Me \in Roles /\ d = pending[Me]
      BY <2>1, <2>2 DEF At, Serving, UnackedSteps, BegunSteps
    <3>2. /\ Len(batches) \in Nat /\ pending[Me] \in Nat /\ d # 0
          /\ cursor[Me] \in {Len(batches) - 1, Len(batches)}
          /\ pending[Me] \in {0, cursor[Me] + 1} /\ pending[Me] <= Len(batches)
      BY <1>1, <2>2, <3>1 DEF QueueInv, BatchesOK, ScheduleTypeOK, IInv, DataTypeOK
    <3>3. d = Len(batches) /\ d \in 1..Len(batches)
      BY <3>1, <3>2
    <3>4. progress.work = "none" /\ prefix = retained
      BY <1>1, <3>1 DEF QueueInv, PipelineOK, ScheduleTypeOK
    <3>5. /\ batches[d].to = retained /\ batches[d].attested = batches[d].to
          /\ batches[d].to - batches[d].from + 1 = Poll
      <4>1. batches # <<>>
        BY <1>1, <3>3 DEF QueueInv, ScheduleTypeOK
      <4> QED
        BY <1>1, <3>3, <4>1 DEF QueueInv, BatchesOK
    <3> QED
      BY <3>4, <3>5 DEF ReaderAccepts, Poll
  <2>3. ASSUME At("prepared"), InWindow PROVE WorkerAccepts(Me)
    BY <2>1, <2>3 DEF At, Serving, BegunSteps, WorkerAccepts
  <2> QED
    BY <2>2, <2>3 DEF NeverRefused
<1> QED
  BY <1>1, ScheduleHolds, PTL

LEMMA HighestIs ==
  ASSUME NEW T \in SUBSET Nat, NEW c \in Nat, \A x \in T : x <= c, c = 0 \/ c \in T
  PROVE  Max({0} \cup T) = c
<1> DEFINE S == {0} \cup T
<1>1. c \in S /\ S \subseteq Nat /\ \A x \in S : c >= x
  OBVIOUS
<1> HIDE DEF S
<1>2. \A x \in S : (\A y \in S : x >= y) => x = c
  BY <1>1
<1> QED
  BY <1>1, <1>2 DEF Max, S

LEMMA Joined ==
  ASSUME NEW a \in Seq(Nat), NEW h \in Seq(Nat)
  PROVE  /\ Len(a \o h) = Len(a) + Len(h) /\ Len(a) \in Nat
         /\ \A i \in 1..Len(a) : (a \o h)[i] = a[i]
         /\ \A i \in 1..Len(h) : (a \o h)[Len(a) + i] = h[i]
OBVIOUS

(* The deliveries of a tail that is there are those the worker has executed.  *)
LEMMA TailIsExecuted ==
  ASSUME IInv, NEW r \in Roles, RawTail(r) \/ Duplicate(r) \/ Archived(r),
         Len(worker[r].ticks) = known[r] + 1
  PROVE  {TailDeliveries(r)[i] : i \in 1..Len(TailDeliveries(r))} =
           {worker[r].ticks[i] : i \in 1..known[r] + 1}
<1> DEFINE a == archive[r]
           t == worker[r].ticks
           gs == groups[r]
           k == known[r]
           h == [i \in 1..Len(gs) |-> gs[i].delivery]
           u == a \o h
<1>1. /\ a \in Seq(Nat) /\ t \in Seq(Nat) /\ gs \in Seq(Group) /\ k \in Nat /\ Ahead(a, t, gs, k)
      /\ Len(t) = k + 1
  <2>1. worker[r] \in Worker /\ archive[r] \in Seq(Nat) /\ groups[r] \in Seq(Group) /\ known[r] \in Nat
    BY DEF IInv, DataTypeOK
  <2>2. worker[r].ticks \in Seq(Nat)
    BY <2>1 DEF Worker
  <2> HIDE DEF Group
  <2> QED
    BY <2>1, <2>2 DEF IInv, RoleOK
<1>2. \/ Len(a) = k /\ Len(gs) = 1
      \/ Len(a) = k + 1 /\ Len(gs) = 1
      \/ Len(a) = k + 1 /\ Len(gs) = 0
  BY DEF RawTail, Duplicate, Archived
<1>3. /\ h \in Seq(Nat) /\ Len(h) = Len(gs) /\ Len(gs) \in Nat
      /\ \A i \in 1..Len(h) : h[i] = gs[i].delivery
  <2>1. Len(gs) \in Nat
    BY <1>1
  <2>2. \A i \in 1..Len(gs) : gs[i].delivery \in Nat
    <3> TAKE i \in 1..Len(gs)
    <3>1. gs[i] \in Group
      <4> HIDE DEF gs, Group
      <4> QED
        BY <1>1, SeqMember
    <3> QED
      BY <3>1 DEF Group
  <2> HIDE DEF gs
  <2> QED
    BY <2>1, <2>2
<1> HIDE DEF h
<1>4. /\ Len(u) = Len(a) + Len(h) /\ Len(a) \in Nat
      /\ \A i \in 1..Len(a) : u[i] = a[i]
      /\ \A i \in 1..Len(h) : u[Len(a) + i] = h[i]
  <2> HIDE DEF a, u
  <2> QED
    BY <1>1, <1>3, Joined DEF u
<1>5. /\ \A i \in 1..Len(a) : a[i] = t[i]
      /\ Len(gs) = 1 => gs[1].delivery = t[k + 1]
  BY <1>1 DEF Ahead
<1> HIDE DEF u, a, t, gs, k
<1>6. {u[i] : i \in 1..Len(u)} = {t[i] : i \in 1..k + 1}
  <2>1. CASE Len(gs) = 1
    <3>1. Len(a) \in {k, k + 1} /\ Len(h) = 1 /\ Len(u) = Len(a) + 1 /\ u[Len(a) + 1] = t[k + 1]
      <4>1. 1 \in 1..Len(h) /\ Len(h) = 1
        BY <1>3, <2>1
      <4> QED
        BY <1>2, <1>3, <1>4, <1>5, <2>1, <4>1
    <3>2. \A i \in 1..Len(a) : u[i] = t[i]
      BY <1>4, <1>5
    <3>3. ASSUME NEW i \in 1..Len(u) PROVE \E j \in 1..k + 1 : u[i] = t[j]
      <4>1. CASE i \in 1..Len(a)
        BY <1>1, <3>1, <3>2, <4>1
      <4>2. CASE i = Len(a) + 1
        BY <1>1, <3>1, <4>2
      <4> QED
        BY <1>4, <3>1, <4>1, <4>2
    <3>4. ASSUME NEW j \in 1..k + 1 PROVE \E i \in 1..Len(u) : u[i] = t[j]
      <4>1. CASE j \in 1..Len(a)
        <5>1. j \in 1..Len(u)
          BY <1>4, <3>1, <4>1
        <5> QED
          BY <3>2, <4>1, <5>1
      <4>2. CASE j = k + 1
        <5>1. Len(a) + 1 \in 1..Len(u)
          BY <1>4, <3>1
        <5> QED
          BY <3>1, <4>2, <5>1
      <4> QED
        BY <1>1, <3>1, <4>1, <4>2
    <3> QED
      BY <3>3, <3>4
  <2>2. CASE Len(gs) = 0
    <3>1. Len(a) = k + 1 /\ Len(h) = 0
      BY <1>2, <1>3, <2>2
    <3>2. Len(u) = k + 1 /\ \A i \in 1..k + 1 : u[i] = t[i]
      BY <1>1, <1>4, <1>5, <3>1
    <3> QED
      BY <3>2
  <2> QED
    BY <1>2, <2>1, <2>2
<1> QED
  BY <1>6 DEF TailDeliveries, u, h, a, t, gs, k

(* Whatever was under way at a crash, the references of the last completed    *)
(* row are those of the components: the process restarts after a crash        *)
(* between two operations, and recovers a tick whose group is complete, raw,  *)
(* archived or both (paired_cached_coordinator.py:517-546).                   *)
THEOREM RecoveryAcceptsHolds == Spec => []RecoveryAccepts
<1>1. ASSUME IInv, QueueInv, ServiceInv PROVE RecoveryAccepts
  <2>1. ASSUME NEW r \in Roles, ~UnderTick(r), ~Sealing(r)
        PROVE  IF r \in progress.seals THEN Len(archive[r]) = known[r] ELSE Checkpointed(r)
    <3>1. Settled(archive[r], worker[r].ticks, groups[r], known[r])
      BY <1>1, <2>1 DEF IInv, RoleOK
    <3>2. r \in progress.seals \/ worker[r].state = "idle"
      BY <1>1, <2>1 DEF ServiceInv, ServedOK
    <3> QED
      BY <3>1, <3>2 DEF Settled, Checkpointed, WorkerAt
  <2>2. ASSUME journal.op = "none" PROVE Restartable
    <3>1. components = CurrentHeads
      BY <1>1, <2>2 DEF QueueInv, HeadsOK
    <3>2. \A r \in Roles : ~UnderTick(r) /\ ~Sealing(r)
      BY <2>2 DEF UnderTick, Sealing
    <3> QED
      BY <2>1, <2>2, <3>1, <3>2 DEF Restartable, RolesMatch
  <2>3. ASSUME journal.op = "tick", NEW r, r = journal.role,
               RawTail(r) \/ Duplicate(r) \/ Archived(r)
        PROVE  TickRecoverable(r)
    <3>1. r \in Roles
      BY <1>1, <2>3 DEF IInv, RowOK
    <3>2. Finished(worker[r], known[r], cursor[r], pending[r])
      BY <1>1, <2>3, <3>1, TailIsAcknowledged DEF ServiceInv, ServedOK, UnderTick
    <3>3. TailProved(r)
      <4> DEFINE T == {worker[r].ticks[i] : i \in 1..known[r] + 1}
      <4>1. /\ worker[r].ticks \in Seq(Nat) /\ Len(worker[r].ticks) = known[r] + 1
            /\ Peak(worker[r].ticks, known[r] + 1, cursor[r])
            /\ cursor[r] \in Nat
        BY <1>1, <3>1, <3>2 DEF Finished, IInv, DataTypeOK, Worker
      <4>2. T \in SUBSET Nat /\ \A x \in T : x <= cursor[r]
        BY <4>1 DEF Peak
      <4>3. cursor[r] = 0 \/ cursor[r] \in T
        BY <4>1 DEF Peak
      <4>4. T = {TailDeliveries(r)[i] : i \in 1..Len(TailDeliveries(r))}
        BY <1>1, <2>3, <3>1, <4>1, TailIsExecuted
      <4> HIDE DEF T
      <4>5. Max({0} \cup T) = cursor[r]
        BY <4>1, <4>2, <4>3, HighestIs
      <4> QED
        BY <3>2, <4>4, <4>5 DEF TailProved, WorkerAt, Finished
    <3>4. HeadsMatch
      BY <1>1, <2>3 DEF QueueInv, HeadsOK, HeadsMatch
    <3>5. RolesMatch(Roles \ {r})
      <4>1. \A q \in Roles \ {r} : ~UnderTick(q) /\ ~Sealing(q)
        BY <2>3 DEF UnderTick, Sealing
      <4> QED
        BY <2>1, <4>1 DEF RolesMatch
    <3> QED
      BY <2>3, <3>3, <3>4, <3>5 DEF TickRecoverable
  <2> QED
    BY <2>2, <2>3 DEF RecoveryAccepts
<1> QED
  BY <1>1, ScheduleHolds, PTL

=============================================================================
