----------------------- MODULE CashAckRecoveryProofs -----------------------
(* For any number of roles, groups, crashes and recoveries: a worker         *)
(* executes each delivery of its role once and in order, and the queue moves *)
(* past it only with the receipt of that execution; and a durable result     *)
(* whose acknowledgement or completion was lost can be recovered.  A batch   *)
(* of the queue holds whole polls.  The last part is the refinement of       *)
(* InOrderApplication.                                                       *)
EXTENDS CashAckRecovery, FunctionTheorems, DataInduction

LaterSteps == {"acknowledged", "ackfile", "complete", "reacknowledged", "rewritten"}
TickedSteps == {"ticked", "result", "recovering"} \cup LaterSteps
OpenSteps == {"folder", "prepared", "ticking"}

(* Type correctness of what an application works on.                         *)
DataTypeOK ==
    /\ now \in Nat
    /\ cursor \in [Roles -> Nat]
    /\ pending \in [Roles -> Nat]
    /\ acks \in [Roles -> Seq(Nat)]
    /\ worker \in [Roles -> Worker]
    /\ groups \in [Roles -> Seq(Group)]
    /\ known \in [Roles -> Nat]

CashTypeOK ==
    /\ DataTypeOK
    /\ proc \in [step : OpenSteps \cup TickedSteps \cup {"idle", "offered"},
                 role : Roles \cup {None}, delivery : Nat]

(* Each value of t is preceded by exactly the smaller ones.                  *)
Consecutive(t) ==
    \A i \in 1..Len(t) : t[i] # 0 =>
      /\ \A j \in 1..i - 1 : t[j] < t[i]
      /\ \A d \in 1..t[i] - 1 : \E j \in 1..i - 1 : t[j] = d

Receipts(t, a, c) == \A b \in 1..c : a[b] \in 1..Len(t) /\ t[a[b]] = b

(* A role's queue and worker: ticks t, receipts a, cursor c, pending p, and  *)
(* the k ticks of its checkpoint, whose deliveries are acknowledged.         *)
Applied(t, a, c, p, k) ==
    /\ Len(a) = c
    /\ p \in {0, c + 1}
    /\ Receipts(t, a, c)
    /\ Consecutive(t)
    /\ Len(t) \in {k, k + 1}
    /\ \A i \in 1..k : t[i] <= c

(* Its folder gs: at most one group follows the checkpoint, and a receipt in *)
(* it is of the tick that followed it.                                       *)
Foldered(t, k, gs) ==
    /\ Len(gs) \in {k, k + 1}
    /\ \A i \in 1..Len(gs) : gs[i].seq = i
    /\ Len(gs) = k + 1 /\ "worker-result" \in gs[k + 1].files =>
         Len(t) = k + 1 /\ t[k + 1] = gs[k + 1].delivery

(* What the process at step s, with delivery d, has established.             *)
Doing(s, d, t, c, k, gs) ==
    /\ s = "offered" => Len(gs) = k /\ Len(t) = k /\ d \in {0, c + 1}
    /\ s \in OpenSteps =>
         /\ Len(gs) = k + 1 /\ Len(t) = k
         /\ d \in {0, c + 1} /\ gs[k + 1].delivery = d
         /\ "worker-result" \notin gs[k + 1].files
    /\ s \in TickedSteps =>
         /\ Len(gs) = k + 1 /\ Len(t) = k + 1
         /\ t[k + 1] = d /\ gs[k + 1].delivery = d
    /\ s \in LaterSteps => d <= c

RoleOK(r) ==
    /\ Applied(worker[r].ticks, acks[r], cursor[r], pending[r], known[r])
    /\ Foldered(worker[r].ticks, known[r], groups[r])

ProcessOK ==
    proc.step # "idle" =>
      /\ Me \in Roles
      /\ Doing(proc.step, proc.delivery, worker[Me].ticks, cursor[Me], known[Me], groups[Me])

IInv == CashTypeOK /\ (\A r \in Roles : RoleOK(r)) /\ ProcessOK

-----------------------------------------------------------------------------
(* Facts about the values of one role. *)

(* The next delivery, executed after a settled checkpoint.                   *)
LEMMA TickExtends ==
  ASSUME NEW t \in Seq(Nat), NEW a \in Seq(Nat), NEW c \in Nat, NEW p \in Nat, NEW k \in Nat,
         NEW d \in {0, c + 1}, Applied(t, a, c, p, k), Len(t) = k
  PROVE  Applied(Append(t, d), a, c, p, k)
<1> DEFINE u == Append(t, d)
<1>1. /\ u \in Seq(Nat) /\ Len(u) = k + 1 /\ u[k + 1] = d
      /\ \A i \in 1..k : u[i] = t[i]
  OBVIOUS
<1>2. \A i \in 1..k : t[i] \in Nat /\ t[i] <= c
  BY DEF Applied
<1>3. Receipts(t, a, c) /\ Consecutive(t)
  BY DEF Applied
<1> HIDE DEF u
<1>4. Receipts(u, a, c)
  BY <1>1, <1>3 DEF Receipts
<1>5. Consecutive(u)
  <2> SUFFICES ASSUME NEW i \in 1..Len(u), u[i] # 0
               PROVE  /\ \A j \in 1..i - 1 : u[j] < u[i]
                      /\ \A e \in 1..u[i] - 1 : \E j \in 1..i - 1 : u[j] = e
    BY DEF Consecutive
  <2>1. CASE i \in 1..k
    <3>1. \A j \in 1..i - 1 : t[j] < t[i]
      BY <1>1, <1>3, <2>1 DEF Consecutive
    <3>2. \A e \in 1..t[i] - 1 : \E j \in 1..i - 1 : t[j] = e
      BY <1>1, <1>3, <2>1 DEF Consecutive
    <3>3. u[i] = t[i] /\ \A j \in 1..i - 1 : u[j] = t[j]
      BY <1>1, <2>1
    <3>4. \A e \in 1..u[i] - 1 : \E j \in 1..i - 1 : u[j] = e
      BY <3>2, <3>3
    <3>5. \A j \in 1..i - 1 : u[j] < u[i]
      BY <3>1, <3>3
    <3>6. QED
      BY <3>4, <3>5
  <2>2. CASE i = k + 1
    <3>1. u[i] = c + 1
      BY <1>1, <2>2
    <3>2. \A j \in 1..k : u[j] < u[i]
      BY <1>1, <1>2, <3>1
    <3>3. ASSUME NEW e \in 1..c PROVE a[e] \in 1..k /\ u[a[e]] = e
      BY <1>1, <1>3 DEF Receipts
    <3>4. \A j \in 1..i - 1 : u[j] < u[i]
      BY <2>2, <3>2
    <3>5. \A e \in 1..u[i] - 1 : \E j \in 1..i - 1 : u[j] = e
      <4> SUFFICES ASSUME NEW e \in 1..u[i] - 1 PROVE \E j \in 1..i - 1 : u[j] = e
        OBVIOUS
      <4>1. a[e] \in 1..k /\ u[a[e]] = e
        BY <3>1, <3>3
      <4>2. QED
        BY <2>2, <4>1
    <3>6. QED
      BY <3>4, <3>5
  <2>3. QED
    BY <1>1, <2>1, <2>2
<1>6. QED
  BY <1>1, <1>2, <1>4, <1>5 DEF Applied, u

(* The acknowledgement of the delivery after the cursor.                     *)
LEMMA AckExtends ==
  ASSUME NEW t \in Seq(Nat), NEW a \in Seq(Nat), NEW c \in Nat, NEW p \in Nat, NEW k \in Nat,
         Applied(t, a, c, p, k), Len(t) = k + 1, t[k + 1] = c + 1
  PROVE  Applied(t, Append(a, k + 1), c + 1, 0, k)
<1> DEFINE b == Append(a, k + 1)
<1>1. /\ b \in Seq(Nat) /\ Len(b) = c + 1 /\ b[c + 1] = k + 1
      /\ \A i \in 1..c : b[i] = a[i]
  BY DEF Applied
<1> HIDE DEF b
<1>2. Receipts(t, b, c + 1)
  <2>1. \A i \in 1..c : a[i] \in 1..Len(t) /\ t[a[i]] = i
    BY DEF Applied, Receipts
  <2>2. \A i \in 1..c : b[i] \in 1..Len(t) /\ t[b[i]] = i
    BY <1>1, <2>1
  <2>3. b[c + 1] \in 1..Len(t) /\ t[b[c + 1]] = c + 1
    BY <1>1
  <2>4. QED
    BY <2>2, <2>3 DEF Receipts
<1>3. \A i \in 1..k : t[i] <= c + 1
  BY DEF Applied
<1>4. QED
  BY <1>1, <1>2, <1>3 DEF Applied, b

(* The caller keeps the checkpoint of an acknowledged application.           *)
LEMMA CheckpointMoves ==
  ASSUME NEW t \in Seq(Nat), NEW a \in Seq(Nat), NEW c \in Nat, NEW p \in Nat, NEW k \in Nat,
         Applied(t, a, c, p, k), Len(t) = k + 1, t[k + 1] <= c
  PROVE  Applied(t, a, c, p, k + 1)
  BY DEF Applied

(* Files are added to the group after the checkpoint; the receipt only when  *)
(* the tick is complete.                                                     *)
LEMMA FilesAdded ==
  ASSUME NEW t \in Seq(Nat), NEW k \in Nat, NEW gs \in Seq(Group), NEW hs \in Seq(Group),
         Foldered(t, k, gs), Len(gs) = k + 1, Len(hs) = Len(gs),
         \A i \in 1..Len(gs) : hs[i].seq = gs[i].seq /\ hs[i].delivery = gs[i].delivery,
         "worker-result" \in hs[k + 1].files =>
           \/ "worker-result" \in gs[k + 1].files
           \/ Len(t) = k + 1 /\ t[k + 1] = gs[k + 1].delivery
  PROVE  Foldered(t, k, hs)
  BY DEF Foldered
-----------------------------------------------------------------------------
(* Files added to the process's current group. *)

LEMMA CurrentGroup ==
  ASSUME DataTypeOK, Me \in Roles, Len(groups[Me]) >= 1,
         NEW files \in SUBSET Files, NEW torn \in BOOLEAN, groups' = CurrentWith(files, torn)
  PROVE  /\ groups' \in [Roles -> Seq(Group)]
         /\ \A r \in Roles : r # Me => groups'[r] = groups[r]
         /\ Len(groups'[Me]) = Len(groups[Me])
         /\ \A i \in 1..Len(groups[Me]) :
              /\ groups'[Me][i].seq = groups[Me][i].seq
              /\ groups'[Me][i].delivery = groups[Me][i].delivery
              /\ groups'[Me][i].files = IF i = Len(groups[Me]) THEN groups[Me][i].files \cup files
                                  ELSE groups[Me][i].files
         /\ groups'[Me][Len(groups[Me])].torn = (groups[Me][Len(groups[Me])].torn \/ torn)
         /\ \A i \in 1..Len(groups[Me]) - 1 : groups'[Me][i] = groups[Me][i]
<1> DEFINE n == Len(groups[Me])
           q == groups[Me]
           h == [q[n] EXCEPT !.files = @ \cup files, !.torn = @ \/ torn]
           w == [q EXCEPT ![n] = h]
<1>1. q \in Seq(Group) /\ n \in Nat /\ n \in 1..Len(q)
  BY DEF DataTypeOK
<1>2. q[n] \in Group
  BY <1>1
<1>3. /\ h \in Group /\ h.seq = q[n].seq /\ h.delivery = q[n].delivery
      /\ h.files = q[n].files \cup files /\ h.torn = (q[n].torn \/ torn)
  BY <1>2 DEF Group
<1>4. groups \in [Roles -> Seq(Group)]
  BY DEF DataTypeOK
<1>5. groups' = [groups EXCEPT ![Me] = w]
  BY <1>4, <1>1, <1>2 DEF CurrentWith, Group
<1> HIDE DEF h
<1>6. /\ w \in Seq(Group) /\ Len(w) = n /\ w[n] = h
      /\ \A i \in 1..n : i # n => w[i] = q[i]
  BY <1>1, <1>3
<1> HIDE DEF w
<1>7. groups'[Me] = w /\ groups' \in [Roles -> Seq(Group)]
      /\ \A r \in Roles : r # Me => groups'[r] = groups[r]
  BY <1>4, <1>5, <1>6
<1>8. \A i \in 1..n :
        /\ w[i].seq = q[i].seq /\ w[i].delivery = q[i].delivery
        /\ w[i].files = IF i = n THEN q[i].files \cup files ELSE q[i].files
  BY <1>3, <1>6
<1>9. w[n].torn = (q[n].torn \/ torn)
  BY <1>3, <1>6
<1>10. \A i \in 1..n - 1 : w[i] = q[i]
  BY <1>1, <1>6
<1> QED
  BY <1>6, <1>7, <1>8, <1>9, <1>10
-----------------------------------------------------------------------------
(* Every step preserves the invariant. *)

(* Nothing a role depends on changes.                                        *)
LEMMA RolesUntouched ==
  ASSUME IInv, UNCHANGED <<cursor, pending, acks, worker, groups, known>>
  PROVE  \A r \in Roles : RoleOK(r)'
  BY DEF IInv, RoleOK

(* The process adds files to its group.                                      *)
LEMMA FilesStep ==
  ASSUME IInv, proc.step \in OpenSteps \cup TickedSteps,
         UNCHANGED <<now, cursor, pending, acks, worker, known>>,
         NEW files \in SUBSET Files, NEW torn \in BOOLEAN, groups' = CurrentWith(files, torn),
         "worker-result" \in files => proc.step \in TickedSteps
  PROVE  /\ DataTypeOK'
         /\ \A r \in Roles : RoleOK(r)'
         /\ Len(groups'[Me]) = Len(groups[Me])
         /\ groups'[Me][known[Me] + 1].delivery = groups[Me][known[Me] + 1].delivery
         /\ groups'[Me][known[Me] + 1].files = groups[Me][known[Me] + 1].files \cup files
<1> DEFINE k == known[Me]
           t == worker[Me].ticks
           gs == groups'[Me]
<1>1. Me \in Roles /\ Doing(proc.step, proc.delivery, t, cursor[Me], k, groups[Me])
  BY DEF IInv, ProcessOK, OpenSteps, TickedSteps, LaterSteps
<1>2. Len(groups[Me]) = k + 1
  BY <1>1 DEF Doing
<1>3. k \in Nat /\ t \in Seq(Nat) /\ groups[Me] \in Seq(Group) /\ DataTypeOK
  BY <1>1 DEF IInv, CashTypeOK, DataTypeOK, Worker
<1>4. /\ groups' \in [Roles -> Seq(Group)]
      /\ \A r \in Roles : r # Me => groups'[r] = groups[r]
      /\ Len(gs) = Len(groups[Me])
      /\ \A i \in 1..Len(groups[Me]) :
           /\ gs[i].seq = groups[Me][i].seq
           /\ gs[i].delivery = groups[Me][i].delivery
           /\ gs[i].files = IF i = Len(groups[Me]) THEN groups[Me][i].files \cup files
                           ELSE groups[Me][i].files
  <2>1. Len(groups[Me]) >= 1
    BY <1>2, <1>3
  <2>2. QED
    BY <1>1, <1>3, <2>1, CurrentGroup
<1>5. DataTypeOK'
  BY <1>3, <1>4 DEF DataTypeOK
<1>6. Foldered(t, k, gs)
  <2>1. "worker-result" \in files => Len(t) = k + 1 /\ t[k + 1] = groups[Me][k + 1].delivery
    BY <1>1 DEF Doing
  <2>2. Foldered(t, k, groups[Me])
    BY <1>1 DEF IInv, RoleOK
  <2>3. gs \in Seq(Group) /\ k + 1 \in 1..Len(groups[Me])
    BY <1>1, <1>2, <1>3, <1>4
  <2>4. "worker-result" \in gs[k + 1].files =>
          \/ "worker-result" \in groups[Me][k + 1].files
          \/ Len(t) = k + 1 /\ t[k + 1] = groups[Me][k + 1].delivery
    BY <1>2, <1>4, <2>1, <2>3
  <2> HIDE DEF k, t, gs
  <2>5. QED
    BY <1>2, <1>3, <1>4, <2>2, <2>3, <2>4, FilesAdded
<1>7. ASSUME NEW r \in Roles PROVE RoleOK(r)'
  <2>1. CASE r = Me
    BY <1>1, <1>6, <2>1 DEF IInv, RoleOK
  <2>2. CASE r # Me
    BY <1>4, <2>2 DEF IInv, RoleOK
  <2>3. QED
    BY <2>1, <2>2
<1>8. k + 1 \in 1..Len(groups[Me])
  BY <1>2, <1>3
<1>9. QED
  BY <1>2, <1>4, <1>5, <1>7, <1>8
(* The queue is acknowledged with the receipt of the process's group.        *)
LEMMA AckStep ==
  ASSUME IInv, proc.step \in {"result", "recovering"},
         Acknowledge(Me, proc.delivery, Current.seq), UNCHANGED <<now, worker, groups, known>>
  PROVE  /\ DataTypeOK'
         /\ \A r \in Roles : RoleOK(r)'
         /\ proc.delivery <= cursor'[Me]
<1> DEFINE k == known[Me]
           t == worker[Me].ticks
           c == cursor[Me]
           d == proc.delivery
<1>1. Me \in Roles /\ Doing(proc.step, d, t, c, k, groups[Me])
  BY DEF IInv, ProcessOK
<1>2. /\ k \in Nat /\ t \in Seq(Nat) /\ c \in Nat /\ groups[Me] \in Seq(Group)
      /\ pending[Me] \in Nat /\ acks[Me] \in Seq(Nat) /\ d \in Nat
  BY <1>1 DEF IInv, CashTypeOK, DataTypeOK, Worker
<1>3. Len(groups[Me]) = k + 1 /\ Len(t) = k + 1 /\ t[k + 1] = d
  BY <1>1 DEF Doing, TickedSteps
<1>4. Current.seq = k + 1
  BY <1>1, <1>2, <1>3 DEF IInv, RoleOK, Foldered, Current, Last
<1>5. CASE Repeated(Me, d, Current.seq)
  <2>1. UNCHANGED <<cursor, pending, acks>> /\ d <= c
    BY <1>2, <1>5 DEF Acknowledge, Repeated
  <2>2. QED
    BY <2>1, RolesUntouched DEF IInv, CashTypeOK, DataTypeOK
<1>6. CASE ~Repeated(Me, d, Current.seq)
  <2>1. /\ d = c + 1
        /\ cursor' = [cursor EXCEPT ![Me] = c + 1]
        /\ pending' = [pending EXCEPT ![Me] = 0]
        /\ acks' = [acks EXCEPT ![Me] = Append(acks[Me], k + 1)]
    BY <1>4, <1>6 DEF Acknowledge, Acknowledgeable
  <2>2. DataTypeOK'
    <3>1. DataTypeOK /\ Append(acks[Me], k + 1) \in Seq(Nat) /\ c + 1 \in Nat
      BY <1>2 DEF IInv, CashTypeOK
    <3> HIDE DEF k, t, c, d
    <3>2. cursor' \in [Roles -> Nat] /\ pending' \in [Roles -> Nat] /\ acks' \in [Roles -> Seq(Nat)]
      BY <1>1, <2>1, <3>1 DEF DataTypeOK
    <3>3. QED
      BY <3>1, <3>2 DEF DataTypeOK
  <2>3. /\ cursor'[Me] = c + 1 /\ pending'[Me] = 0 /\ acks'[Me] = Append(acks[Me], k + 1)
        /\ \A r \in Roles \ {Me} :
             cursor'[r] = cursor[r] /\ pending'[r] = pending[r] /\ acks'[r] = acks[r]
    BY <1>1, <2>1 DEF IInv, CashTypeOK, DataTypeOK
  <2>4. Applied(t, Append(acks[Me], k + 1), c + 1, 0, k)
    <3>1. Applied(t, acks[Me], c, pending[Me], k) /\ t[k + 1] = c + 1
      BY <1>1, <1>3, <2>1 DEF IInv, RoleOK
    <3> HIDE DEF k, t, c
    <3>2. QED
      BY <1>2, <1>3, <3>1, AckExtends
  <2>5. ASSUME NEW r \in Roles PROVE RoleOK(r)'
    <3>1. CASE r = Me
      BY <1>1, <2>3, <2>4, <3>1 DEF IInv, RoleOK
    <3>2. CASE r # Me
      BY <2>3, <3>2 DEF IInv, RoleOK
    <3>3. QED
      BY <3>1, <3>2
  <2>6. QED
    BY <1>2, <2>1, <2>2, <2>3, <2>5
<1>7. QED
  BY <1>5, <1>6

(* The worker runs the process's tick to its end.                            *)
LEMMA TickStep ==
  ASSUME IInv, At("ticking"), NEW state \in {"idle", "prepared", "terminated"},
         worker' = [worker EXCEPT ![Me].ticks = Ticked, ![Me].state = state]
  PROVE  /\ worker' \in [Roles -> Worker]
         /\ \A r \in Roles : r # Me => worker'[r] = worker[r]
         /\ worker'[Me].ticks = Append(worker[Me].ticks, proc.delivery)
         /\ Applied(worker'[Me].ticks, acks[Me], cursor[Me], pending[Me], known[Me])
<1> DEFINE k == known[Me]
           t == worker[Me].ticks
           c == cursor[Me]
           d == proc.delivery
<1>1. Me \in Roles /\ Doing(proc.step, d, t, c, k, groups[Me])
  BY DEF IInv, ProcessOK, At
<1>2. /\ k \in Nat /\ t \in Seq(Nat) /\ c \in Nat /\ worker[Me] \in Worker
      /\ pending[Me] \in Nat /\ acks[Me] \in Seq(Nat) /\ d \in Nat
      /\ worker \in [Roles -> Worker]
  BY <1>1 DEF IInv, CashTypeOK, DataTypeOK, Worker
<1>3. Len(t) = k /\ d \in {0, c + 1}
  BY <1>1 DEF Doing, OpenSteps, At
<1>4. worker' = [worker EXCEPT ![Me] = [worker[Me] EXCEPT !.ticks = Append(t, d), !.state = state]]
  BY <1>1, <1>2 DEF Ticked, Worker
<1>5. Append(t, d) \in Seq(Nat)
  BY <1>2
<1> DEFINE h == [worker[Me] EXCEPT !.ticks = Append(t, d), !.state = state]
<1>a. h \in Worker /\ h.ticks = Append(t, d)
  BY <1>2, <1>5 DEF Worker
<1>6. /\ worker' \in [Roles -> Worker]
      /\ \A r \in Roles : r # Me => worker'[r] = worker[r]
      /\ worker'[Me].ticks = Append(t, d)
  BY <1>1, <1>2, <1>4, <1>a
<1>7. Applied(Append(t, d), acks[Me], c, pending[Me], k)
  <2>1. Applied(t, acks[Me], c, pending[Me], k)
    BY <1>1 DEF IInv, RoleOK
  <2> HIDE DEF k, t, c, d
  <2>2. QED
    BY <1>2, <1>3, <2>1, TickExtends
<1>8. QED
  BY <1>6, <1>7

-----------------------------------------------------------------------------
(* What it takes to recover a durable result. *)

InputFiles == {"input", "prepared"}
ReceiptFiles == InputFiles \cup {"worker-result"}
AckFiles == ReceiptFiles \cup {"ack"}

(* The queue is still before delivery d, or has just been moved past it.     *)
Before(d, c, p) == c = d - 1 /\ p = d
Past(d, c, p) == c = d /\ p = 0

(* The process's group g, its role's worker w and the queue, at step s.      *)
Held(s, d, g, w, c, p) ==
    /\ s \in OpenSteps \cup TickedSteps => ~g.torn
    /\ s = "folder" => g.files = {}
    /\ s \in {"prepared", "ticking", "ticked"} => g.files = InputFiles
    /\ s \in {"result", "acknowledged"} => g.files = ReceiptFiles
    /\ s \in {"recovering", "reacknowledged"} => g.files \in {ReceiptFiles, AckFiles}
    /\ s \in {"ackfile", "rewritten"} => g.files = AckFiles
    /\ s = "complete" => g.files = CompleteFiles
    /\ s \in TickedSteps => w.state = "idle"
    /\ d # 0 =>
         /\ s \in OpenSteps \cup {"offered", "ticked", "result"} => Before(d, c, p)
         /\ s = "recovering" => Before(d, c, p) \/ Past(d, c, p)
         /\ s \in LaterSteps => Past(d, c, p)

(* The recovery accepts a durable result with no error and no completion.    *)
Pending(g) ==
    /\ "worker-result" \in g.files /\ g.files \cap {"worker-error", "complete"} = {}
    /\ ~g.torn /\ g.delivery # 0
Left(g, w, c, p) ==
    Pending(g) => /\ g.files \in {ReceiptFiles, AckFiles}
                  /\ w.state = "idle"
                  /\ Before(g.delivery, c, p) \/ Past(g.delivery, c, p)

RoleDurable(r) ==
    /\ \A i \in 1..known[r] : Intact(groups[r][i])
    /\ Len(groups[r]) = known[r] + 1 =>
         Left(groups[r][known[r] + 1], worker[r], cursor[r], pending[r])

InHand ==
    proc.step # "idle" =>
      Held(proc.step, proc.delivery, groups[Me][known[Me] + 1], worker[Me], cursor[Me], pending[Me])

Durable == (\A r \in Roles : RoleDurable(r)) /\ InHand

-----------------------------------------------------------------------------

(* The files of the steps are those of the constants.                        *)
LEMMA FileSets ==
  /\ InputFiles = {"input", "prepared"} /\ ReceiptFiles = {"input", "prepared", "worker-result"}
  /\ AckFiles = {"input", "prepared", "worker-result", "ack"}
  /\ CompleteFiles = AckFiles \cup {"complete"}
  /\ {} \cup InputFiles = InputFiles /\ InputFiles \cup {"worker-result"} = ReceiptFiles
  /\ ReceiptFiles \cup {"ack"} = AckFiles /\ AckFiles \cup {"ack"} = AckFiles
  BY DEF InputFiles, ReceiptFiles, AckFiles, CompleteFiles, Files

(* A process that stops leaves a group that can be recovered, if it must be. *)
LEMMA HeldIsLeft ==
  ASSUME NEW s \in OpenSteps \cup TickedSteps, NEW d \in Nat, NEW g \in Group, NEW w,
         NEW c \in Nat, NEW p \in Nat, Held(s, d, g, w, c, p), g.delivery = d
  PROVE  Left(g, w, c, p)
<1>1. CASE s \in OpenSteps \cup {"ticked"}
  BY <1>1 DEF Held, Left, Pending, OpenSteps, InputFiles
<1>2. CASE s \in {"result", "recovering", "acknowledged", "reacknowledged", "ackfile", "rewritten"}
  BY <1>2 DEF Held, Left, OpenSteps, TickedSteps, LaterSteps, Pending
<1>3. CASE s = "complete"
  BY <1>3 DEF Held, Left, Pending, CompleteFiles, Files
<1>4. QED
  BY <1>1, <1>2, <1>3 DEF OpenSteps, TickedSteps, LaterSteps

(* What the process holds at a step, in terms of the state.                  *)
LEMMA Holding ==
  ASSUME IInv, Durable, proc.step \in OpenSteps \cup TickedSteps
  PROVE  /\ Me \in Roles /\ known[Me] \in Nat /\ groups[Me] \in Seq(Group)
         /\ Len(groups[Me]) = known[Me] + 1
         /\ known[Me] + 1 \in 1..Len(groups[Me])
         /\ groups[Me][known[Me] + 1] \in Group
         /\ groups[Me][known[Me] + 1].delivery = proc.delivery
         /\ proc.delivery \in Nat /\ cursor[Me] \in Nat /\ pending[Me] \in Nat
         /\ Held(proc.step, proc.delivery, groups[Me][known[Me] + 1], worker[Me],
                 cursor[Me], pending[Me])
<1>1. proc.step # "idle"
  BY DEF OpenSteps, TickedSteps, LaterSteps
<1>2. /\ Me \in Roles
      /\ Doing(proc.step, proc.delivery, worker[Me].ticks, cursor[Me], known[Me], groups[Me])
  BY <1>1 DEF IInv, ProcessOK
<1>3. /\ Len(groups[Me]) = known[Me] + 1
      /\ groups[Me][known[Me] + 1].delivery = proc.delivery
  BY <1>2 DEF Doing
<1>4. /\ known[Me] \in Nat /\ groups[Me] \in Seq(Group)
      /\ proc.delivery \in Nat /\ cursor[Me] \in Nat /\ pending[Me] \in Nat
  BY <1>2 DEF IInv, CashTypeOK, DataTypeOK
<1>5. known[Me] + 1 \in 1..Len(groups[Me]) /\ groups[Me][known[Me] + 1] \in Group
  BY <1>3, <1>4
<1>6. QED
  BY <1>1, <1>2, <1>3, <1>4, <1>5 DEF Durable, InHand

(* The process adds files to its group, the last one of its role.            *)
LEMMA GroupStep ==
  ASSUME IInv, Durable, proc.step \in OpenSteps \cup TickedSteps,
         NEW files \in SUBSET Files, NEW torn \in BOOLEAN, groups' = CurrentWith(files, torn)
  PROVE  /\ Len(groups'[Me]) = known[Me] + 1
         /\ groups'[Me][known[Me] + 1].delivery = proc.delivery
         /\ groups'[Me][known[Me] + 1].files = groups[Me][known[Me] + 1].files \cup files
         /\ groups'[Me][known[Me] + 1].torn = (groups[Me][known[Me] + 1].torn \/ torn)
         /\ \A i \in 1..known[Me] : groups'[Me][i] = groups[Me][i]
         /\ \A r \in Roles : r # Me => groups'[r] = groups[r]
         /\ groups' \in [Roles -> Seq(Group)]
<1> DEFINE k == known[Me]
<1>1. /\ Me \in Roles /\ k \in Nat /\ groups[Me] \in Seq(Group) /\ Len(groups[Me]) = k + 1
      /\ k + 1 \in 1..Len(groups[Me]) /\ groups[Me][k + 1].delivery = proc.delivery
      /\ DataTypeOK /\ Len(groups[Me]) >= 1
  BY Holding DEF IInv, CashTypeOK
<1>2. /\ groups' \in [Roles -> Seq(Group)]
      /\ \A r \in Roles : r # Me => groups'[r] = groups[r]
      /\ Len(groups'[Me]) = Len(groups[Me])
      /\ \A i \in 1..Len(groups[Me]) :
           /\ groups'[Me][i].seq = groups[Me][i].seq
           /\ groups'[Me][i].delivery = groups[Me][i].delivery
           /\ groups'[Me][i].files = IF i = Len(groups[Me]) THEN groups[Me][i].files \cup files
                                   ELSE groups[Me][i].files
      /\ groups'[Me][Len(groups[Me])].torn = (groups[Me][Len(groups[Me])].torn \/ torn)
      /\ \A i \in 1..Len(groups[Me]) - 1 : groups'[Me][i] = groups[Me][i]
  BY <1>1, CurrentGroup
<1>3. Len(groups[Me]) - 1 = k
  BY <1>1
<1>4. groups'[Me][k + 1].files = groups[Me][k + 1].files \cup files
  BY <1>1, <1>2
<1>5. QED
  BY <1>1, <1>2, <1>3, <1>4

(* What a raise writes: an error, and after the tick the receipt beside it.  *)
LEMMA RaisedFiles ==
  ASSUME groups' \in Raised
  PROVE  \E files \in SUBSET Files, torn \in BOOLEAN :
           /\ groups' = CurrentWith(files, torn) /\ "worker-error" \in files
           /\ ~ At("ticked") => files = {"worker-error"} /\ torn = FALSE
<1>1. {"worker-error"} \in SUBSET Files /\ {"worker-result", "worker-error"} \in SUBSET Files
  BY DEF Files
<1>2. CASE groups' = CurrentWith({"worker-error"}, FALSE)
  BY <1>1, <1>2
<1>3. CASE \E torn \in BOOLEAN :
        At("ticked") /\ groups' = CurrentWith({"worker-result", "worker-error"}, torn)
  BY <1>1, <1>3
<1>4. QED
  BY <1>2, <1>3 DEF Raised

-----------------------------------------------------------------------------
(* Every step preserves it. *)

USE DEF Me, At, Goto, queueVars

(* One step per action.                                                      *)
LEMMA InvariantKept ==
  ASSUME IInv, [Next]_vars
  PROVE  IInv'
<1> DEFINE k == known[Me]
           t == worker[Me].ticks
           gs == groups[Me]
<1>0. /\ DataTypeOK /\ CashTypeOK /\ \A r \in Roles : RoleOK(r)
      /\ proc.step # "idle" =>
           Me \in Roles /\ Doing(proc.step, proc.delivery, t, cursor[Me], k, gs)
  BY DEF IInv, CashTypeOK, ProcessOK
<1>1. CASE SourceStep \/ IngestStep \/ ClockStep \/ UNCHANGED vars
  <2>1. UNCHANGED <<cursor, pending, acks, worker, groups, known, proc>> /\ now' \in Nat
    BY <1>0, <1>1 DEF SourceStep, IngestStep, Ingest, ClockStep, ClockTicks, sourceVars, vars, DataTypeOK
  <2>2. QED
    BY <1>0, <2>1, RolesUntouched DEF IInv, CashTypeOK, DataTypeOK, ProcessOK
<1>2. ASSUME NEW r \in Roles, Apply(r) PROVE IInv'
  <2>1. /\ Len(groups[r]) = known[r] /\ Len(worker[r].ticks) = known[r]
        /\ proc' = [step |-> "offered", role |-> r, delivery |-> NextDelivery(r)]
        /\ UNCHANGED <<now, cursor, acks, worker, groups, known>>
        /\ pending' = [pending EXCEPT ![r] = IF NextDelivery(r) # 0 THEN NextDelivery(r) ELSE @]
    BY <1>2 DEF Apply, Checkpointed, WorkerAt, QueueOffers, Offer
  <2>2. cursor[r] \in Nat /\ pending[r] \in {0, cursor[r] + 1}
    BY <1>0 DEF DataTypeOK, RoleOK, Applied
  <2>3. NextDelivery(r) \in {0, cursor[r] + 1}
    BY <2>2 DEF NextDelivery
  <2>4. pending' \in [Roles -> Nat] /\ pending'[r] \in {0, cursor[r] + 1}
        /\ \A q \in Roles \ {r} : pending'[q] = pending[q]
    BY <1>0, <2>1, <2>2, <2>3 DEF DataTypeOK
  <2>5. CashTypeOK'
    BY <1>0, <2>1, <2>2, <2>3, <2>4 DEF CashTypeOK, DataTypeOK
  <2>6. \A q \in Roles : RoleOK(q)'
    BY <1>0, <2>1, <2>4 DEF RoleOK, Applied
  <2>7. ProcessOK'
    BY <2>1, <2>3 DEF ProcessOK, Doing, OpenSteps, TickedSteps, LaterSteps
  <2>8. QED
    BY <2>5, <2>6, <2>7 DEF IInv
<1>3. ASSUME NEW r \in Roles, Recover(r) PROVE IInv'
  <2>1. /\ Len(groups[r]) = known[r] + 1 /\ Len(worker[r].ticks) = known[r] + 1
        /\ "worker-result" \in groups[r][Len(groups[r])].files
        /\ proc' = [step |-> "recovering", role |-> r,
                    delivery |-> groups[r][Len(groups[r])].delivery]
        /\ UNCHANGED <<now, cursor, pending, acks, worker, groups, known>>
    BY <1>3 DEF Recover, Recoverable, PendingResult, WorkerAt, Last
  <2>2. known[r] \in Nat /\ groups[r] \in Seq(Group)
    BY <1>0 DEF DataTypeOK
  <2>3. groups[r][known[r] + 1] \in Group
    BY <2>1, <2>2
  <2>4. worker[r].ticks[known[r] + 1] = groups[r][known[r] + 1].delivery
    BY <1>0, <2>1 DEF RoleOK, Foldered
  <2>5. ProcessOK'
    BY <2>1, <2>4 DEF ProcessOK, Doing, OpenSteps, TickedSteps, LaterSteps
  <2>6. CashTypeOK'
    BY <1>0, <2>1, <2>3 DEF CashTypeOK, DataTypeOK, Group, TickedSteps
  <2>7. QED
    BY <2>1, <2>5, <2>6, RolesUntouched DEF IInv
<1>4. CASE MakeGroup(known[Me] + 1)
  <2> DEFINE g == [seq |-> k + 1, delivery |-> proc.delivery, files |-> {}, torn |-> FALSE]
  <2>1. /\ Me \in Roles /\ Len(gs) = k /\ Len(t) = k /\ proc.delivery \in {0, cursor[Me] + 1}
        /\ groups' = [groups EXCEPT ![Me] = Append(gs, g)]
        /\ UNCHANGED <<now, cursor, pending, acks, worker, known>>
        /\ proc' = [proc EXCEPT !.step = "folder"]
    BY <1>0, <1>4 DEF MakeGroup, Doing
  <2>2. k \in Nat /\ gs \in Seq(Group) /\ proc.delivery \in Nat
    BY <1>0, <2>1 DEF CashTypeOK, DataTypeOK
  <2>a. g \in Group
    BY <2>2 DEF Group
  <2>b. Append(gs, g) \in Seq(Group)
    BY <2>2, <2>a
  <2>3. /\ groups' \in [Roles -> Seq(Group)]
        /\ groups'[Me] = Append(gs, g)
        /\ \A r \in Roles : r # Me => groups'[r] = groups[r]
    BY <1>0, <2>1, <2>b DEF DataTypeOK
  <2>4. /\ Len(Append(gs, g)) = k + 1 /\ Append(gs, g)[k + 1] = g
        /\ \A i \in 1..k : Append(gs, g)[i] = gs[i]
    BY <2>1, <2>2
  <2>5. Foldered(t, k, Append(gs, g))
    BY <1>0, <2>1, <2>2, <2>4 DEF RoleOK, Foldered
  <2>6. ASSUME NEW r \in Roles PROVE RoleOK(r)'
    BY <1>0, <2>1, <2>3, <2>5 DEF RoleOK
  <2>7. /\ proc'.step = "folder" /\ proc'.role = Me /\ proc'.delivery = proc.delivery
        /\ CashTypeOK'
    BY <1>0, <2>1, <2>3 DEF CashTypeOK, DataTypeOK, OpenSteps
  <2>8. ProcessOK'
    BY <2>1, <2>3, <2>4, <2>7 DEF ProcessOK, Doing, OpenSteps, TickedSteps, LaterSteps
  <2>9. QED
    BY <2>6, <2>7, <2>8 DEF IInv
<1>5. CASE TickBegins
  <2> DEFINE h == [worker[Me] EXCEPT !.state = "prepared", !.slot = now]
  <2>1. /\ Me \in Roles /\ UNCHANGED <<now, cursor, pending, acks, groups, known>>
        /\ proc' = [proc EXCEPT !.step = "ticking"]
        /\ Doing("prepared", proc.delivery, t, cursor[Me], k, gs)
    BY <1>0, <1>5 DEF TickBegins
  <2>2. worker[Me] \in Worker /\ now \in Int
    BY <1>0, <2>1 DEF DataTypeOK
  <2>3. h \in Worker /\ h.ticks = t
    BY <2>2 DEF Worker
  <2>4. worker' = [worker EXCEPT ![Me] = h]
    BY <1>0, <1>5, <2>1, <2>2 DEF TickBegins, DataTypeOK, Worker
  <2>5. worker' \in [Roles -> Worker] /\ \A r \in Roles : worker'[r].ticks = worker[r].ticks
    BY <1>0, <2>1, <2>3, <2>4 DEF DataTypeOK
  <2>6. \A r \in Roles : RoleOK(r)'
    BY <1>0, <2>1, <2>5 DEF RoleOK
  <2>7. /\ proc'.step = "ticking" /\ proc'.role = Me /\ proc'.delivery = proc.delivery
        /\ CashTypeOK'
    BY <1>0, <2>1, <2>5 DEF CashTypeOK, DataTypeOK, OpenSteps
  <2>8. ProcessOK'
    BY <2>1, <2>5, <2>7 DEF ProcessOK, Doing, OpenSteps, TickedSteps, LaterSteps
  <2>9. QED
    BY <2>6, <2>7, <2>8 DEF IInv
<1>6. CASE TickCompletes
  <2>1. /\ Me \in Roles /\ UNCHANGED <<now, cursor, pending, acks, groups, known>>
        /\ proc' = [proc EXCEPT !.step = "ticked"]
        /\ Doing("ticking", proc.delivery, t, cursor[Me], k, gs)
    BY <1>0, <1>6 DEF TickCompletes
  <2>2. /\ worker' \in [Roles -> Worker]
        /\ \A r \in Roles : r # Me => worker'[r] = worker[r]
        /\ worker'[Me].ticks = Append(t, proc.delivery)
        /\ Applied(worker'[Me].ticks, acks[Me], cursor[Me], pending[Me], k)
    BY <1>6, TickStep DEF TickCompletes
  <2>3. /\ Len(t) = k /\ Len(gs) = k + 1 /\ gs[k + 1].delivery = proc.delivery
        /\ "worker-result" \notin gs[k + 1].files /\ t \in Seq(Nat) /\ k \in Nat
        /\ proc.delivery \in Nat
    BY <1>0, <2>1 DEF Doing, OpenSteps, CashTypeOK, DataTypeOK, Worker
  <2>4. Len(worker'[Me].ticks) = k + 1 /\ worker'[Me].ticks[k + 1] = proc.delivery
    BY <2>2, <2>3
  <2>5. ASSUME NEW r \in Roles PROVE RoleOK(r)'
    BY <1>0, <2>1, <2>2, <2>3 DEF RoleOK, Foldered
  <2>6. /\ proc'.step = "ticked" /\ proc'.role = Me /\ proc'.delivery = proc.delivery
        /\ CashTypeOK'
    BY <1>0, <2>1, <2>2 DEF CashTypeOK, DataTypeOK, TickedSteps
  <2>7. ProcessOK'
    BY <2>1, <2>3, <2>4, <2>6 DEF ProcessOK, Doing, OpenSteps, TickedSteps, LaterSteps
  <2>8. QED
    BY <2>5, <2>6, <2>7 DEF IInv
<1>7. CASE TickRaises(Idle) /\ ~ At("ticked")
  <2>1. /\ Me \in Roles /\ UNCHANGED <<now, cursor, pending, acks, known>>
        /\ groups' = CurrentWith({"worker-error"}, FALSE) /\ proc' = Idle
        /\ proc.step \in {"prepared", "ticking"}
        /\ Doing(proc.step, proc.delivery, t, cursor[Me], k, gs)
    BY <1>0, <1>7, RaisedFiles DEF TickRaises
  <2>2. Len(gs) = k + 1 /\ k \in Nat /\ gs \in Seq(Group) /\ "worker-result" \notin gs[k + 1].files
    BY <1>0, <2>1 DEF Doing, OpenSteps, DataTypeOK
  <2>3. PICK files \in SUBSET Files : files = {"worker-error"}
    BY DEF Files
  <2>4. /\ groups' \in [Roles -> Seq(Group)]
        /\ \A r \in Roles : r # Me => groups'[r] = groups[r]
        /\ Len(groups'[Me]) = k + 1
        /\ \A i \in 1..k + 1 : groups'[Me][i].seq = gs[i].seq
        /\ "worker-result" \notin groups'[Me][k + 1].files
    <3>1. /\ groups' \in [Roles -> Seq(Group)]
          /\ \A r \in Roles : r # Me => groups'[r] = groups[r]
          /\ Len(groups'[Me]) = Len(gs)
          /\ \A i \in 1..Len(gs) :
               /\ groups'[Me][i].seq = gs[i].seq
               /\ groups'[Me][i].delivery = gs[i].delivery
               /\ groups'[Me][i].files = IF i = Len(gs) THEN gs[i].files \cup files
                                        ELSE gs[i].files
      <4>1. Len(gs) >= 1 /\ groups' = CurrentWith(files, FALSE)
        BY <2>1, <2>2, <2>3
      <4>2. QED
        BY <1>0, <2>1, <4>1, CurrentGroup
    <3>2. k + 1 \in 1..Len(gs) /\ k + 1 = Len(gs)
      BY <2>2
    <3>3. groups'[Me][k + 1].files = gs[k + 1].files \cup files
      BY <3>1, <3>2
    <3>4. "worker-result" \notin groups'[Me][k + 1].files
      BY <2>2, <2>3, <3>3
    <3>5. QED
      BY <3>1, <3>2, <3>4
  <2>5. /\ worker' \in [Roles -> Worker]
        /\ \A r \in Roles : r # Me => worker'[r] = worker[r]
        /\ Applied(worker'[Me].ticks, acks[Me], cursor[Me], pending[Me], k)
    <3>1. CASE UNCHANGED worker
      BY <1>0, <2>1, <3>1 DEF DataTypeOK, RoleOK
    <3>2. CASE worker' = [worker EXCEPT ![Me].state = "terminated"]
      <4> DEFINE h == [worker[Me] EXCEPT !.state = "terminated"]
      <4>1. worker[Me] \in Worker /\ worker \in [Roles -> Worker]
        BY <1>0, <2>1 DEF DataTypeOK
      <4>2. h \in Worker /\ h.ticks = t /\ worker' = [worker EXCEPT ![Me] = h]
        BY <3>2, <4>1 DEF Worker
      <4>3. QED
        BY <1>0, <2>1, <4>1, <4>2 DEF RoleOK
    <3>3. CASE At("ticking") /\ worker' = [worker EXCEPT ![Me].ticks = Ticked, ![Me].state = "terminated"]
      BY <3>3, TickStep
    <3>4. QED
      BY <1>7, <3>1, <3>2, <3>3 DEF TickRaises
  <2>6. ASSUME NEW r \in Roles PROVE RoleOK(r)'
    <3>1. CASE r = Me
      BY <1>0, <2>1, <2>2, <2>4, <2>5, <3>1 DEF RoleOK, Foldered
    <3>2. CASE r # Me
      BY <1>0, <2>1, <2>4, <2>5, <3>2 DEF RoleOK
    <3>3. QED
      BY <3>1, <3>2
  <2>7. CashTypeOK' /\ ProcessOK'
    BY <1>0, <2>1, <2>4, <2>5 DEF CashTypeOK, DataTypeOK, ProcessOK, Idle
  <2>8. QED
    BY <2>6, <2>7 DEF IInv
<1>8. CASE AcknowledgeQueue \/ RecoverAcknowledges
  <2>1. /\ Me \in Roles /\ proc.step \in {"result", "recovering"}
        /\ UNCHANGED <<now, worker, groups, known>>
        /\ \/ proc.delivery = 0 /\ UNCHANGED <<cursor, pending, acks>>
           \/ Acknowledge(Me, proc.delivery, Current.seq)
        /\ \E s \in {"acknowledged", "reacknowledged"} : proc' = [proc EXCEPT !.step = s]
        /\ Len(gs) = k + 1 /\ Len(t) = k + 1
        /\ t[k + 1] = proc.delivery /\ gs[k + 1].delivery = proc.delivery
    BY <1>0, <1>8 DEF AcknowledgeQueue, RecoverAcknowledges, Doing, TickedSteps
  <2>2. DataTypeOK' /\ (\A r \in Roles : RoleOK(r)') /\ proc.delivery <= cursor'[Me]
    <3>1. CASE proc.delivery = 0 /\ UNCHANGED <<cursor, pending, acks>>
      BY <1>0, <2>1, <3>1, RolesUntouched DEF DataTypeOK
    <3>2. CASE Acknowledge(Me, proc.delivery, Current.seq)
      BY <2>1, <3>2, AckStep
    <3>3. QED
      BY <2>1, <3>1, <3>2
  <2>3. PICK s \in {"acknowledged", "reacknowledged"} : proc' = [proc EXCEPT !.step = s]
    BY <2>1
  <2>4. /\ proc'.step = s /\ proc'.role = Me /\ proc'.delivery = proc.delivery
        /\ CashTypeOK'
    BY <1>0, <2>2, <2>3 DEF CashTypeOK, TickedSteps, LaterSteps
  <2>5. ProcessOK'
    BY <2>1, <2>2, <2>4 DEF ProcessOK, Doing, OpenSteps, TickedSteps, LaterSteps
  <2>6. QED
    BY <2>2, <2>4, <2>5 DEF IInv
<1>9. CASE \/ WriteInputs \/ WriteResult \/ WriteAck \/ WriteComplete
           \/ RecoverWritesAck \/ RecoverCompletes
  <2>1. \E files \in SUBSET Files : \E s \in OpenSteps \cup TickedSteps :
          /\ proc.step \in OpenSteps \cup TickedSteps
          /\ UNCHANGED <<now, cursor, pending, acks, worker, known>>
          /\ groups' = CurrentWith(files, FALSE)
          /\ "worker-result" \in files => proc.step \in TickedSteps
          /\ proc' = [proc EXCEPT !.step = s]
          /\ s \in OpenSteps => proc.step \in OpenSteps /\ "worker-result" \notin files
          /\ s \in TickedSteps => proc.step \in TickedSteps
          /\ s \in LaterSteps => proc.step \in LaterSteps
    BY <1>9 DEF WriteInputs, WriteResult, WriteAck, WriteComplete, RecoverWritesAck,
                RecoverCompletes, Files, OpenSteps, TickedSteps, LaterSteps
  <2>2. PICK files \in SUBSET Files, s \in OpenSteps \cup TickedSteps :
          /\ proc.step \in OpenSteps \cup TickedSteps
          /\ UNCHANGED <<now, cursor, pending, acks, worker, known>>
          /\ groups' = CurrentWith(files, FALSE)
          /\ "worker-result" \in files => proc.step \in TickedSteps
          /\ proc' = [proc EXCEPT !.step = s]
          /\ s \in OpenSteps => proc.step \in OpenSteps /\ "worker-result" \notin files
          /\ s \in TickedSteps => proc.step \in TickedSteps
          /\ s \in LaterSteps => proc.step \in LaterSteps
    BY <2>1
  <2>3. /\ DataTypeOK' /\ (\A r \in Roles : RoleOK(r)')
        /\ Len(groups'[Me]) = Len(gs)
        /\ groups'[Me][k + 1].delivery = gs[k + 1].delivery
        /\ groups'[Me][k + 1].files = gs[k + 1].files \cup files
    BY <2>2, FilesStep
  <2>4. /\ proc'.step = s /\ proc'.role = Me /\ proc'.delivery = proc.delivery
        /\ CashTypeOK'
    BY <1>0, <2>2, <2>3 DEF CashTypeOK
  <2>5. Me \in Roles /\ Doing(proc.step, proc.delivery, t, cursor[Me], k, gs)
    BY <1>0, <2>2 DEF OpenSteps, TickedSteps, LaterSteps
  <2>6. ProcessOK'
    BY <2>2, <2>3, <2>4, <2>5 DEF ProcessOK, Doing, OpenSteps, TickedSteps, LaterSteps
  <2>7. QED
    BY <2>3, <2>4, <2>6 DEF IInv
<1>10. CASE DiesInApply(Idle) \/ RecoveryDies \/ (TickRaises(Idle) /\ At("ticked"))
  <2>1. /\ UNCHANGED <<now, cursor, pending, acks, worker, known>> /\ proc' = Idle
        /\ \/ UNCHANGED groups
           \/ \E files \in SUBSET Files, torn \in BOOLEAN :
                /\ groups' = CurrentWith(files, torn)
                /\ proc.step \in OpenSteps \cup TickedSteps
                /\ "worker-result" \in files => proc.step \in TickedSteps
    <3>1. CASE DiesInApply(Idle)
      <4>1. /\ UNCHANGED <<now, cursor, pending, acks, worker, known>> /\ proc' = Idle
            /\ \/ UNCHANGED groups
               \/ Written # {} /\ groups' = CurrentWith(Written, TRUE)
        BY <3>1 DEF DiesInApply
      <4>2. Written # {} => /\ Written \in SUBSET Files
                            /\ proc.step \in OpenSteps \cup TickedSteps
                            /\ "worker-result" \in Written => proc.step \in TickedSteps
        BY DEF Written, Files, OpenSteps, TickedSteps, LaterSteps
      <4>3. QED
        BY <4>1, <4>2
    <3>2. CASE RecoveryDies
      <4>1. /\ UNCHANGED <<now, cursor, pending, acks, worker, known>> /\ proc' = Idle
            /\ \/ UNCHANGED groups
               \/ At("reacknowledged") /\ groups' = CurrentWith({"ack"}, TRUE)
               \/ At("rewritten") /\ groups' = CurrentWith({"complete"}, TRUE)
        BY <3>2 DEF RecoveryDies
      <4>2. /\ {"ack"} \in SUBSET Files /\ "worker-result" \notin {"ack"}
            /\ {"complete"} \in SUBSET Files /\ "worker-result" \notin {"complete"}
            /\ {"reacknowledged", "rewritten"} \subseteq OpenSteps \cup TickedSteps
        BY DEF Files, OpenSteps, TickedSteps, LaterSteps
      <4>3. QED
        BY <4>1, <4>2
    <3>3. CASE TickRaises(Idle) /\ At("ticked")
      <4>1. /\ UNCHANGED <<now, cursor, pending, acks, worker, known>> /\ proc' = Idle
            /\ groups' \in Raised /\ proc.step \in TickedSteps
        BY <3>3 DEF TickRaises, TickedSteps
      <4>2. PICK files \in SUBSET Files, torn \in BOOLEAN : groups' = CurrentWith(files, torn)
        BY <4>1, RaisedFiles
      <4>3. QED
        BY <4>1, <4>2
    <3>4. QED
      BY <1>10, <3>1, <3>2, <3>3
  <2>2. DataTypeOK' /\ \A r \in Roles : RoleOK(r)'
    BY <1>0, <2>1, RolesUntouched, FilesStep DEF DataTypeOK
  <2>3. QED
    BY <2>1, <2>2 DEF IInv, CashTypeOK, ProcessOK, Idle
<1>11. CASE ApplyTooLate
  <2>1. UNCHANGED <<now, cursor, pending, acks, worker, groups, known>> /\ proc' = Idle
    BY <1>11 DEF ApplyTooLate
  <2>2. QED
    BY <1>0, <2>1, RolesUntouched DEF IInv, CashTypeOK, DataTypeOK, ProcessOK, Idle
<1>12. CASE ApplyReturns
  <2>1. /\ Me \in Roles /\ UNCHANGED <<now, cursor, pending, acks, worker, groups>>
        /\ known' = [known EXCEPT ![Me] = Len(gs)] /\ proc' = Idle
        /\ Len(gs) = k + 1 /\ Len(t) = k + 1 /\ t[k + 1] <= cursor[Me]
    BY <1>0, <1>12 DEF ApplyReturns, Doing, TickedSteps, LaterSteps
  <2>2. /\ k \in Nat /\ t \in Seq(Nat) /\ acks[Me] \in Seq(Nat) /\ cursor[Me] \in Nat
        /\ pending[Me] \in Nat
    BY <1>0, <2>1 DEF DataTypeOK, Worker
  <2>3. /\ known' \in [Roles -> Nat] /\ known'[Me] = k + 1
        /\ \A r \in Roles : r # Me => known'[r] = known[r]
    BY <1>0, <2>1, <2>2 DEF DataTypeOK
  <2>4. Applied(t, acks[Me], cursor[Me], pending[Me], k + 1)
    <3>1. Applied(t, acks[Me], cursor[Me], pending[Me], k)
      BY <1>0, <2>1 DEF RoleOK
    <3> HIDE DEF k, t
    <3>2. QED
      BY <2>1, <2>2, <3>1, CheckpointMoves
  <2>5. Foldered(t, k + 1, gs)
    BY <1>0, <2>1, <2>2 DEF RoleOK, Foldered
  <2>6. ASSUME NEW r \in Roles PROVE RoleOK(r)'
    BY <1>0, <2>1, <2>3, <2>4, <2>5 DEF RoleOK
  <2>7. QED
    BY <1>0, <2>1, <2>3, <2>6 DEF IInv, CashTypeOK, DataTypeOK, ProcessOK, Idle
<1>13. QED
  BY <1>1, <1>2, <1>3, <1>4, <1>5, <1>6, <1>7, <1>8, <1>9, <1>10, <1>11, <1>12
     DEF Next, ApplyStep, RecoveryStep
-----------------------------------------------------------------------------
(* Theorems *)

LEMMA InvariantInit == Init => IInv
<1> SUFFICES ASSUME Init PROVE IInv
  OBVIOUS
<1>1. /\ now = 0 /\ cursor = [r \in Roles |-> 0] /\ pending = [r \in Roles |-> 0]
      /\ acks = [r \in Roles |-> <<>>] /\ groups = [r \in Roles |-> <<>>]
      /\ worker = [r \in Roles |-> [ticks |-> <<>>, state |-> "idle", slot |-> -1]]
      /\ known = [r \in Roles |-> 0] /\ proc = Idle
  BY DEF Init, ApplicationInit, DeliveryInit
<1>2. CashTypeOK
  BY <1>1 DEF CashTypeOK, DataTypeOK, Worker, Idle
<1>3. ASSUME NEW r \in Roles PROVE RoleOK(r)
  BY <1>1 DEF RoleOK, Applied, Receipts, Consecutive, Foldered
<1>4. ProcessOK
  BY <1>1 DEF ProcessOK, Idle
<1>5. QED
  BY <1>2, <1>3, <1>4 DEF IInv

\* The invariant: ticks, receipts, cursor, folder and checkpoint of each role,
\* and the step of the process, agree in every reachable state.
THEOREM Inductive == Spec => []IInv
<1>1. Init => IInv
  BY InvariantInit
<1>2. IInv /\ [Next]_vars => IInv'
  BY InvariantKept
<1>3. QED
  BY <1>1, <1>2, PTL DEF Spec

\* Type correctness of the queue, the workers, the folders and the process.
THEOREM TypeCorrect == Spec => []CashTypeOK
<1>1. IInv => CashTypeOK
  BY DEF IInv
<1>2. QED
  BY <1>1, Inductive, PTL

\* ExactlyOnce, for every number of roles, groups and crashes: a worker executes
\* the deliveries of its role once each and in order, and an acknowledgement
\* carries the receipt of that execution (cash_worker_application.py:210-262,
\* cash_ack_recovery.py:154-215).
THEOREM ExactlyOnceHolds == Spec => []ExactlyOnce
<1>1. IInv => ExactlyOnce
  BY DEF IInv, RoleOK, Applied, Receipts, Consecutive,
         ExactlyOnce, ExecutedInOrder, AcknowledgedWasExecuted
<1>2. QED
  BY <1>1, Inductive, PTL
-----------------------------------------------------------------------------
(* A durable result can be recovered. *)

LEMMA OthersDurable ==
  ASSUME Durable, NEW q \in Roles,
         \A r \in Roles : r # q =>
           /\ groups'[r] = groups[r] /\ known'[r] = known[r] /\ worker'[r] = worker[r]
           /\ cursor'[r] = cursor[r] /\ pending'[r] = pending[r]
  PROVE  \A r \in Roles : r # q => RoleDurable(r)'
  BY DEF Durable, RoleDurable

(* A step of the process that goes on with its group.                        *)
LEMMA GoesOnHolding ==
  ASSUME IInv', NEW q \in Roles, \A r \in Roles : r # q => RoleDurable(r)',
         proc'.role = q, proc'.step \in OpenSteps \cup TickedSteps,
         \A i \in 1..known'[q] : Intact(groups'[q][i]),
         Held(proc'.step, proc'.delivery, groups'[q][known'[q] + 1], worker'[q],
              cursor'[q], pending'[q])
  PROVE  Durable'
<1> DEFINE g == groups'[q][known'[q] + 1]
<1>1. proc'.step # "idle"
  BY DEF OpenSteps, TickedSteps, LaterSteps
<1>2. Doing(proc'.step, proc'.delivery, worker'[q].ticks, cursor'[q], known'[q], groups'[q])
  BY <1>1 DEF IInv, ProcessOK
<1>3. Len(groups'[q]) = known'[q] + 1 /\ g.delivery = proc'.delivery
  BY <1>2 DEF Doing
<1>4. /\ known'[q] \in Nat /\ groups'[q] \in Seq(Group) /\ proc'.delivery \in Nat
      /\ cursor'[q] \in Nat /\ pending'[q] \in Nat
  BY DEF IInv, CashTypeOK, DataTypeOK
<1>5. g \in Group
  BY <1>3, <1>4
<1>6. Left(g, worker'[q], cursor'[q], pending'[q])
  <2> HIDE DEF g
  <2>1. Held(proc'.step, proc'.delivery, g, worker'[q], cursor'[q], pending'[q])
    BY DEF g
  <2>2. QED
    BY <1>3, <1>4, <1>5, <2>1, HeldIsLeft
<1>7. RoleDurable(q)'
  BY <1>6 DEF RoleDurable
<1>8. InHand'
  BY DEF InHand
<1>9. QED
  BY <1>7, <1>8 DEF Durable

(* A step of the process after which it serves no role.                      *)
LEMMA StopsHolding ==
  ASSUME NEW q \in Roles, \A r \in Roles : r # q => RoleDurable(r)', RoleDurable(q)',
         proc' = Idle
  PROVE  Durable'
  BY DEF Durable, InHand, Idle

LEMMA DurableKept ==
  ASSUME IInv, Durable, [Next]_vars
  PROVE  Durable'
<1> DEFINE k == known[Me]
           d == proc.delivery
           g == groups[Me][k + 1]
           w == worker[Me]
           Others == \A r \in Roles : r # Me => RoleDurable(r)'
<1>a. IInv'
  BY InvariantKept
<1>b. DataTypeOK /\ CashTypeOK /\ \A r \in Roles : RoleOK(r) /\ RoleDurable(r)
  BY DEF IInv, CashTypeOK, Durable
<1>c. proc.step \in OpenSteps \cup TickedSteps =>
        /\ Me \in Roles /\ k \in Nat /\ Len(groups[Me]) = k + 1 /\ g \in Group
        /\ groups[Me] \in Seq(Group) /\ k + 1 \in 1..Len(groups[Me])
        /\ g.delivery = d /\ d \in Nat /\ cursor[Me] \in Nat /\ pending[Me] \in Nat
        /\ Held(proc.step, d, g, w, cursor[Me], pending[Me])
  BY Holding
<1>1. CASE SourceStep \/ IngestStep \/ ClockStep \/ UNCHANGED vars
  <2>1. UNCHANGED <<cursor, pending, worker, groups, known, proc>>
    BY <1>1 DEF SourceStep, IngestStep, Ingest, ClockStep, sourceVars, vars
  <2>2. QED
    BY <2>1 DEF Durable, RoleDurable, InHand
<1>2. ASSUME NEW r \in Roles, Apply(r) PROVE Durable'
  <2>1. /\ Len(groups[r]) = known[r]
        /\ proc' = [step |-> "offered", role |-> r, delivery |-> NextDelivery(r)]
        /\ UNCHANGED <<now, cursor, acks, worker, groups, known>>
        /\ pending' = [pending EXCEPT ![r] = IF NextDelivery(r) # 0 THEN NextDelivery(r) ELSE @]
    BY <1>2 DEF Apply, Checkpointed, WorkerAt, QueueOffers, Offer
  <2>2. /\ cursor[r] \in Nat /\ pending[r] \in {0, cursor[r] + 1} /\ known[r] \in Nat
        /\ pending \in [Roles -> Nat]
    BY <1>b DEF DataTypeOK, RoleOK, Applied
  <2>3. NextDelivery(r) \in {0, cursor[r] + 1}
    BY <2>2 DEF NextDelivery
  <2>4. /\ NextDelivery(r) # 0 => pending'[r] = NextDelivery(r)
        /\ \A q \in Roles : q # r => pending'[q] = pending[q]
    BY <2>1, <2>2
  <2>5. \A q \in Roles : q # r => RoleDurable(q)'
    BY <2>1, <2>4, OthersDurable
  <2>6. RoleDurable(r)'
    BY <1>b, <2>1, <2>2 DEF RoleDurable
  <2>7. InHand'
    BY <2>1, <2>2, <2>3, <2>4 DEF InHand, Held, Before, OpenSteps, TickedSteps, LaterSteps
  <2>8. QED
    BY <2>5, <2>6, <2>7 DEF Durable
<1>3. ASSUME NEW r \in Roles, Recover(r) PROVE Durable'
  <2> DEFINE h == groups[r][known[r] + 1]
  <2>1. /\ Len(groups[r]) = known[r] + 1
        /\ h.files \in {ReceiptFiles, AckFiles} /\ ~h.torn
        /\ worker[r].state = "idle"
        /\ Before(h.delivery, cursor[r], pending[r]) \/ Past(h.delivery, cursor[r], pending[r])
        /\ proc' = [step |-> "recovering", role |-> r, delivery |-> h.delivery]
        /\ UNCHANGED <<now, cursor, pending, acks, worker, groups, known>>
    BY <1>3 DEF Recover, Recoverable, PendingResult, WorkerAt, CursorAt, Last, Before, Past,
                InputFiles, ReceiptFiles, AckFiles
  <2>2. \A q \in Roles : RoleDurable(q)'
    BY <1>b, <2>1 DEF RoleDurable
  <2>3. InHand'
    <3> HIDE DEF h
    <3>1. Held("recovering", h.delivery, h, worker[r], cursor[r], pending[r])
      BY <2>1 DEF Held, OpenSteps, TickedSteps, LaterSteps
    <3>2. QED
      BY <2>1, <3>1 DEF InHand, h
  <2>4. QED
    BY <2>2, <2>3 DEF Durable
<1>4. CASE MakeGroup(known[Me] + 1)
  <2>1. /\ Me \in Roles /\ Len(groups[Me]) = k
        /\ Held("offered", d, g, w, cursor[Me], pending[Me])
    BY <1>4 DEF MakeGroup, IInv, ProcessOK, Doing, Durable, InHand
  <2>2. /\ groups' = [groups EXCEPT ![Me] = Append(@,
              [seq |-> k + 1, delivery |-> d, files |-> {}, torn |-> FALSE])]
        /\ UNCHANGED <<now, cursor, pending, acks, worker, known>>
        /\ proc' = [proc EXCEPT !.step = "folder"]
    BY <1>4 DEF MakeGroup
  <2>3. k \in Nat /\ groups[Me] \in Seq(Group) /\ groups \in [Roles -> Seq(Group)]
    BY <1>b, <2>1 DEF DataTypeOK
  <2>4. /\ groups'[Me] = Append(groups[Me],
              [seq |-> k + 1, delivery |-> d, files |-> {}, torn |-> FALSE])
        /\ \A r \in Roles : r # Me => groups'[r] = groups[r]
    BY <2>1, <2>2, <2>3
  <2>5. /\ groups'[Me][k + 1].files = {} /\ ~groups'[Me][k + 1].torn
        /\ \A i \in 1..k : groups'[Me][i] = groups[Me][i]
    BY <2>1, <2>3, <2>4
  <2>6. Others
    BY <2>1, <2>2, <2>4, OthersDurable
  <2>7. proc'.step = "folder" /\ proc'.role = Me /\ proc'.delivery = d
    BY <1>b, <2>2 DEF CashTypeOK
  <2>8. Held("folder", d, groups'[Me][k + 1], w, cursor[Me], pending[Me])
    BY <2>1, <2>5 DEF Held, OpenSteps, TickedSteps, LaterSteps
  <2>9. \A i \in 1..k : Intact(groups'[Me][i])
    BY <1>b, <2>1, <2>5 DEF RoleDurable
  <2>10. QED
    BY <1>a, <2>1, <2>2, <2>6, <2>7, <2>8, <2>9, GoesOnHolding DEF OpenSteps
<1>5. CASE TickBegins \/ TickCompletes
  <2>1. /\ UNCHANGED <<now, cursor, pending, acks, groups, known>>
        /\ \/ At("prepared") /\ proc' = [proc EXCEPT !.step = "ticking"]
           \/ At("ticking") /\ proc' = [proc EXCEPT !.step = "ticked"]
    BY <1>5 DEF TickBegins, TickCompletes
  <2>2. proc.step \in OpenSteps \cup TickedSteps
    BY <2>1 DEF OpenSteps
  <2>3. /\ \A r \in Roles : r # Me => worker'[r] = worker[r]
        /\ At("ticking") => worker'[Me].state = "idle"
    <3>1. worker \in [Roles -> Worker] /\ w \in Worker /\ Me \in Roles
      BY <1>b, <1>c, <2>2 DEF DataTypeOK
    <3>2. CASE TickBegins
      BY <3>1, <3>2 DEF TickBegins
    <3>3. CASE TickCompletes
      BY <3>1, <3>3 DEF TickCompletes, Worker
    <3>4. QED
      BY <1>5, <3>2, <3>3
  <2>4. Others
    BY <1>c, <2>1, <2>2, <2>3, OthersDurable
  <2>5. /\ proc'.role = Me /\ proc'.delivery = d
        /\ \/ At("prepared") /\ proc'.step = "ticking"
           \/ At("ticking") /\ proc'.step = "ticked"
    BY <1>b, <2>1 DEF CashTypeOK
  <2>6. Held(proc'.step, d, g, worker'[Me], cursor[Me], pending[Me])
    BY <1>c, <2>2, <2>3, <2>5 DEF Held, OpenSteps, TickedSteps, LaterSteps
  <2>7. \A i \in 1..k : Intact(groups[Me][i])
    BY <1>b, <1>c, <2>2 DEF RoleDurable
  <2>8. proc'.step \in OpenSteps \cup TickedSteps
    BY <2>5 DEF OpenSteps, TickedSteps
  <2>9. QED
    BY <1>a, <1>c, <2>1, <2>2, <2>4, <2>5, <2>6, <2>7, <2>8, GoesOnHolding
<1>7. CASE TickRaises(Idle)
  <2>1. /\ UNCHANGED <<now, cursor, pending, acks, known>> /\ proc' = Idle
        /\ groups' \in Raised
        /\ proc.step \in {"prepared", "ticking", "ticked"}
    BY <1>7 DEF TickRaises
  <2>2. proc.step \in OpenSteps \cup TickedSteps
    BY <2>1 DEF OpenSteps, TickedSteps
  <2>3. PICK files \in SUBSET Files, torn \in BOOLEAN :
          groups' = CurrentWith(files, torn) /\ "worker-error" \in files
    BY <2>1, RaisedFiles
  <2>4. /\ groups'[Me][k + 1].files = g.files \cup files
        /\ \A i \in 1..k : groups'[Me][i] = groups[Me][i]
        /\ \A r \in Roles : r # Me => groups'[r] = groups[r]
    BY <2>2, <2>3, GroupStep
  <2>5. \A r \in Roles : r # Me => worker'[r] = worker[r]
    <3>1. worker \in [Roles -> Worker]
      BY <1>b DEF DataTypeOK
    <3>2. QED
      BY <1>7, <3>1 DEF TickRaises
  <2>6. Others
    BY <1>c, <2>1, <2>2, <2>4, <2>5, OthersDurable
  <2>7. "worker-error" \in groups'[Me][k + 1].files
    BY <2>3, <2>4
  <2>8. PICK q \in Roles : q = Me
    BY <1>c, <2>2
  <2>9. RoleDurable(q)'
    BY <1>b, <2>1, <2>4, <2>7, <2>8 DEF RoleDurable, Left, Pending
  <2>10. QED
    BY <2>1, <2>6, <2>8, <2>9, StopsHolding
<1>8. CASE AcknowledgeQueue \/ RecoverAcknowledges
  <2>1. /\ UNCHANGED <<now, worker, groups, known>>
        /\ \/ d = 0 /\ UNCHANGED <<cursor, pending, acks>>
           \/ Acknowledge(Me, d, Current.seq)
        /\ \/ At("result") /\ proc' = [proc EXCEPT !.step = "acknowledged"]
           \/ At("recovering") /\ proc' = [proc EXCEPT !.step = "reacknowledged"]
    BY <1>8 DEF AcknowledgeQueue, RecoverAcknowledges
  <2>2. proc.step \in OpenSteps \cup TickedSteps
    BY <2>1 DEF TickedSteps
  <2>3. /\ proc'.role = Me /\ proc'.delivery = d
        /\ \/ At("result") /\ proc'.step = "acknowledged"
           \/ At("recovering") /\ proc'.step = "reacknowledged"
    BY <1>b, <2>1 DEF CashTypeOK
  <2>4. /\ \A r \in Roles : r # Me => cursor'[r] = cursor[r] /\ pending'[r] = pending[r]
        /\ d # 0 => Past(d, cursor'[Me], pending'[Me])
    <3>1. /\ cursor \in [Roles -> Nat] /\ pending \in [Roles -> Nat] /\ Me \in Roles /\ d \in Nat
      BY <1>b, <1>c, <2>2 DEF DataTypeOK
    <3>2. d # 0 => Before(d, cursor[Me], pending[Me]) \/ Past(d, cursor[Me], pending[Me])
      BY <1>c, <2>1, <2>2 DEF Held
    <3>3. CASE UNCHANGED <<cursor, pending>> /\ (d = 0 \/ d <= cursor[Me])
      BY <3>1, <3>2, <3>3 DEF Before, Past
    <3>4. CASE cursor' = [cursor EXCEPT ![Me] = d] /\ pending' = [pending EXCEPT ![Me] = 0]
      BY <3>1, <3>4 DEF Past
    <3>5. QED
      BY <2>1, <3>1, <3>3, <3>4 DEF Acknowledge, Repeated
  <2>5. Others
    BY <1>c, <2>1, <2>2, <2>4, OthersDurable
  <2>6. Held(proc'.step, d, g, w, cursor'[Me], pending'[Me])
    BY <1>c, <2>2, <2>3, <2>4 DEF Held, OpenSteps, TickedSteps, LaterSteps
  <2>7. \A i \in 1..k : Intact(groups[Me][i])
    BY <1>b, <1>c, <2>2 DEF RoleDurable
  <2>8. proc'.step \in OpenSteps \cup TickedSteps
    BY <2>3 DEF TickedSteps, LaterSteps
  <2>9. QED
    BY <1>a, <1>c, <2>1, <2>2, <2>3, <2>5, <2>6, <2>7, <2>8, GoesOnHolding
<1>9. ASSUME NEW files \in SUBSET Files, NEW s \in OpenSteps \cup TickedSteps,
             groups' = CurrentWith(files, FALSE), proc' = [proc EXCEPT !.step = s],
             UNCHANGED <<now, cursor, pending, acks, worker, known>>,
             \/ At("folder") /\ files = InputFiles /\ s = "prepared"
             \/ At("ticked") /\ files = {"worker-result"} /\ s = "result"
             \/ At("acknowledged") /\ files = {"ack"} /\ s = "ackfile"
             \/ At("ackfile") /\ files = {"complete"} /\ s = "complete"
             \/ At("reacknowledged") /\ files = {"ack"} /\ s = "rewritten"
             \/ At("rewritten") /\ files = {"complete"} /\ s = "complete"
      PROVE  Durable'
  <2>1. proc.step \in OpenSteps \cup TickedSteps
    BY <1>9 DEF OpenSteps, TickedSteps, LaterSteps
  <2>2. /\ groups'[Me][k + 1].files = g.files \cup files
        /\ groups'[Me][k + 1].torn = (g.torn \/ FALSE)
        /\ \A i \in 1..k : groups'[Me][i] = groups[Me][i]
        /\ \A r \in Roles : r # Me => groups'[r] = groups[r]
    BY <1>9, <2>1, GroupStep
  <2>3. proc'.role = Me /\ proc'.delivery = d /\ proc'.step = s
    BY <1>9, <1>b DEF CashTypeOK
  <2>4. Others
    BY <1>9, <1>c, <2>1, <2>2, OthersDurable
  <2>5. ~groups'[Me][k + 1].torn
    BY <1>c, <2>1, <2>2 DEF Held
  <2>6. Held(s, d, groups'[Me][k + 1], w, cursor[Me], pending[Me])
    <3> DEFINE h == groups'[Me][k + 1]
    <3>1. Held(proc.step, d, g, w, cursor[Me], pending[Me]) /\ ~h.torn /\ h.files = g.files \cup files
      BY <1>c, <2>1, <2>2, <2>5
    <3> SUFFICES Held(s, d, h, w, cursor[Me], pending[Me])
      OBVIOUS
    <3> HIDE DEF k, g, h, w, d
    <3>2. CASE At("folder") /\ files = InputFiles /\ s = "prepared"
      BY <3>1, <3>2, FileSets DEF Held, OpenSteps, TickedSteps, LaterSteps
    <3>3. CASE At("ticked") /\ files = {"worker-result"} /\ s = "result"
      BY <3>1, <3>3, FileSets DEF Held, OpenSteps, TickedSteps, LaterSteps
    <3>4. CASE At("acknowledged") /\ files = {"ack"} /\ s = "ackfile"
      BY <3>1, <3>4, FileSets DEF Held, OpenSteps, TickedSteps, LaterSteps
    <3>5. CASE At("ackfile") /\ files = {"complete"} /\ s = "complete"
      BY <3>1, <3>5, FileSets DEF Held, OpenSteps, TickedSteps, LaterSteps
    <3>6. CASE At("reacknowledged") /\ files = {"ack"} /\ s = "rewritten"
      BY <3>1, <3>6, FileSets DEF Held, OpenSteps, TickedSteps, LaterSteps
    <3>7. CASE At("rewritten") /\ files = {"complete"} /\ s = "complete"
      BY <3>1, <3>7, FileSets DEF Held, OpenSteps, TickedSteps, LaterSteps
    <3>8. QED
      BY <1>9, <3>2, <3>3, <3>4, <3>5, <3>6, <3>7
  <2>7. \A i \in 1..k : Intact(groups'[Me][i])
    BY <1>b, <1>c, <2>1, <2>2 DEF RoleDurable
  <2>8. QED
    BY <1>9, <1>a, <1>c, <2>1, <2>3, <2>4, <2>6, <2>7, GoesOnHolding
<1>10. ASSUME proc' = Idle, UNCHANGED <<now, cursor, pending, acks, worker, known>>,
              \/ UNCHANGED groups
              \/ /\ proc.step \in OpenSteps \cup TickedSteps
                 /\ \E files \in SUBSET Files : groups' = CurrentWith(files, TRUE)
       PROVE  Durable'
  <2>1. CASE UNCHANGED groups
    BY <1>10, <1>b, <2>1 DEF Durable, RoleDurable, InHand, Idle
  <2>2. CASE /\ proc.step \in OpenSteps \cup TickedSteps
             /\ \E files \in SUBSET Files : groups' = CurrentWith(files, TRUE)
    <3>1. PICK files \in SUBSET Files : groups' = CurrentWith(files, TRUE)
      BY <2>2
    <3>2. /\ groups'[Me][k + 1].torn = (g.torn \/ TRUE)
          /\ \A i \in 1..k : groups'[Me][i] = groups[Me][i]
          /\ \A r \in Roles : r # Me => groups'[r] = groups[r]
      BY <2>2, <3>1, GroupStep
    <3>3. Others
      BY <1>10, <1>c, <2>2, <3>2, OthersDurable
    <3>4. groups'[Me][k + 1].torn
      BY <3>2
    <3>5. PICK q \in Roles : q = Me
      BY <1>c, <2>2
    <3>6. RoleDurable(q)'
      BY <1>10, <1>b, <3>2, <3>4, <3>5 DEF RoleDurable, Left, Pending
    <3>7. QED
      BY <1>10, <3>3, <3>5, <3>6, StopsHolding
  <2>3. QED
    BY <1>10, <2>1, <2>2
<1>11. CASE ApplyReturns
  <2>1. /\ At("complete") /\ UNCHANGED <<now, cursor, pending, acks, worker, groups>>
        /\ known' = [known EXCEPT ![Me] = Len(groups[Me])] /\ proc' = Idle
    BY <1>11 DEF ApplyReturns
  <2>2. proc.step \in OpenSteps \cup TickedSteps
    BY <2>1 DEF TickedSteps, LaterSteps
  <2>3. Intact(g)
    BY <1>c, <2>1, <2>2 DEF Held, Intact
  <2>4. known'[Me] = k + 1 /\ \A r \in Roles : r # Me => known'[r] = known[r]
    BY <1>b, <1>c, <2>1, <2>2 DEF DataTypeOK
  <2>5. Others
    BY <1>c, <2>1, <2>2, <2>4, OthersDurable
  <2>6. PICK q \in Roles : q = Me
    BY <1>c, <2>2
  <2>7. RoleDurable(q)'
    <3>1. \A i \in 1..k : Intact(groups[Me][i])
      BY <1>b, <2>6 DEF RoleDurable
    <3>2. \A i \in 1..k + 1 : i \in 1..k \/ i = k + 1
      BY <1>c, <2>2
    <3>3. \A i \in 1..k + 1 : Intact(groups[Me][i])
      BY <2>3, <3>1, <3>2
    <3>4. Len(groups[Me]) # k + 1 + 1
      BY <1>c, <2>2
    <3>5. QED
      BY <2>1, <2>4, <2>6, <3>3, <3>4 DEF RoleDurable
  <2>8. QED
    BY <2>1, <2>5, <2>6, <2>7, StopsHolding
<1>12. CASE \/ WriteInputs \/ WriteResult \/ WriteAck \/ WriteComplete
            \/ RecoverWritesAck \/ RecoverCompletes
  <2>1. /\ {InputFiles, {"worker-result"}, {"ack"}, {"complete"}} \subseteq SUBSET Files
        /\ {"prepared", "result", "ackfile", "complete", "rewritten"}
             \subseteq OpenSteps \cup TickedSteps
    BY DEF InputFiles, Files, OpenSteps, TickedSteps, LaterSteps
  <2>2. CASE WriteInputs
    BY <1>9, <2>1, <2>2 DEF WriteInputs, InputFiles
  <2>3. CASE WriteResult
    BY <1>9, <2>1, <2>3 DEF WriteResult
  <2>4. CASE WriteAck
    BY <1>9, <2>1, <2>4 DEF WriteAck
  <2>5. CASE WriteComplete
    BY <1>9, <2>1, <2>5 DEF WriteComplete
  <2>6. CASE RecoverWritesAck
    BY <1>9, <2>1, <2>6 DEF RecoverWritesAck
  <2>7. CASE RecoverCompletes
    BY <1>9, <2>1, <2>7 DEF RecoverCompletes
  <2>8. QED
    BY <1>12, <2>2, <2>3, <2>4, <2>5, <2>6, <2>7
<1>13. CASE DiesInApply(Idle) \/ RecoveryDies \/ ApplyTooLate
  <2>1. CASE DiesInApply(Idle)
    <3>1. Written # {} => Written \in SUBSET Files /\ proc.step \in OpenSteps \cup TickedSteps
      BY DEF Written, Files, OpenSteps, TickedSteps, LaterSteps
    <3>2. /\ UNCHANGED <<now, cursor, pending, acks, worker, known>> /\ proc' = Idle
          /\ \/ UNCHANGED groups
             \/ Written # {} /\ groups' = CurrentWith(Written, TRUE)
      BY <2>1 DEF DiesInApply
    <3>3. QED
      BY <1>10, <3>1, <3>2
  <2>2. CASE RecoveryDies
    <3>1. /\ {"ack"} \in SUBSET Files /\ {"complete"} \in SUBSET Files
          /\ {"reacknowledged", "rewritten"} \subseteq OpenSteps \cup TickedSteps
      BY DEF Files, OpenSteps, TickedSteps, LaterSteps
    <3>2. /\ UNCHANGED <<now, cursor, pending, acks, worker, known>> /\ proc' = Idle
          /\ \/ UNCHANGED groups
             \/ At("reacknowledged") /\ groups' = CurrentWith({"ack"}, TRUE)
             \/ At("rewritten") /\ groups' = CurrentWith({"complete"}, TRUE)
      BY <2>2 DEF RecoveryDies
    <3>3. QED
      BY <1>10, <3>1, <3>2
  <2>3. CASE ApplyTooLate
    BY <1>10, <2>3 DEF ApplyTooLate
  <2>4. QED
    BY <1>13, <2>1, <2>2, <2>3
<1>14. QED
  BY <1>1, <1>2, <1>3, <1>4, <1>5, <1>7, <1>8, <1>11, <1>12, <1>13
     DEF Next, ApplyStep, RecoveryStep

-----------------------------------------------------------------------------
(* Theorems *)

\* Every step keeps what a crash may leave behind recoverable.
THEOREM DurableInductive == Spec => []Durable
<1>1. Init => Durable
  BY DEF Init, ApplicationInit, Idle, Durable, RoleDurable, InHand
<1>2. IInv /\ Durable /\ [Next]_vars => Durable'
  BY DurableKept
<1>3. QED
  BY <1>1, <1>2, Inductive, PTL DEF Spec

\* DurableResultsRecoverable, for every number of roles, groups, crashes and
\* interrupted recoveries, unless an error stands beside the result
\* (cash_ack_recovery.py:52-151, docs/CASH_ACK_RECOVERY.md).
THEOREM RecoverableHolds == Spec => []DurableResultsRecoverable
<1>1. ASSUME IInv, Durable PROVE DurableResultsRecoverable
  <2> SUFFICES ASSUME NEW r \in Roles, At("idle"), groups[r] # <<>>,
                      "worker-result" \in Last(groups[r]).files,
                      Last(groups[r]).files \cap {"worker-error", "complete"} = {},
                      ~Last(groups[r]).torn, Last(groups[r]).delivery # 0
               PROVE  Recoverable(r)
    BY DEF DurableResultsRecoverable
  <2> DEFINE n == Len(groups[r])
             h == groups[r][n]
  <2>1. /\ RoleOK(r) /\ RoleDurable(r) /\ known[r] \in Nat /\ groups[r] \in Seq(Group)
    BY <1>1 DEF IInv, CashTypeOK, DataTypeOK, Durable
  <2>2. n \in Nat /\ n >= 1 /\ n \in {known[r], known[r] + 1}
    BY <2>1 DEF RoleOK, Foldered
  <2>3. n = known[r] + 1
    <3>1. ~Intact(h)
      BY DEF Last, Intact, CompleteFiles, Files
    <3>2. QED
      BY <2>1, <2>2, <3>1 DEF RoleDurable
  <2>4. h = Last(groups[r])
    BY DEF Last
  <2>5. /\ h.files \in {ReceiptFiles, AckFiles} /\ worker[r].state = "idle"
        /\ Before(h.delivery, cursor[r], pending[r]) \/ Past(h.delivery, cursor[r], pending[r])
    BY <2>1, <2>3, <2>4 DEF RoleDurable, Left, Pending
  <2>6. Len(worker[r].ticks) = known[r] + 1
    BY <2>1, <2>3, <2>4 DEF RoleOK, Foldered
  <2>7. PendingResult(r)
    BY <2>1, <2>3, <2>4, <2>5 DEF PendingResult, RoleDurable, ReceiptFiles, AckFiles, InputFiles
  <2>8. QED
    BY <2>4, <2>5, <2>6, <2>7 DEF Recoverable, WorkerAt, CursorAt, Before, Past
<1>2. QED
  BY <1>1, Inductive, DurableInductive, PTL
-----------------------------------------------------------------------------
(* The delivery queue: what the source holds at a position is a matter of the *)
(* position alone, and the queue is cut where a poll ends.                   *)

Poll == Pairs + 2
Kinds == {"poll_prepared", "source_response", "poll_complete"}
Kind(i) ==
    CASE i % Poll = 1 -> "poll_prepared"
      [] i % Poll = 0 -> "poll_complete"
      [] OTHER -> "source_response"

SourceInv == source \in Seq(Kinds) /\ \A i \in 1..Len(source) : source[i] = Kind(i)

QueueInv ==
    /\ retained \in 0..Len(source) /\ retained % Poll = 0
    /\ batches \in Seq(Batch)
    /\ \A b \in 1..Len(batches) :
         /\ batches[b].from = (IF b = 1 THEN 1 ELSE batches[b - 1].to + 1)
         /\ batches[b].from <= batches[b].to /\ batches[b].to <= retained
         /\ batches[b].to % Poll = 0
    /\ retained = IF batches = <<>> THEN 0 ELSE batches[Len(batches)].to

(* A quotient and a remainder are determined by what they make.              *)
LEMMA Remainder ==
  ASSUME NEW m \in Nat, m > 0, NEW q \in Nat, NEW r \in 0..(m - 1)
  PROVE  (m * q + r) % m = r
<1> DEFINE n == m * q + r
           p == n \div m
           s == n % m
<1>1. n \in Nat
  OBVIOUS
<1>2. p \in Int /\ s \in 0..(m - 1) /\ n = m * p + s
  <2> HIDE DEF n
  <2> QED
    BY <1>1
<1> HIDE DEF p, s
<1>3. m * (p - q) = r - s
  BY <1>2
<1>4. ~ (p - q >= 1)
  <2>1. p - q >= 1 => m * (p - q) >= m * 1
    BY <1>2
  <2> QED
    BY <1>2, <1>3, <2>1
<1>5. ~ (p - q <= -1)
  <2>1. p - q <= -1 => m * (p - q) <= m * (-1)
    BY <1>2
  <2> QED
    BY <1>2, <1>3, <2>1
<1>6. p - q = 0
  BY <1>2, <1>4, <1>5
<1>7. r = s
  BY <1>2, <1>3, <1>6
<1> QED
  BY <1>7 DEF s

LEMMA Quotient ==
  ASSUME NEW m \in Nat, m > 0, NEW n \in Nat
  PROVE  /\ n \div m \in Nat /\ n % m \in 0..(m - 1)
         /\ n = m * (n \div m) + (n % m)
<1> DEFINE p == n \div m
           s == n % m
<1>1. p \in Int /\ s \in 0..(m - 1) /\ n = m * p + s
  OBVIOUS
<1> HIDE DEF p, s
<1>2. ~ (p <= -1)
  <2>1. p <= -1 => m * p <= m * (-1)
    BY <1>1
  <2> QED
    BY <1>1, <2>1
<1>3. p \in Nat
  BY <1>1, <1>2
<1> QED
  BY <1>1, <1>3 DEF p, s

(* The remainder of the next number.                                         *)
LEMMA NextRemainder ==
  ASSUME NEW m \in Nat, m > 1, NEW n \in Nat
  PROVE  (n + 1) % m = IF n % m = m - 1 THEN 0 ELSE (n % m) + 1
<1> DEFINE p == n \div m
           s == n % m
<1>1. p \in Nat /\ s \in 0..(m - 1) /\ n = m * p + s
  BY Quotient
<1> HIDE DEF p, s
<1>2. CASE s = m - 1
  <2>1. n + 1 = m * (p + 1) + 0
    BY <1>1, <1>2
  <2>2. (m * (p + 1) + 0) % m = 0
    BY <1>1, Remainder
  <2> QED
    BY <1>2, <2>1, <2>2 DEF s
<1>3. CASE s # m - 1
  <2>1. n + 1 = m * p + (s + 1) /\ s + 1 \in 0..(m - 1)
    BY <1>1, <1>3
  <2>2. (m * p + (s + 1)) % m = s + 1
    BY <1>1, <2>1, Remainder
  <2> QED
    BY <1>3, <2>1, <2>2 DEF s
<1> QED
  BY <1>2, <1>3

(* A difference of multiples is a multiple.                                  *)
LEMMA MultiplesApart ==
  ASSUME NEW m \in Nat, m > 0, NEW a \in Nat, NEW b \in Nat, a % m = 0, b % m = 0, a <= b
  PROVE  (b - a) % m = 0
<1> DEFINE p == a \div m
           q == b \div m
<1>1. p \in Nat /\ a = m * p /\ q \in Nat /\ b = m * q
  <2>1. p \in Nat /\ a = m * p + 0
    BY Quotient
  <2>2. q \in Nat /\ b = m * q + 0
    BY Quotient
  <2> HIDE DEF p, q
  <2> QED
    BY <2>1, <2>2
<1> HIDE DEF p, q
<1>2. p <= q
  <2>1. q - p <= -1 => m * (q - p) <= m * (-1)
    BY <1>1
  <2>2. m * (q - p) = b - a
    BY <1>1
  <2> QED
    BY <1>1, <2>1, <2>2
<1>3. PICK k \in Nat : b - a = m * k + 0
  <2>1. q - p \in Nat /\ b - a = m * (q - p) + 0
    BY <1>1, <1>2
  <2> QED
    BY <2>1
<1>4. (m * k + 0) % m = 0
  <2>1. 0 \in 0..(m - 1)
    OBVIOUS
  <2> QED
    BY <2>1, Remainder
<1> QED
  BY <1>3, <1>4

LEMMA PollLength == Poll \in Nat /\ Poll > 2 /\ Poll > 1 /\ Poll > 0
BY DeliveryAssumption DEF Poll

(* A position's place in its poll.                                           *)
LEMMA Place ==
  ASSUME NEW n \in Nat
  PROVE  /\ n % Poll \in 0..(Poll - 1)
         /\ (n + 1) % Poll = IF n % Poll = Poll - 1 THEN 0 ELSE (n % Poll) + 1
         /\ \E p \in Nat : n = Poll * p + (n % Poll)
<1>1. ASSUME NEW m \in Nat, m > 1
      PROVE  /\ n % m \in 0..(m - 1)
             /\ (n + 1) % m = IF n % m = m - 1 THEN 0 ELSE (n % m) + 1
             /\ \E p \in Nat : n = m * p + (n % m)
  <2>1. m > 0
    BY <1>1
  <2>2. n \div m \in Nat /\ n % m \in 0..(m - 1) /\ n = m * (n \div m) + (n % m)
    BY <1>1, <2>1, Quotient
  <2>3. (n + 1) % m = IF n % m = m - 1 THEN 0 ELSE (n % m) + 1
    BY <1>1, NextRemainder
  <2> QED
    BY <2>2, <2>3
<1> QED
  BY <1>1, PollLength

LEMMA ZeroPlace == 0 % Poll = 0
<1>1. ASSUME NEW m \in Nat, m > 0 PROVE 0 % m = 0
  <2>1. (m * 0 + 0) % m = 0
    BY <1>1, Remainder
  <2>2. m * 0 + 0 = 0
    BY <1>1
  <2> QED
    BY <2>1, <2>2
<1> QED
  BY <1>1, PollLength

(* The source waits for a poll exactly inside one, and has the responses of  *)
(* the poll it is in.                                                        *)
LEMMA InsidePoll ==
  ASSUME SourceInv
  PROVE  /\ SourcePending <=> Len(source) % Poll # 0
         /\ SourcePending => Responses = (Len(source) % Poll) - 1
<1> DEFINE n == Len(source)
           m == n % Poll
<1>1. n \in Nat /\ m \in 0..(Poll - 1) /\ 0 % Poll = 0
  <2>1. n \in Nat
    BY DEF SourceInv
  <2> HIDE DEF n
  <2> QED
    BY <2>1, Place, ZeroPlace
<1>2. SourcePending <=> m # 0
  <2>1. CASE n = 0
    <3>1. source = <<>>
      BY <2>1 DEF SourceInv
    <3> QED
      BY <1>1, <2>1, <3>1 DEF SourcePending
  <2>2. CASE n # 0
    <3>1. Last(source) = Kind(n) /\ source # <<>>
      BY <1>1, <2>2 DEF SourceInv, Last
    <3> HIDE DEF n
    <3> QED
      BY <3>1 DEF SourcePending, Kind
  <2> QED
    BY <2>1, <2>2
<1>3. ASSUME m # 0 PROVE Responses = m - 1
  <2> DEFINE first == n - m + 1
             T == {0} \cup {i \in 1..n : source[i] = "poll_prepared"}
  <2>1. PICK p \in Nat : n = Poll * p + m
    <3> HIDE DEF n
    <3> QED
      BY <1>1, Place
  <2> HIDE DEF m
  <2>2. first \in 1..n /\ first = Poll * p + 1
    BY <1>1, <1>3, <2>1, PollLength
  <2>3. first % Poll = 1
    <3>1. 1 \in 0..(Poll - 1)
      BY PollLength
    <3>2. (Poll * p + 1) % Poll = 1
      BY <3>1, PollLength, Remainder
    <3> QED
      BY <2>2, <3>2
  <2>4. ASSUME NEW i \in first + 1..n PROVE i % Poll # 1
    <3>1. i - Poll * p \in 2..m /\ i - Poll * p \in 0..(Poll - 1)
      BY <1>1, <2>1, <2>2, <2>4, PollLength
    <3>2. PICK r \in 0..(Poll - 1) : i = Poll * p + r /\ r # 1
      BY <1>1, <2>1, <2>4, <3>1, PollLength
    <3>3. (Poll * p + r) % Poll = r
      BY <3>2, PollLength, Remainder
    <3> QED
      BY <3>2, <3>3
  <2> HIDE DEF first
  <2>5. \A i \in 1..n : source[i] = "poll_prepared" <=> i % Poll = 1
    BY DEF SourceInv, Kind
  <2> HIDE DEF n
  <2>6. first \in T /\ \A i \in T : i <= first
    <3>1. ASSUME NEW i \in T PROVE i <= first
      <4>1. CASE i = 0
        BY <1>1, <2>2, <4>1
      <4>2. CASE i # 0
        <5>1. i \in 1..n /\ i % Poll = 1
          BY <2>5, <3>1, <4>2
        <5>2. i \notin first + 1..n
          BY <2>4, <5>1
        <5> QED
          BY <1>1, <2>2, <5>1, <5>2
      <4> QED
        BY <4>1, <4>2
    <3> QED
      BY <2>2, <2>3, <2>5, <3>1
  <2>7. Max(T) = first
    <3>1. T \subseteq Int
      BY <1>1
    <3>2. first \in T /\ \A y \in T : first >= y
      BY <1>1, <2>2, <2>6, <3>1
    <3>3. \A x \in T : (\A y \in T : x >= y) => x = first
      BY <3>1, <3>2
    <3> HIDE DEF T
    <3> QED
      BY <3>2, <3>3 DEF Max
  <2>8. Responses = n - Max(T)
    BY DEF Responses, n
  <2> HIDE DEF T
  <2> QED
    BY <1>1, <2>7, <2>8 DEF first
<1> QED
  BY <1>2, <1>3

(* Another event of the kind that its position asks for.                     *)
LEMMA SourceGrows ==
  ASSUME SourceInv, NEW kind \in Kinds, source' = Append(source, kind),
         kind = Kind(Len(source) + 1)
  PROVE  /\ SourceInv' /\ Len(source') = Len(source) + 1
         /\ \A i \in 1..Len(source) : source'[i] = source[i]
<1> DEFINE s == Append(source, kind)
<1>1. /\ s \in Seq(Kinds) /\ Len(s) = Len(source) + 1 /\ s[Len(source) + 1] = kind
      /\ \A i \in 1..Len(source) : s[i] = source[i]
  BY DEF SourceInv
<1> HIDE DEF s
<1>2. \A i \in 1..Len(s) : s[i] = Kind(i)
  <2>1. Len(source) \in Nat
    BY DEF SourceInv
  <2> QED
    BY <1>1, <2>1 DEF SourceInv
<1>3. source' = s
  BY DEF s
<1> QED
  BY <1>1, <1>2, <1>3 DEF SourceInv, Kind, Poll

LEMMA SourceKept ==
  ASSUME SourceInv, PollPrepared \/ PollComplete \/ \E limited \in BOOLEAN : SourceResponse(limited)
  PROVE  SourceInv' /\ Len(source') = Len(source) + 1
<1> DEFINE n == Len(source)
<1>1. /\ n \in Nat /\ n % Poll \in 0..(Poll - 1)
      /\ (n + 1) % Poll = IF n % Poll = Poll - 1 THEN 0 ELSE (n % Poll) + 1
  <2>1. n \in Nat
    BY DEF SourceInv
  <2> HIDE DEF n
  <2> QED
    BY <2>1, Place
<1>2. Poll = Pairs + 2 /\ Pairs \in Nat /\ Pairs > 0
  BY DeliveryAssumption DEF Poll
<1>3. CASE PollPrepared
  <2>1. n % Poll = 0 /\ source' = Append(source, "poll_prepared")
    BY <1>3, InsidePoll DEF PollPrepared
  <2>2. Kind(n + 1) = "poll_prepared"
    BY <1>1, <1>2, <2>1 DEF Kind
  <2> QED
    BY <2>1, <2>2, SourceGrows DEF Kinds
<1>4. CASE PollComplete
  <2>1. n % Poll # 0 /\ (n % Poll) - 1 = Pairs /\ source' = Append(source, "poll_complete")
    BY <1>4, InsidePoll DEF PollComplete
  <2>2. Kind(n + 1) = "poll_complete"
    BY <1>1, <1>2, <2>1 DEF Kind
  <2> QED
    BY <2>1, <2>2, SourceGrows DEF Kinds
<1>5. CASE \E limited \in BOOLEAN : SourceResponse(limited)
  <2>1. n % Poll # 0 /\ (n % Poll) - 1 < Pairs /\ source' = Append(source, "source_response")
    BY <1>5, InsidePoll DEF SourceResponse
  <2>2. Kind(n + 1) = "source_response"
    BY <1>1, <1>2, <2>1 DEF Kind
  <2> QED
    BY <2>1, <2>2, SourceGrows DEF Kinds
<1> QED
  BY <1>3, <1>4, <1>5

(* A batch is added up to the end of the last poll that fits.                *)
LEMMA IngestKeeps ==
  ASSUME SourceInv, QueueInv, Ingest, source' = source
  PROVE  QueueInv'
<1> DEFINE m == Max(WholePolls)
           e == retained + m
           b == [from |-> retained + 1, to |-> e, attested |-> Len(source)]
<1>1. m \in WholePolls
  <2>1. WholePolls \in SUBSET Int /\ WholePolls # {} /\ IsFiniteSet(WholePolls)
    <3>1. IsFiniteSet(1..BatchEvents) /\ WholePolls \subseteq 1..BatchEvents
      <4>1. IsFiniteSet(1..BatchEvents)
        BY DeliveryAssumption, FS_Interval
      <4>2. WholePolls \subseteq 1..BatchEvents
        BY DEF WholePolls
      <4>3. QED
        BY <4>1, <4>2
    <3>2. IsFiniteSet(WholePolls)
      BY <3>1, FS_Subset
    <3>3. WholePolls \subseteq Int
      BY <3>1, DeliveryAssumption
    <3> QED
      BY <3>2, <3>3 DEF Ingest
  <2> QED
    BY <2>1, FiniteMax
<1>2. retained \in Nat /\ Len(source) \in Nat /\ retained <= Len(source)
  BY DEF QueueInv, SourceInv
<1>3. /\ e \in Nat /\ e > retained /\ e <= Len(source) /\ source[e] = "poll_complete"
  <2> HIDE DEF m
  <2> QED
    BY <1>1, <1>2, DeliveryAssumption DEF WholePolls
<1>4. retained' = e /\ batches' = Append(batches, b)
  BY DEF Ingest
<1> HIDE DEF e
<1>5. e % Poll = 0
  BY <1>2, <1>3 DEF SourceInv, Kind
<1>6. b \in Batch /\ b.from = retained + 1 /\ b.to = e
  BY <1>2, <1>3 DEF Batch
<1> HIDE DEF b
<1>7. /\ batches' \in Seq(Batch) /\ Len(batches') = Len(batches) + 1 /\ Len(batches) \in Nat
      /\ batches'[Len(batches) + 1] = b
      /\ \A i \in 1..Len(batches) : batches'[i] = batches[i]
  BY <1>4, <1>6 DEF QueueInv
<1>8. ASSUME NEW i \in 1..Len(batches')
      PROVE  /\ batches'[i].from = (IF i = 1 THEN 1 ELSE batches'[i - 1].to + 1)
             /\ batches'[i].from <= batches'[i].to /\ batches'[i].to <= retained'
             /\ batches'[i].to % Poll = 0
  <2>1. CASE i \in 1..Len(batches)
    <3>1. batches'[i] = batches[i] /\ (i # 1 => batches'[i - 1] = batches[i - 1])
      BY <1>7, <2>1
    <3>2. batches[i] \in Batch
      BY <2>1 DEF QueueInv
    <3>3. batches[i].to <= retained'
      <4>1. batches[i].to <= retained /\ batches[i].to \in Nat
        BY <2>1, <3>2 DEF QueueInv, Batch
      <4> QED
        BY <1>2, <1>3, <1>4, <4>1
    <3> QED
      BY <2>1, <3>1, <3>3 DEF QueueInv
  <2>2. CASE i = Len(batches) + 1
    <3>1. batches'[i] = b
      BY <1>7, <2>2
    <3>2. i = 1 => retained = 0
      BY <1>7, <2>2 DEF QueueInv
    <3>3. i # 1 => batches'[i - 1].to = retained
      BY <1>7, <2>2 DEF QueueInv
    <3> QED
      BY <1>2, <1>3, <1>4, <1>5, <1>6, <3>1, <3>2, <3>3
  <2> QED
    BY <1>7, <1>8, <2>1, <2>2
<1>9. retained' \in 0..Len(source') /\ retained' % Poll = 0
  BY <1>2, <1>3, <1>4, <1>5
<1>10. retained' = IF batches' = <<>> THEN 0 ELSE batches'[Len(batches')].to
  BY <1>4, <1>6, <1>7
<1> QED
  BY <1>7, <1>8, <1>9, <1>10 DEF QueueInv, Poll, Batch

LEMMA DeliveryInitially == Init => SourceInv /\ QueueInv
<1> SUFFICES ASSUME Init PROVE SourceInv /\ QueueInv
  OBVIOUS
<1>1. source = <<>> /\ retained = 0 /\ batches = <<>>
  BY DEF Init, ApplicationInit, DeliveryInit
<1>2. 0 % Poll = 0
  BY ZeroPlace
<1> QED
  BY <1>1, <1>2 DEF SourceInv, QueueInv

LEMMA DeliveryKept == SourceInv /\ QueueInv /\ [Next]_vars => (SourceInv /\ QueueInv)'
<1> SUFFICES ASSUME SourceInv, QueueInv, [Next]_vars PROVE SourceInv' /\ QueueInv'
  OBVIOUS
<1>1. CASE SourceStep
  <2>1. SourceInv' /\ Len(source') = Len(source) + 1 /\ Len(source) \in Nat
    BY <1>1, SourceKept DEF SourceStep, SourceInv
  <2>2. UNCHANGED <<retained, batches>>
    BY <1>1 DEF SourceStep, queueVars
  <2>3. retained' \in 0..Len(source')
    BY <2>1, <2>2 DEF QueueInv
  <2> QED
    BY <2>1, <2>2, <2>3 DEF QueueInv, Poll, Batch
<1>2. CASE IngestStep
  <2>1. source' = source /\ Ingest
    BY <1>2 DEF IngestStep, sourceVars
  <2> QED
    BY <2>1, IngestKeeps DEF SourceInv, Kind, Poll
<1>3. CASE ~ (SourceStep \/ IngestStep)
  <2>1. UNCHANGED <<source, retained, batches>>
    BY <1>3 DEF Next, vars, sourceVars, queueVars, ClockStep, Apply, QueueOffers, Offer, Recover,
       ApplyStep, MakeGroup, WriteInputs, TickBegins, TickCompletes, TickRaises, WriteResult,
       AcknowledgeQueue, Acknowledge, WriteAck, WriteComplete, ApplyTooLate, ApplyReturns,
       DiesInApply, RecoveryStep, RecoverAcknowledges, RecoverWritesAck, RecoverCompletes,
       RecoveryDies
  <2> QED
    BY <2>1 DEF SourceInv, QueueInv, Kind, Poll, Batch
<1> QED
  BY <1>1, <1>2, <1>3

(* A batch that the queue offers holds whole polls with all their responses, *)
(* and the batches follow one another without a gap, whatever the budget of  *)
(* a batch and however far the ledger has grown or stopped                   *)
(* (reference_delivery.py:333-344).                                          *)
THEOREM BatchesWholeHold == Spec => []BatchesWhole
<1>1. SourceInv /\ QueueInv => BatchesWhole
  <2> SUFFICES ASSUME SourceInv, QueueInv, NEW b \in 1..Len(batches)
               PROVE  /\ batches[b].from = (IF b = 1 THEN 1 ELSE batches[b - 1].to + 1)
                      /\ source[batches[b].from] = "poll_prepared"
                      /\ source[batches[b].to] = "poll_complete"
                      /\ (batches[b].to - batches[b].from + 1) % Poll = 0
    BY DEF BatchesWhole, Poll
  <2> DEFINE start == IF b = 1 THEN 0 ELSE batches[b - 1].to
             end == batches[b].to
  <2>1. /\ batches[b].from = start + 1 /\ start \in Nat /\ end \in Nat
        /\ start + 1 <= end /\ end <= Len(source) /\ Len(source) \in Nat
    <3>1. batches[b] \in Batch /\ (b # 1 => batches[b - 1] \in Batch)
      BY DEF QueueInv
    <3>2. end <= retained /\ retained \in 0..Len(source) /\ Len(source) \in Nat
      BY DEF QueueInv, SourceInv
    <3>3. batches[b].from = start + 1 /\ batches[b].from <= end
      BY DEF QueueInv
    <3>4. start \in Nat /\ end \in Nat
      BY <3>1 DEF Batch
    <3> HIDE DEF start, end
    <3> QED
      BY <3>2, <3>3, <3>4
  <2>2. end % Poll = 0 /\ start % Poll = 0
    BY ZeroPlace DEF QueueInv
  <2> HIDE DEF start, end
  <2>3. (start + 1) % Poll = 1
    BY <2>1, <2>2, Place, PollLength
  <2>4. source[start + 1] = "poll_prepared" /\ source[end] = "poll_complete"
    BY <2>1, <2>2, <2>3 DEF SourceInv, Kind
  <2>5. (end - start) % Poll = 0
    <3>1. start <= end
      BY <2>1
    <3>2. ASSUME NEW m \in Nat, m > 0, end % m = 0, start % m = 0 PROVE (end - start) % m = 0
      BY <2>1, <3>1, <3>2, MultiplesApart
    <3> QED
      BY <2>2, <3>2, PollLength
  <2>6. end - (start + 1) + 1 = end - start
    BY <2>1
  <2>7. start + 1 = batches[b].from /\ end = batches[b].to
    BY <2>1 DEF end
  <2>8. (end - (start + 1) + 1) % Poll = 0
    BY <2>5, <2>6
  <2>9. batches[b].from = (IF b = 1 THEN 1 ELSE batches[b - 1].to + 1)
    BY DEF QueueInv
  <2> QED
    BY <2>4, <2>7, <2>8, <2>9
<1> QED
  BY <1>1, DeliveryInitially, DeliveryKept, PTL DEF Spec

-----------------------------------------------------------------------------
(* The promise to each role. *)

TicksOf(t) == {i \in 1..Len(t) : t[i] # 0}

(* The executed deliveries are the acknowledged ones, and the one that the   *)
(* tick after the checkpoint may have executed.                              *)
LEMMA ExecutedCount ==
  ASSUME NEW t \in Seq(Nat), NEW a \in Seq(Nat), NEW c \in Nat, NEW p \in Nat, NEW k \in Nat,
         Applied(t, a, c, p, k)
  PROVE  /\ IsFiniteSet(TicksOf(t))
         /\ Cardinality(TicksOf(t)) = IF Len(t) = k + 1 /\ t[Len(t)] > c THEN c + 1 ELSE c
<1> DEFINE E == TicksOf(t)
           n == IF Len(t) = k + 1 /\ t[Len(t)] > c THEN c + 1 ELSE c
           f == [i \in E |-> t[i]]
<1>1. /\ Len(t) \in {k, k + 1} /\ Receipts(t, a, c) /\ Consecutive(t)
      /\ \A i \in 1..k : t[i] <= c
  BY DEF Applied
<1>2. \A i \in 1..Len(t) : t[i] \in Nat
  OBVIOUS
<1>3. ASSUME NEW i \in E PROVE t[i] \in 1..n
  <2>1. i \in 1..Len(t) /\ t[i] # 0 /\ t[i] \in Nat
    BY <1>2 DEF TicksOf
  <2>2. CASE i \in 1..k
    BY <1>1, <2>1, <2>2
  <2>3. CASE i \notin 1..k
    <3>1. i = k + 1 /\ Len(t) = k + 1
      BY <1>1, <2>1, <2>3
    <3>2. CASE t[i] <= c
      BY <2>1, <3>2
    <3>3. CASE t[i] > c
      <4>1. t[i] - 1 <= c
        <5>1. CASE t[i] = 1
          BY <5>1
        <5>2. CASE t[i] # 1
          <6>1. t[i] - 1 \in 1..t[i] - 1
            BY <2>1, <5>2
          <6>2. PICK j \in 1..i - 1 : t[j] = t[i] - 1
            BY <1>1, <2>1, <6>1 DEF Consecutive
          <6>3. j \in 1..k
            BY <3>1
          <6> QED
            BY <1>1, <6>2, <6>3
        <5> QED
          BY <5>1, <5>2
      <4>2. n = c + 1
        BY <3>1, <3>3
      <4> HIDE DEF n
      <4> QED
        BY <2>1, <4>1, <4>2
    <3> QED
      BY <2>1, <3>2, <3>3
  <2> QED
    BY <2>2, <2>3
<1>4. ASSUME NEW i \in E, NEW j \in E, t[i] = t[j] PROVE i = j
  <2>1. i \in 1..Len(t) /\ j \in 1..Len(t) /\ t[i] # 0
    BY DEF TicksOf
  <2>2. ~ (i < j) /\ ~ (j < i)
    BY <1>1, <1>2, <1>4, <2>1 DEF Consecutive
  <2> QED
    BY <2>1, <2>2
<1>5. ASSUME NEW d \in 1..n PROVE \E i \in E : t[i] = d
  <2>1. CASE d <= c
    <3>1. d \in 1..c
      BY <2>1
    <3>2. a[d] \in 1..Len(t) /\ t[a[d]] = d
      BY <1>1, <3>1 DEF Receipts
    <3>3. a[d] \in E
      BY <3>1, <3>2 DEF TicksOf
    <3> QED
      BY <3>2, <3>3
  <2>2. CASE ~ (d <= c)
    <3>1. Len(t) = k + 1 /\ t[Len(t)] > c /\ d = c + 1
      BY <2>2
    <3>2. Len(t) \in E /\ t[Len(t)] \in Nat
      BY <1>2, <3>1 DEF TicksOf
    <3>3. t[Len(t)] \in 1..n /\ n = c + 1
      BY <1>3, <3>1, <3>2
    <3>4. t[Len(t)] = c + 1
      <4> HIDE DEF n
      <4> QED
        BY <3>1, <3>2, <3>3
    <3> QED
      BY <3>1, <3>2, <3>4
  <2> QED
    BY <2>1, <2>2
<1>6. f \in Bijection(E, 1..n)
  <2> HIDE DEF E, n
  <2>1. f \in [E -> 1..n]
    BY <1>3
  <2>2. \A i, j \in E : f[i] = f[j] => i = j
    BY <1>4
  <2>3. \A d \in 1..n : \E i \in E : f[i] = d
    BY <1>5
  <2> HIDE DEF f
  <2> QED
    BY <2>1, <2>2, <2>3 DEF Bijection, Injection, Surjection, IsInjective
<1>7. n \in Nat
  OBVIOUS
<1> HIDE DEF E, n, f
<1>8. IsFiniteSet(1..n) /\ Cardinality(1..n) = n
  BY <1>7, FS_Interval
<1>9. ExistsBijection(1..n, E)
  BY <1>6, Fun_ExistsBijSymmetric DEF ExistsBijection
<1>10. IsFiniteSet(E) /\ Cardinality(E) = n
  BY <1>8, <1>9, FS_Bijection
<1> QED
  BY <1>10 DEF E, n

(* What the process applies is in the queue.                                 *)
OfferedInv ==
    proc.step \in {"offered"} \cup OpenSteps => proc.delivery <= Len(batches)

LEMMA QueueGrows ==
  ASSUME QueueInv, [Next]_vars
  PROVE  /\ UNCHANGED batches \/ IngestStep
         /\ IngestStep => Len(batches') = Len(batches) + 1
         /\ Len(batches) \in Nat /\ Len(batches') \in Nat /\ Len(batches) <= Len(batches')
<1>1. UNCHANGED batches \/ IngestStep
  BY DEF Next, vars, queueVars, SourceStep, ClockStep, Apply, QueueOffers, Offer, Recover,
     ApplyStep, MakeGroup, WriteInputs, TickBegins, TickCompletes, TickRaises, WriteResult,
     AcknowledgeQueue, Acknowledge, WriteAck, WriteComplete, ApplyTooLate, ApplyReturns,
     DiesInApply, RecoveryStep, RecoverAcknowledges, RecoverWritesAck, RecoverCompletes,
     RecoveryDies
<1>2. Len(batches) \in Nat
  BY DEF QueueInv
<1>3. IngestStep => Len(batches') = Len(batches) + 1
  <2> SUFFICES ASSUME IngestStep PROVE Len(batches') = Len(batches) + 1
    OBVIOUS
  <2>1. PICK b : batches' = Append(batches, b)
    BY DEF IngestStep, Ingest
  <2> QED
    BY <2>1 DEF QueueInv
<1> QED
  BY <1>1, <1>2, <1>3

LEMMA OfferedKept ==
  ASSUME CashTypeOK, QueueInv, OfferedInv, [Next]_vars
  PROVE  OfferedInv'
<1> DEFINE Applies == {"offered"} \cup OpenSteps
<1>1. Len(batches) \in Nat /\ Len(batches') \in Nat /\ Len(batches) <= Len(batches')
  BY QueueGrows
<1>2. ASSUME NEW r \in Roles, Apply(r) PROVE proc'.delivery <= Len(batches')
  <2>1. proc'.delivery = NextDelivery(r) /\ UNCHANGED batches
    BY <1>2 DEF Apply, QueueOffers, Offer
  <2> QED
    BY <1>1, <2>1 DEF NextDelivery
<1>3. ASSUME proc'.step \in Applies, \A r \in Roles : ~ Apply(r)
      PROVE  proc.step \in Applies /\ proc'.delivery = proc.delivery
  <2>0. \A s : Goto(s) => proc'.step = s /\ proc'.delivery = proc.delivery
    BY DEF CashTypeOK, Goto
  <2>1. CASE UNCHANGED proc
    BY <1>3, <2>1
  <2>2. CASE MakeGroup(known[Me] + 1) \/ WriteInputs \/ TickBegins
    BY <2>0, <2>2 DEF MakeGroup, WriteInputs, TickBegins, At, OpenSteps
  <2>3. CASE proc' = Idle
    BY <1>3, <2>3 DEF Idle, OpenSteps
  <2>4. CASE \E s \in TickedSteps : Goto(s)
    BY <1>3, <2>0, <2>4 DEF TickedSteps, LaterSteps, OpenSteps
  <2>5. CASE \E r \in Roles : Recover(r)
    <3>1. proc'.step = "recovering"
      BY <2>5 DEF Recover
    <3> QED
      BY <1>3, <3>1 DEF OpenSteps
  <2>6. CASE TickCompletes \/ WriteResult \/ AcknowledgeQueue \/ WriteAck \/ WriteComplete
    BY <2>4, <2>6 DEF TickCompletes, WriteResult, AcknowledgeQueue, WriteAck, WriteComplete,
       TickedSteps, LaterSteps
  <2>7. CASE RecoverAcknowledges \/ RecoverWritesAck \/ RecoverCompletes
    BY <2>4, <2>7 DEF RecoverAcknowledges, RecoverWritesAck, RecoverCompletes, TickedSteps, LaterSteps
  <2>8. CASE TickRaises(Idle) \/ ApplyTooLate \/ ApplyReturns \/ DiesInApply(Idle) \/ RecoveryDies
    BY <2>3, <2>8 DEF TickRaises, ApplyTooLate, ApplyReturns, DiesInApply, RecoveryDies
  <2> QED
    BY <1>3, <2>1, <2>2, <2>5, <2>6, <2>7, <2>8
       DEF Next, vars, SourceStep, IngestStep, ClockStep, ApplyStep, RecoveryStep
<1>4. proc.delivery \in Nat
  BY DEF CashTypeOK
<1> QED
  BY <1>1, <1>2, <1>3, <1>4 DEF OfferedInv

(* Only a tick that completes executes, only an acknowledgement confirms.    *)
LEMMA CountFrame ==
  ASSUME IInv, [Next]_vars
  PROVE  \/ UNCHANGED cursor /\ \A r \in Roles : worker'[r].ticks = worker[r].ticks
         \/ /\ At("ticking") /\ UNCHANGED <<cursor, batches>>
            /\ \E state \in {"idle", "prepared", "terminated"} :
                 worker' = [worker EXCEPT ![Me].ticks = Ticked, ![Me].state = state]
         \/ /\ proc.step \in {"result", "recovering"} /\ UNCHANGED <<worker, batches>>
            /\ Acknowledge(Me, proc.delivery, Current.seq)
<1> DEFINE Still == UNCHANGED cursor /\ \A r \in Roles : worker'[r].ticks = worker[r].ticks
           Ticks == /\ At("ticking") /\ UNCHANGED <<cursor, batches>>
                    /\ \E state \in {"idle", "prepared", "terminated"} :
                         worker' = [worker EXCEPT ![Me].ticks = Ticked, ![Me].state = state]
           Acks == /\ proc.step \in {"result", "recovering"} /\ UNCHANGED <<worker, batches>>
                   /\ Acknowledge(Me, proc.delivery, Current.seq)
<1>0. worker \in [Roles -> Worker]
  BY DEF IInv, CashTypeOK, DataTypeOK
<1>1. CASE TickBegins
  <2>1. worker' = [worker EXCEPT ![Me].state = "prepared", ![Me].slot = now] /\ UNCHANGED cursor
    BY <1>1 DEF TickBegins, queueVars
  <2> QED
    BY <1>0, <2>1 DEF Worker
<1>2. CASE TickCompletes
  BY <1>2 DEF TickCompletes, queueVars
<1>3. CASE TickRaises(Idle)
  <2>1. UNCHANGED <<cursor, batches>>
    BY <1>3 DEF TickRaises, queueVars
  <2>2. CASE UNCHANGED worker
    BY <2>1, <2>2
  <2>3. CASE worker' = [worker EXCEPT ![Me].state = "terminated"]
    BY <1>0, <2>1, <2>3 DEF Worker
  <2>4. CASE At("ticking") /\ worker' = [worker EXCEPT ![Me].ticks = Ticked, ![Me].state = "terminated"]
    BY <2>1, <2>4
  <2> QED
    BY <1>3, <2>2, <2>3, <2>4 DEF TickRaises
<1>4. CASE AcknowledgeQueue
  <2>1. CASE proc.delivery = 0
    BY <1>4, <2>1 DEF AcknowledgeQueue, queueVars
  <2>2. CASE proc.delivery # 0
    BY <1>4, <2>2 DEF AcknowledgeQueue, At, Acknowledge
  <2> QED
    BY <2>1, <2>2
<1>5. CASE RecoverAcknowledges
  BY <1>5 DEF RecoverAcknowledges, At, Acknowledge
<1>6. CASE ~ (TickBegins \/ TickCompletes \/ TickRaises(Idle) \/ AcknowledgeQueue \/ RecoverAcknowledges)
  <2>1. UNCHANGED <<cursor, worker>>
    BY <1>6 DEF Next, vars, queueVars, SourceStep, IngestStep, Ingest, ClockStep, Apply, QueueOffers,
       Offer, Recover,
       ApplyStep, MakeGroup, WriteInputs, WriteResult, WriteAck, WriteComplete, ApplyTooLate,
       ApplyReturns, DiesInApply, RecoveryStep, RecoverWritesAck, RecoverCompletes, RecoveryDies
  <2> QED
    BY <2>1
<1> QED
  BY <1>1, <1>2, <1>3, <1>4, <1>5, <1>6

(* What the promise counts.                                                  *)
High(t, c, k) == IF Len(t) = k + 1 /\ t[Len(t)] > c THEN c + 1 ELSE c

LEMMA Counted ==
  ASSUME IInv, NEW r \in Roles
  PROVE  /\ IsFiniteSet(Executed(r))
         /\ Cardinality(Executed(r)) = High(worker[r].ticks, cursor[r], known[r])
         /\ cursor[r] \in Nat
<1>1. /\ worker[r].ticks \in Seq(Nat) /\ acks[r] \in Seq(Nat) /\ cursor[r] \in Nat
      /\ known[r] \in Nat /\ pending[r] \in Nat
      /\ Applied(worker[r].ticks, acks[r], cursor[r], pending[r], known[r])
  BY DEF IInv, CashTypeOK, DataTypeOK, RoleOK, Worker
<1>2. Executed(r) = TicksOf(worker[r].ticks)
  BY DEF Executed, TicksOf
<1> QED
  BY <1>1, <1>2, ExecutedCount DEF High

(* A tick adds itself to what was executed, unless it is a heartbeat.        *)
LEMMA TickAdds ==
  ASSUME NEW t \in Seq(Nat), NEW d \in Nat
  PROVE  TicksOf(Append(t, d)) =
           IF d = 0 THEN TicksOf(t) ELSE TicksOf(t) \cup {Len(t) + 1}
<1> DEFINE u == Append(t, d)
<1>1. Len(u) = Len(t) + 1 /\ u[Len(t) + 1] = d /\ \A i \in 1..Len(t) : u[i] = t[i]
  OBVIOUS
<1>2. 1..Len(u) = 1..Len(t) \cup {Len(t) + 1}
  BY <1>1
<1> HIDE DEF u
<1>3. \A i : i \in TicksOf(u) <=> i \in TicksOf(t) \/ (i = Len(t) + 1 /\ d # 0)
  BY <1>1, <1>2 DEF TicksOf
<1>4. CASE d = 0
  BY <1>3, <1>4 DEF u
<1>5. CASE d # 0
  BY <1>3, <1>5 DEF u
<1> QED
  BY <1>4, <1>5

Counts == [r \in Roles |-> Cardinality(Executed(r))]

(* Every step of the pipeline is an arrival, an execution or a confirmation  *)
(* of the promise, or one it does not see.                                   *)
LEMMA PromiseStep ==
  ASSUME IInv, QueueInv, OfferedInv, [Next]_vars
  PROVE  [Promised!Next]_(Promised!vars)
<1>1. cursor \in [Roles -> Nat] /\ worker \in [Roles -> Worker]
  BY DEF IInv, CashTypeOK, DataTypeOK
<1>2. \A r \in Roles : /\ Executed(r) = TicksOf(worker[r].ticks)
                       /\ Executed(r)' = TicksOf(worker'[r].ticks)
  BY DEF Executed, TicksOf
<1>3. \A r \in Roles : worker[r].ticks \in Seq(Nat)
  BY <1>1 DEF Worker
<1>4. CASE UNCHANGED cursor /\ \A r \in Roles : worker'[r].ticks = worker[r].ticks
  <2>1. Counts' = Counts
    BY <1>2, <1>4 DEF Counts
  <2>2. CASE UNCHANGED batches
    BY <1>4, <2>1, <2>2 DEF Promised!vars, Counts
  <2>3. CASE IngestStep
    BY <1>4, <2>1, <2>3, QueueGrows DEF Promised!Next, Promised!Enqueue, Counts
  <2> QED
    BY <2>2, <2>3, QueueGrows
<1>5. CASE /\ At("ticking") /\ UNCHANGED <<cursor, batches>>
           /\ \E state \in {"idle", "prepared", "terminated"} :
                worker' = [worker EXCEPT ![Me].ticks = Ticked, ![Me].state = state]
  <2> DEFINE d == proc.delivery
             t == worker[Me].ticks
  <2>1. /\ Me \in Roles /\ Len(t) = known[Me] /\ d \in {0, cursor[Me] + 1} /\ d \in Nat
        /\ d <= Len(batches) /\ known[Me] \in Nat /\ cursor[Me] \in Nat
    BY <1>1, <1>5 DEF IInv, CashTypeOK, DataTypeOK, ProcessOK, Doing, At, OpenSteps, OfferedInv
  <2>2. /\ worker'[Me].ticks = Append(t, d)
        /\ \A r \in Roles : r # Me => worker'[r] = worker[r]
    BY <1>5, TickStep
  <2>3. Cardinality(Executed(Me)) = cursor[Me] /\ IsFiniteSet(Executed(Me))
    BY <2>1, Counted DEF High
  <2>6. PICK m \in Roles : m = Me
    BY <2>1
  <2>7. \A r \in Roles : r # m => Executed(r)' = Executed(r)
    BY <1>2, <2>2, <2>6
  <2>8. Executed(m)' = IF d = 0 THEN Executed(m) ELSE Executed(m) \cup {Len(t) + 1}
    <3>1. t \in Seq(Nat) /\ Executed(m)' = TicksOf(Append(t, d)) /\ Executed(m) = TicksOf(t)
      BY <1>2, <1>3, <2>2, <2>6
    <3> HIDE DEF t, d
    <3> QED
      BY <2>1, <3>1, TickAdds
  <2> HIDE DEF t, d
  <2>4. CASE d = 0
    <3>1. \A r \in Roles : Executed(r)' = Executed(r)
      BY <2>4, <2>7, <2>8
    <3>2. Counts' = Counts
      BY <3>1 DEF Counts
    <3> QED
      BY <1>5, <3>2 DEF Promised!vars, Counts
  <2>5. CASE d # 0
    <3>1. Executed(m)' = Executed(m) \cup {Len(t) + 1}
      BY <2>5, <2>8
    <3>2. Len(t) + 1 \notin Executed(m)
      BY <2>1, <2>6 DEF Executed, t
    <3>3. Cardinality(Executed(m)') = cursor[m] + 1
      <4>1. IsFiniteSet(Executed(m)) /\ Cardinality(Executed(m)) = cursor[m]
        BY <2>3, <2>6
      <4>2. Cardinality(Executed(m) \cup {Len(t) + 1}) = Cardinality(Executed(m)) + 1
        BY ONLY <3>2, <4>1, FS_AddElement
      <4> QED
        BY <3>1, <4>1, <4>2
    <3>5. Counts' = [Counts EXCEPT ![m] = @ + 1] /\ Counts[m] = cursor[m]
      BY <2>3, <2>6, <2>7, <3>3 DEF Counts
    <3>6. cursor[Me] < Len(batches)
      BY <2>1, <2>5, QueueGrows
    <3>7. Promised!Execute(Me)
      BY <1>5, <2>6, <3>5, <3>6 DEF Promised!Execute, Counts
    <3> QED
      BY <2>1, <3>7 DEF Promised!Next
  <2> QED
    BY <2>4, <2>5
<1>6. CASE /\ proc.step \in {"result", "recovering"} /\ UNCHANGED <<worker, batches>>
           /\ Acknowledge(Me, proc.delivery, Current.seq)
  <2>1. Counts' = Counts
    BY <1>2, <1>6 DEF Counts
  <2>2. CASE UNCHANGED cursor
    BY <1>6, <2>1, <2>2 DEF Promised!vars, Counts
  <2>3. CASE ~ UNCHANGED cursor
    <3>1. /\ proc.delivery = cursor[Me] + 1
          /\ cursor' = [cursor EXCEPT ![Me] = proc.delivery]
      BY <1>6, <2>3 DEF Acknowledge, Acknowledgeable
    <3>2. /\ Me \in Roles /\ Len(worker[Me].ticks) = known[Me] + 1 /\ known[Me] \in Nat
          /\ worker[Me].ticks[known[Me] + 1] = proc.delivery /\ cursor[Me] \in Nat
      BY <1>1, <1>6 DEF IInv, CashTypeOK, DataTypeOK, ProcessOK, Doing, TickedSteps
    <3>3. Cardinality(Executed(Me)) = cursor[Me] + 1
      BY <3>1, <3>2, Counted DEF High
    <3>4. Counts[Me] = cursor[Me] + 1
      BY <3>2, <3>3 DEF Counts
    <3>5. Promised!Confirm(Me)
      BY <1>6, <2>1, <3>1, <3>2, <3>4 DEF Promised!Confirm, Counts
    <3> QED
      BY <3>2, <3>5 DEF Promised!Next
  <2> QED
    BY <2>2, <2>3
<1> QED
  BY <1>4, <1>5, <1>6, CountFrame

(* The pipeline gives each role its deliveries one after the other, each     *)
(* executed once and acknowledged before the next is executed, whatever      *)
(* crashes, raises, is recovered or runs out of time: PromiseKept.           *)
THEOREM KeepsPromise == Spec => PromiseKept
<1>1. Init => Promised!Init
  <2> SUFFICES ASSUME Init PROVE Promised!Init
    OBVIOUS
  <2>1. /\ batches = <<>> /\ cursor = [r \in Roles |-> 0]
        /\ worker = [r \in Roles |-> [ticks |-> <<>>, state |-> "idle", slot |-> -1]]
    BY DEF Init, ApplicationInit, DeliveryInit
  <2>2. \A r \in Roles : Executed(r) = {}
    BY <2>1 DEF Executed
  <2>3. Counts = [r \in Roles |-> 0]
    BY <2>2, FS_EmptySet DEF Counts
  <2> QED
    BY <2>1, <2>3 DEF Promised!Init, Counts
<1>2. Init => OfferedInv
  BY DEF Init, ApplicationInit, Idle, OfferedInv, OpenSteps
<1>3. IInv /\ QueueInv /\ OfferedInv /\ [Next]_vars => OfferedInv'
  BY OfferedKept DEF IInv
<1>4. IInv /\ QueueInv /\ OfferedInv /\ [Next]_vars => [Promised!Next]_(Promised!vars)
  BY PromiseStep
<1> QED
  BY <1>1, <1>2, <1>3, <1>4, Inductive, DeliveryInitially, DeliveryKept, PTL
     DEF Spec, PromiseKept, Promised!Spec
=============================================================================
