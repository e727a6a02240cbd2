---------------------- MODULE ExecutionOwnershipProofs ----------------------
(* For any number of processes, keys and journals, and any faults within the *)
(* model: at most one process can pass assert_held, the account keeps one    *)
(* ledger, and, as long as the lock files stay, each key keeps one journal.  *)
(* The second half shows the same while journals are migrated, that owners   *)
(* follow their backup, and that a killed apply can be repeated.             *)
EXTENDS AccountMigration, TLAPS

Taken == {"bind", "link", "create", "register", "record", "publish", "sidecar", "confirm",
          "active", "prepared", "sending"}
Registered == {"record", "publish", "sidecar", "confirm", "active", "prepared", "sending"}
Confirmed == {"active", "prepared", "sending"}

\* The steps of an apply that has chosen a record and not published it as owner.
Undecided == {"intent", "putIntent", "owner", "putOwner"}

\* Each process knows its mode, key and journal from Start on.
JobInv ==
    \A p \in Procs :
        /\ proc[p].pc # "idle" => proc[p].cred \in Creds /\ proc[p].journal \in Journals
        /\ proc[p].pc \in Steps \ {"idle"} => proc[p].mode \in Modes
        /\ proc[p].pc \notin Steps => proc[p].mode = "migrate"
        /\ proc[p].pc = "idle" => proc[p].mode = None
        /\ proc[p].pc \in {"uid", "inspect", "record", "publish", "sidecar", "confirm"}
             => proc[p].mode = "account"

\* The UID lock: one holder per inode, held from the inspection on.
UidInv ==
    /\ \A p, q \in Procs : proc[p].uid /\ proc[q].uid /\ proc[p].fd = proc[q].fd => p = q
    /\ \A p \in Procs : proc[p].mode = "account" /\ proc[p].pc \notin {"idle", "uid"} => proc[p].uid

\* Inode numbers are given out once; the lock files of the start have number 1.
InodeInv ==
    /\ inodes >= 1 /\ lockFile <= inodes
    /\ \A j \in Journals : journal[j].inode <= inodes

\* A lease is the account's owner record, except while a new one is published.
LeaseInv ==
    \A p \in Procs :
        /\ proc[p].lease # None =>
             /\ proc[p].lease.cred = proc[p].cred /\ proc[p].lease.journal = proc[p].journal
             /\ proc[p].pc \notin {"publish"} \cup Undecided => acctRegistry = proc[p].lease
        /\ proc[p].mode = "account" /\ proc[p].pc \in Registered \ {"record"}
             => proc[p].lease # None

\* The file a row was written to lies between the one of the lease and the
\* present one, and is the lease's once the lease has been asserted.
RowInv ==
    \A p \in Procs : proc[p].mode = "account" =>
        /\ proc[p].pc \in Confirmed =>
             proc[p].lease.inode <= journal[proc[p].journal].inode
        /\ proc[p].pc = "prepared" =>
             /\ proc[p].lease.inode <= proc[p].row
             /\ proc[p].row <= journal[proc[p].journal].inode
        /\ proc[p].pc = "sending" => proc[p].row = proc[p].lease.inode

\* Every order sent in account mode is in the ledger of the owner record.
LedgerInv ==
    \A s \in sent : s.mode = "account" =>
        /\ acctRegistry # None
        /\ s.cred = acctRegistry.cred /\ s.journal = acctRegistry.journal
        /\ s.inode = acctRegistry.inode

\* While the lock files stay, one process holds a key, and it works on the
\* journal that the key's registry names.
KeyInv ==
    lockFile = 1 =>
        /\ \A p, q \in Procs :
             proc[p].key = 1 /\ proc[q].key = 1 /\ proc[p].cred = proc[q].cred => p = q
        /\ \A p \in Procs :
             /\ proc[p].pc \in Taken => proc[p].key = 1
             /\ proc[p].pc \in {"link", "create", "register"} =>
                  credRegistry[proc[p].cred] \in {None, proc[p].journal}
             /\ proc[p].pc \in Registered => credRegistry[proc[p].cred] = proc[p].journal
        /\ \A s \in sent : credRegistry[s.cred] = s.journal

IInv == TypeOK /\ JobInv /\ UidInv /\ InodeInv /\ LeaseInv /\ RowInv /\ LedgerInv /\ KeyInv

-----------------------------------------------------------------------------

USE LegacyAssumption, BoundAssumption, NoneAssumption
USE DEF At, Goto, files, Modes

LEMMA Initially == Init => IInv
<1> SUFFICES ASSUME Init PROVE IInv
  OBVIOUS
<1> USE DEF Init
<1>1. TypeOK
  BY DEF TypeOK, Processes, Steps, ToolSteps, Sights, Idle, NoSight, Missing
<1>2. JobInv /\ UidInv /\ InodeInv
  BY DEF JobInv, UidInv, InodeInv, Steps, Idle, Missing
<1>3. LeaseInv /\ RowInv /\ LedgerInv /\ KeyInv
  BY DEF LeaseInv, RowInv, LedgerInv, KeyInv, Idle, Registered, Confirmed, Taken
<1> QED
  BY <1>1, <1>2, <1>3 DEF IInv

(* Going to another step keeps the process a process.                       *)
LEMMA Moved ==
  ASSUME TypeOK, NEW p \in Procs, NEW step \in Steps \cup ToolSteps, Goto(p, step)
  PROVE  proc' \in [Procs -> Processes]
<1>1. DEFINE moved == [proc[p] EXCEPT !.pc = step]
<1>2. proc[p] \in Processes
  BY DEF TypeOK
<1>3. moved \in Processes
  BY <1>2 DEF Processes
<1>4. proc' = [proc EXCEPT ![p] = moved]
  OBVIOUS
<1> HIDE DEF moved
<1> QED
  BY <1>3, <1>4 DEF TypeOK

(* So does noting the lease, or the sight of the records.                    *)
LEMMA LeaseNoted ==
  ASSUME NEW x \in Processes, NEW r \in Record
  PROVE  [x EXCEPT !.pc = "publish", !.lease = r] \in Processes
BY DEF Processes, Steps

LEMMA LocksTaken ==
  ASSUME NEW x \in Processes
  PROVE  /\ [x EXCEPT !.uid = TRUE, !.pc = "inspect"] \in Processes
         /\ \A r \in Record : [x EXCEPT !.lease = r, !.pc = "key"] \in Processes
         /\ \A n \in Nat : [x EXCEPT !.key = n, !.pc = "bind"] \in Processes
BY ZenonT(30) DEF Processes, Steps

LEMMA SightNoted ==
  ASSUME NEW x \in Processes, NEW s \in Sights
  PROVE  [x EXCEPT !.seen = s, !.pc = "active"] \in Processes
BY DEF Processes, Steps

LEMMA TypeOKStep == ASSUME IInv, [Next]_vars PROVE TypeOK'
<1> USE DEF IInv, TypeOK, Processes, Record, Sights, Steps
<1>1. ASSUME NEW p \in Procs, NEW m \in Modes, NEW c \in Creds, NEW j \in Journals,
             Start(p, m, c, j)
      PROVE  TypeOK'
  BY <1>1 DEF Start, Idle, NoSight
<1>2. ASSUME NEW p \in Procs, TakeUid(p) PROVE TypeOK'
  <2> DEFINE next == [proc[p] EXCEPT !.uid = TRUE, !.pc = "inspect"]
  <2>1. next \in Processes
    <3>1. proc[p] \in Processes
      OBVIOUS
    <3> HIDE DEF Processes
    <3> QED
      BY <3>1, LocksTaken
  <2>2. proc' = [proc EXCEPT ![p] = next] /\ UNCHANGED <<files, sent, faults>>
    BY <1>2 DEF TakeUid
  <2> HIDE DEF next
  <2> QED
    BY <2>1, <2>2
<1>3. ASSUME NEW p \in Procs, InspectKnown(p) PROVE TypeOK'
  <2> DEFINE next == [proc[p] EXCEPT !.lease = acctRegistry, !.pc = "key"]
  <2>1. next \in Processes
    <3>1. proc[p] \in Processes
      OBVIOUS
    <3>2. acctRegistry \in Record
      BY <1>3 DEF InspectKnown
    <3> HIDE DEF Processes
    <3> QED
      BY <3>1, <3>2, LocksTaken
  <2>2. proc' = [proc EXCEPT ![p] = next] /\ UNCHANGED <<files, sent, faults>>
    BY <1>3 DEF InspectKnown
  <2> HIDE DEF next
  <2> QED
    BY <2>1, <2>2
<1>4. ASSUME NEW p \in Procs, InspectFresh(p) PROVE TypeOK'
  <2>1. Goto(p, "key")
    BY <1>4 DEF InspectFresh
  <2>2. proc' \in [Procs -> Processes]
    BY <2>1, Moved DEF Steps
  <2> QED
    BY <1>4, <2>2 DEF InspectFresh, Exists
<1>5. ASSUME NEW p \in Procs, TakeKey(p) PROVE TypeOK'
  <2> DEFINE next == [proc[p] EXCEPT !.key = lockFile, !.pc = "bind"]
  <2>1. next \in Processes
    <3>1. proc[p] \in Processes
      OBVIOUS
    <3> HIDE DEF Processes
    <3> QED
      BY <3>1, LocksTaken
  <2>2. proc' = [proc EXCEPT ![p] = next] /\ UNCHANGED <<files, sent, faults>>
    BY <1>5 DEF TakeKey
  <2> HIDE DEF next
  <2> QED
    BY <2>1, <2>2
<1>6. ASSUME NEW p \in Procs, CheckBinding(p) PROVE TypeOK'
  <2>1. \E step \in {"create", "link"} : Goto(p, step)
    BY <1>6 DEF CheckBinding
  <2>2. proc' \in [Procs -> Processes]
    BY <2>1, Moved DEF Steps
  <2> QED
    BY <1>6, <2>2 DEF CheckBinding, RegistryAdmits, Exists
<1>7. ASSUME NEW p \in Procs, LinkBinding(p) PROVE TypeOK'
  <2>1. Goto(p, "create")
    BY <1>7 DEF LinkBinding
  <2>2. proc' \in [Procs -> Processes]
    BY <2>1, Moved DEF Steps
  <2> QED
    BY <1>7, <2>2, ZenonT(30) DEF LinkBinding
<1>8. ASSUME NEW p \in Procs, CreateJournal(p) PROVE TypeOK'
  <2>1. proc' \in [Procs -> Processes]
    BY <1>8, Moved DEF CreateJournal, Steps
  <2>2. Created(proc[p].journal) \in [inode : Nat, rows : 0..MaxRows, contexts : BOOLEAN]
    <3>1. proc[p].journal \in Journals
      BY <1>8 DEF CreateJournal, JobInv
    <3>2. journal[proc[p].journal] \in [inode : Nat, rows : 0..MaxRows, contexts : BOOLEAN]
      BY <3>1
    <3>3. [journal[proc[p].journal] EXCEPT !.contexts = TRUE]
            \in [inode : Nat, rows : 0..MaxRows, contexts : BOOLEAN]
      BY <3>2
    <3>4. NewJournal \in [inode : Nat, rows : 0..MaxRows, contexts : BOOLEAN]
      BY DEF NewJournal
    <3> QED
      BY <3>3, <3>4 DEF Created
  <2>3. journal' \in [Journals -> [inode : Nat, rows : 0..MaxRows, contexts : BOOLEAN]]
    BY <1>8, <2>2 DEF CreateJournal
  <2>4. inodes' \in Nat
    BY <1>8, <2>3 DEF CreateJournal, JobInv
  <2> QED
    BY <1>8, <2>1, <2>3, <2>4 DEF CreateJournal
<1>9. ASSUME NEW p \in Procs, Register(p) PROVE TypeOK'
  <2>1. \E step \in {"active", "confirm", "record"} : Goto(p, step)
    BY <1>9 DEF Register
  <2>2. proc' \in [Procs -> Processes]
    BY <2>1, Moved DEF Steps
  <2> QED
    BY <1>9, <2>2 DEF Register
<1>10. ASSUME NEW p \in Procs, NewRecord(p) PROVE TypeOK'
  <2> DEFINE r == [cred |-> proc[p].cred, journal |-> proc[p].journal,
                  inode |-> journal[proc[p].journal].inode, proof |-> 0]
             next == [proc[p] EXCEPT !.pc = "publish", !.lease = r]
  <2>1. proc[p].cred \in Creds /\ proc[p].journal \in Journals
    BY <1>10 DEF NewRecord, JobInv
  <2>2. journal[proc[p].journal].inode \in Nat
    BY <2>1
  <2>3. r \in Record
    BY <2>1, <2>2
  <2>4. proc' = [proc EXCEPT ![p] = next]
    BY <1>10 DEF NewRecord
  <2> HIDE DEF r
  <2>5. next \in Processes
    <3>1. proc[p] \in Processes
      OBVIOUS
    <3> HIDE DEF Processes, Record
    <3> QED
      BY <2>3, <3>1, LeaseNoted
  <2> HIDE DEF next
  <2>6. proc' \in [Procs -> Processes]
    BY <2>4, <2>5
  <2>7. UNCHANGED <<files, sent, faults>>
    BY <1>10 DEF NewRecord
  <2> QED
    BY <2>6, <2>7
<1>11. ASSUME NEW p \in Procs, PublishRegistry(p) PROVE TypeOK'
  <2>1. Goto(p, "sidecar")
    BY <1>11 DEF PublishRegistry
  <2>2. proc' \in [Procs -> Processes]
    BY <2>1, Moved DEF Steps
  <2> QED
    BY <1>11, <2>2 DEF PublishRegistry
<1>12. ASSUME NEW p \in Procs, PublishBinding(p) PROVE TypeOK'
  <2>1. Goto(p, "confirm")
    BY <1>12 DEF PublishBinding
  <2>2. proc' \in [Procs -> Processes]
    BY <2>1, Moved DEF Steps
  <2> QED
    BY <1>12, <2>2, ZenonT(30) DEF PublishBinding
<1>13. ASSUME NEW p \in Procs, Confirm(p) PROVE TypeOK'
  <2> DEFINE next == [proc[p] EXCEPT !.seen = Sight(proc[p].journal), !.pc = "active"]
  <2>1. Sight(proc[p].journal) \in Sights
    <3>1. proc[p].journal \in Journals
      BY <1>13 DEF Confirm, JobInv
    <3> QED
      BY <3>1 DEF Sight
  <2>2. next \in Processes
    <3>1. proc[p] \in Processes
      OBVIOUS
    <3> HIDE DEF Processes, Sights
    <3> QED
      BY <2>1, <3>1, SightNoted
  <2>3. proc' = [proc EXCEPT ![p] = next]
    BY <1>13 DEF Confirm
  <2> HIDE DEF next
  <2> QED
    BY <1>13, <2>2, <2>3 DEF Confirm
<1>14. ASSUME NEW p \in Procs, Prepare(p) PROVE TypeOK'
  BY <1>14, SMTT(20) DEF Prepare, Exists
<1>15. ASSUME NEW p \in Procs, AssertHeld(p) PROVE TypeOK'
  <2>1. \E step \in {"sending", "active"} : Goto(p, step)
    BY <1>15 DEF AssertHeld
  <2>2. proc' \in [Procs -> Processes]
    BY <2>1, Moved DEF Steps
  <2> QED
    BY <1>15, <2>2 DEF AssertHeld, Held, SameLock, SameJournal
<1>16. ASSUME NEW p \in Procs, Send(p) PROVE TypeOK'
  <2>1. proc' \in [Procs -> Processes]
    BY <1>16, Moved DEF Send, Steps
  <2>2. [mode |-> proc[p].mode, cred |-> proc[p].cred, journal |-> proc[p].journal,
         inode |-> proc[p].row] \in [mode : Modes, cred : Creds, journal : Journals, inode : Nat]
    BY <1>16 DEF Send, JobInv
  <2> QED
    BY <1>16, <2>1, <2>2 DEF Send
<1>17. ASSUME NEW p \in Procs, End(p) PROVE TypeOK'
  BY <1>17 DEF End, Idle, NoSight
<1>18. ASSUME ReplaceLocks PROVE TypeOK'
  BY <1>18 DEF ReplaceLocks, Fault
<1>19. ASSUME NEW j \in Journals, ReplaceJournal(j) PROVE TypeOK'
  BY <1>19 DEF ReplaceJournal, Fault, Exists
<1>20. ASSUME NEW j \in Journals, LoseJournal(j) PROVE TypeOK'
  BY <1>20 DEF LoseJournal, Fault, Missing, Exists
<1>21. ASSUME NEW j \in Journals, LoseSidecar(j) PROVE TypeOK'
  <2>1. CASE /\ credBinding[j] # None /\ credBinding' = [credBinding EXCEPT ![j] = None]
             /\ UNCHANGED acctBinding
    BY <1>21, <2>1 DEF LoseSidecar, Fault
  <2>2. CASE /\ acctBinding[j] # None /\ acctBinding' = [acctBinding EXCEPT ![j] = None]
             /\ UNCHANGED credBinding
    BY <1>21, <2>2 DEF LoseSidecar, Fault
  <2> QED
    BY <1>21, <2>1, <2>2 DEF LoseSidecar
<1>22. ASSUME UNCHANGED vars PROVE TypeOK'
  BY <1>22 DEF vars
<1> QED
  BY <1>1, <1>2, <1>3, <1>4, <1>5, <1>6, <1>7, <1>8, <1>9, <1>10, <1>11, <1>12, <1>13,
     <1>14, <1>15, <1>16, <1>17, <1>18, <1>19, <1>20, <1>21, <1>22, SMTT(20)
     DEF Next, Lease, Outside

LEMMA JobInvStep == ASSUME IInv, [Next]_vars PROVE JobInv'
<1> USE DEF IInv, JobInv, Steps, TypeOK, Processes, JobInv
<1>1. ASSUME NEW p \in Procs, NEW m \in Modes, NEW c \in Creds, NEW j \in Journals,
             Start(p, m, c, j)
      PROVE  JobInv'
  BY <1>1 DEF Start, Idle, NoSight
<1>2. ASSUME NEW p \in Procs, TakeUid(p) PROVE JobInv'
  BY <1>2 DEF TakeUid, UidFree
<1>3. ASSUME NEW p \in Procs, InspectKnown(p) PROVE JobInv'
  BY <1>3 DEF InspectKnown, ValidRecord, Exists
<1>4. ASSUME NEW p \in Procs, InspectFresh(p) PROVE JobInv'
  BY <1>4 DEF InspectFresh, Exists
<1>5. ASSUME NEW p \in Procs, TakeKey(p) PROVE JobInv'
  BY <1>5 DEF TakeKey, KeyFree
<1>6. ASSUME NEW p \in Procs, CheckBinding(p) PROVE JobInv'
  <2>1. CASE Goto(p, "create")
    BY <1>6, <2>1 DEF CheckBinding, RegistryAdmits, Exists
  <2>2. CASE Goto(p, "link")
    BY <1>6, <2>2 DEF CheckBinding, RegistryAdmits, Exists
  <2> QED
    BY <1>6, <2>1, <2>2 DEF CheckBinding
<1>7. ASSUME NEW p \in Procs, LinkBinding(p) PROVE JobInv'
  BY <1>7 DEF LinkBinding
<1>8. ASSUME NEW p \in Procs, CreateJournal(p) PROVE JobInv'
  BY <1>8 DEF CreateJournal, Created, NewJournal, Exists
<1>9. ASSUME NEW p \in Procs, Register(p) PROVE JobInv'
  <2>1. CASE proc[p].mode = "credential" /\ Goto(p, "active")
    BY <1>9, <2>1 DEF Register
  <2>2. CASE proc[p].mode = "account" /\ proc[p].lease # None /\ Goto(p, "confirm")
    BY <1>9, <2>2 DEF Register
  <2>3. CASE proc[p].mode = "account" /\ proc[p].lease = None /\ Goto(p, "record")
    BY <1>9, <2>3 DEF Register
  <2> QED
    BY <1>9, <2>1, <2>2, <2>3 DEF Register
<1>10. ASSUME NEW p \in Procs, NewRecord(p) PROVE JobInv'
  BY <1>10 DEF NewRecord, Exists
<1>11. ASSUME NEW p \in Procs, PublishRegistry(p) PROVE JobInv'
  BY <1>11 DEF PublishRegistry
<1>12. ASSUME NEW p \in Procs, PublishBinding(p) PROVE JobInv'
  BY <1>12 DEF PublishBinding
<1>13. ASSUME NEW p \in Procs, Confirm(p) PROVE JobInv'
  BY <1>13, SMTT(20) DEF Confirm, Sight, Readable, SameLock, SameJournal
<1>14. ASSUME NEW p \in Procs, Prepare(p) PROVE JobInv'
  BY <1>14, SMTT(20) DEF Prepare, Exists
<1>15. ASSUME NEW p \in Procs, AssertHeld(p) PROVE JobInv'
  <2>1. CASE (proc[p].mode = "account" => Held(p)) /\ Goto(p, "sending")
    BY <1>15, <2>1 DEF AssertHeld, Held, SameLock, SameJournal
  <2>2. CASE Goto(p, "active")
    BY <1>15, <2>2 DEF AssertHeld, Held, SameLock, SameJournal
  <2> QED
    BY <1>15, <2>1, <2>2 DEF AssertHeld
<1>16. ASSUME NEW p \in Procs, Send(p) PROVE JobInv'
  BY <1>16 DEF Send
<1>17. ASSUME NEW p \in Procs, End(p) PROVE JobInv'
  BY <1>17 DEF End, Idle, NoSight
<1>18. ASSUME ReplaceLocks PROVE JobInv'
  BY <1>18 DEF ReplaceLocks, Fault
<1>19. ASSUME NEW j \in Journals, ReplaceJournal(j) PROVE JobInv'
  BY <1>19 DEF ReplaceJournal, Fault, Exists
<1>20. ASSUME NEW j \in Journals, LoseJournal(j) PROVE JobInv'
  BY <1>20 DEF LoseJournal, Fault, Missing, Exists
<1>21. ASSUME NEW j \in Journals, LoseSidecar(j) PROVE JobInv'
  BY <1>21 DEF LoseSidecar, Fault
<1>22. ASSUME UNCHANGED vars PROVE JobInv'
  BY <1>22 DEF vars
<1> QED
  BY <1>1, <1>2, <1>3, <1>4, <1>5, <1>6, <1>7, <1>8, <1>9, <1>10, <1>11, <1>12, <1>13,
     <1>14, <1>15, <1>16, <1>17, <1>18, <1>19, <1>20, <1>21, <1>22
     DEF Next, Lease, Outside

LEMMA UidInvStep == ASSUME IInv, [Next]_vars PROVE UidInv'
<1> USE DEF IInv, UidInv, TypeOK, Processes, JobInv
<1>1. ASSUME NEW p \in Procs, NEW m \in Modes, NEW c \in Creds, NEW j \in Journals,
             Start(p, m, c, j)
      PROVE  UidInv'
  BY <1>1 DEF Start, Idle, NoSight
<1>2. ASSUME NEW p \in Procs, TakeUid(p) PROVE UidInv'
  BY <1>2 DEF TakeUid, UidFree
<1>3. ASSUME NEW p \in Procs, InspectKnown(p) PROVE UidInv'
  BY <1>3 DEF InspectKnown, ValidRecord, Exists
<1>4. ASSUME NEW p \in Procs, InspectFresh(p) PROVE UidInv'
  BY <1>4 DEF InspectFresh, Exists
<1>5. ASSUME NEW p \in Procs, TakeKey(p) PROVE UidInv'
  BY <1>5 DEF TakeKey, KeyFree
<1>6. ASSUME NEW p \in Procs, CheckBinding(p) PROVE UidInv'
  <2>1. CASE Goto(p, "create")
    BY <1>6, <2>1 DEF CheckBinding, RegistryAdmits, Exists
  <2>2. CASE Goto(p, "link")
    BY <1>6, <2>2 DEF CheckBinding, RegistryAdmits, Exists
  <2> QED
    BY <1>6, <2>1, <2>2 DEF CheckBinding
<1>7. ASSUME NEW p \in Procs, LinkBinding(p) PROVE UidInv'
  BY <1>7 DEF LinkBinding
<1>8. ASSUME NEW p \in Procs, CreateJournal(p) PROVE UidInv'
  BY <1>8 DEF CreateJournal, Created, NewJournal, Exists
<1>9. ASSUME NEW p \in Procs, Register(p) PROVE UidInv'
  <2>1. CASE proc[p].mode = "credential" /\ Goto(p, "active")
    BY <1>9, <2>1 DEF Register
  <2>2. CASE proc[p].mode = "account" /\ proc[p].lease # None /\ Goto(p, "confirm")
    BY <1>9, <2>2 DEF Register
  <2>3. CASE proc[p].mode = "account" /\ proc[p].lease = None /\ Goto(p, "record")
    BY <1>9, <2>3 DEF Register
  <2> QED
    BY <1>9, <2>1, <2>2, <2>3 DEF Register
<1>10. ASSUME NEW p \in Procs, NewRecord(p) PROVE UidInv'
  BY <1>10 DEF NewRecord, Exists
<1>11. ASSUME NEW p \in Procs, PublishRegistry(p) PROVE UidInv'
  BY <1>11 DEF PublishRegistry
<1>12. ASSUME NEW p \in Procs, PublishBinding(p) PROVE UidInv'
  BY <1>12 DEF PublishBinding
<1>13. ASSUME NEW p \in Procs, Confirm(p) PROVE UidInv'
  BY <1>13, SMTT(20) DEF Confirm, Sight, Readable, SameLock, SameJournal
<1>14. ASSUME NEW p \in Procs, Prepare(p) PROVE UidInv'
  BY <1>14, SMTT(20) DEF Prepare, Exists
<1>15. ASSUME NEW p \in Procs, AssertHeld(p) PROVE UidInv'
  <2>1. CASE (proc[p].mode = "account" => Held(p)) /\ Goto(p, "sending")
    BY <1>15, <2>1 DEF AssertHeld, Held, SameLock, SameJournal
  <2>2. CASE Goto(p, "active")
    BY <1>15, <2>2 DEF AssertHeld, Held, SameLock, SameJournal
  <2> QED
    BY <1>15, <2>1, <2>2 DEF AssertHeld
<1>16. ASSUME NEW p \in Procs, Send(p) PROVE UidInv'
  BY <1>16 DEF Send
<1>17. ASSUME NEW p \in Procs, End(p) PROVE UidInv'
  BY <1>17 DEF End, Idle, NoSight
<1>18. ASSUME ReplaceLocks PROVE UidInv'
  BY <1>18 DEF ReplaceLocks, Fault
<1>19. ASSUME NEW j \in Journals, ReplaceJournal(j) PROVE UidInv'
  BY <1>19 DEF ReplaceJournal, Fault, Exists
<1>20. ASSUME NEW j \in Journals, LoseJournal(j) PROVE UidInv'
  BY <1>20 DEF LoseJournal, Fault, Missing, Exists
<1>21. ASSUME NEW j \in Journals, LoseSidecar(j) PROVE UidInv'
  BY <1>21 DEF LoseSidecar, Fault
<1>22. ASSUME UNCHANGED vars PROVE UidInv'
  BY <1>22 DEF vars
<1> QED
  BY <1>1, <1>2, <1>3, <1>4, <1>5, <1>6, <1>7, <1>8, <1>9, <1>10, <1>11, <1>12, <1>13,
     <1>14, <1>15, <1>16, <1>17, <1>18, <1>19, <1>20, <1>21, <1>22
     DEF Next, Lease, Outside

LEMMA InodeInvStep == ASSUME IInv, [Next]_vars PROVE InodeInv'
<1> USE DEF IInv, InodeInv, TypeOK, Processes, JobInv
<1>1. ASSUME NEW p \in Procs, NEW m \in Modes, NEW c \in Creds, NEW j \in Journals,
             Start(p, m, c, j)
      PROVE  InodeInv'
  BY <1>1 DEF Start, Idle, NoSight
<1>2. ASSUME NEW p \in Procs, TakeUid(p) PROVE InodeInv'
  BY <1>2 DEF TakeUid, UidFree
<1>3. ASSUME NEW p \in Procs, InspectKnown(p) PROVE InodeInv'
  BY <1>3 DEF InspectKnown, ValidRecord, Exists
<1>4. ASSUME NEW p \in Procs, InspectFresh(p) PROVE InodeInv'
  BY <1>4 DEF InspectFresh, Exists
<1>5. ASSUME NEW p \in Procs, TakeKey(p) PROVE InodeInv'
  BY <1>5 DEF TakeKey, KeyFree
<1>6. ASSUME NEW p \in Procs, CheckBinding(p) PROVE InodeInv'
  <2>1. CASE Goto(p, "create")
    BY <1>6, <2>1 DEF CheckBinding, RegistryAdmits, Exists
  <2>2. CASE Goto(p, "link")
    BY <1>6, <2>2 DEF CheckBinding, RegistryAdmits, Exists
  <2> QED
    BY <1>6, <2>1, <2>2 DEF CheckBinding
<1>7. ASSUME NEW p \in Procs, LinkBinding(p) PROVE InodeInv'
  BY <1>7 DEF LinkBinding
<1>8. ASSUME NEW p \in Procs, CreateJournal(p) PROVE InodeInv'
  BY <1>8 DEF CreateJournal, Created, NewJournal, Exists
<1>9. ASSUME NEW p \in Procs, Register(p) PROVE InodeInv'
  <2>1. CASE proc[p].mode = "credential" /\ Goto(p, "active")
    BY <1>9, <2>1 DEF Register
  <2>2. CASE proc[p].mode = "account" /\ proc[p].lease # None /\ Goto(p, "confirm")
    BY <1>9, <2>2 DEF Register
  <2>3. CASE proc[p].mode = "account" /\ proc[p].lease = None /\ Goto(p, "record")
    BY <1>9, <2>3 DEF Register
  <2> QED
    BY <1>9, <2>1, <2>2, <2>3 DEF Register
<1>10. ASSUME NEW p \in Procs, NewRecord(p) PROVE InodeInv'
  BY <1>10 DEF NewRecord, Exists
<1>11. ASSUME NEW p \in Procs, PublishRegistry(p) PROVE InodeInv'
  BY <1>11 DEF PublishRegistry
<1>12. ASSUME NEW p \in Procs, PublishBinding(p) PROVE InodeInv'
  BY <1>12 DEF PublishBinding
<1>13. ASSUME NEW p \in Procs, Confirm(p) PROVE InodeInv'
  BY <1>13 DEF Confirm, Sight, Readable, SameLock, SameJournal
<1>14. ASSUME NEW p \in Procs, Prepare(p) PROVE InodeInv'
  BY <1>14 DEF Prepare, Exists
<1>15. ASSUME NEW p \in Procs, AssertHeld(p) PROVE InodeInv'
  <2>1. CASE (proc[p].mode = "account" => Held(p)) /\ Goto(p, "sending")
    BY <1>15, <2>1 DEF AssertHeld, Held, SameLock, SameJournal
  <2>2. CASE Goto(p, "active")
    BY <1>15, <2>2 DEF AssertHeld, Held, SameLock, SameJournal
  <2> QED
    BY <1>15, <2>1, <2>2 DEF AssertHeld
<1>16. ASSUME NEW p \in Procs, Send(p) PROVE InodeInv'
  BY <1>16 DEF Send
<1>17. ASSUME NEW p \in Procs, End(p) PROVE InodeInv'
  BY <1>17 DEF End, Idle, NoSight
<1>18. ASSUME ReplaceLocks PROVE InodeInv'
  BY <1>18 DEF ReplaceLocks, Fault
<1>19. ASSUME NEW j \in Journals, ReplaceJournal(j) PROVE InodeInv'
  BY <1>19 DEF ReplaceJournal, Fault, Exists
<1>20. ASSUME NEW j \in Journals, LoseJournal(j) PROVE InodeInv'
  BY <1>20 DEF LoseJournal, Fault, Missing, Exists
<1>21. ASSUME NEW j \in Journals, LoseSidecar(j) PROVE InodeInv'
  BY <1>21 DEF LoseSidecar, Fault
<1>22. ASSUME UNCHANGED vars PROVE InodeInv'
  BY <1>22 DEF vars
<1> QED
  BY <1>1, <1>2, <1>3, <1>4, <1>5, <1>6, <1>7, <1>8, <1>9, <1>10, <1>11, <1>12, <1>13,
     <1>14, <1>15, <1>16, <1>17, <1>18, <1>19, <1>20, <1>21, <1>22
     DEF Next, Lease, Outside

LEMMA LeaseInvStep == ASSUME IInv, [Next]_vars PROVE LeaseInv'
<1> USE DEF IInv, LeaseInv, Record, Registered, Undecided, TypeOK, Processes, JobInv
<1>1. ASSUME NEW p \in Procs, NEW m \in Modes, NEW c \in Creds, NEW j \in Journals,
             Start(p, m, c, j)
      PROVE  LeaseInv'
  BY <1>1 DEF Start, Idle, NoSight
<1>2. ASSUME NEW p \in Procs, TakeUid(p) PROVE LeaseInv'
  BY <1>2 DEF TakeUid, UidFree
<1>3. ASSUME NEW p \in Procs, InspectKnown(p) PROVE LeaseInv'
  BY <1>3 DEF InspectKnown, ValidRecord, Exists
<1>4. ASSUME NEW p \in Procs, InspectFresh(p) PROVE LeaseInv'
  BY <1>4 DEF InspectFresh, Exists
<1>5. ASSUME NEW p \in Procs, TakeKey(p) PROVE LeaseInv'
  BY <1>5 DEF TakeKey, KeyFree
<1>6. ASSUME NEW p \in Procs, CheckBinding(p) PROVE LeaseInv'
  <2>1. CASE Goto(p, "create")
    BY <1>6, <2>1 DEF CheckBinding, RegistryAdmits, Exists
  <2>2. CASE Goto(p, "link")
    BY <1>6, <2>2 DEF CheckBinding, RegistryAdmits, Exists
  <2> QED
    BY <1>6, <2>1, <2>2 DEF CheckBinding
<1>7. ASSUME NEW p \in Procs, LinkBinding(p) PROVE LeaseInv'
  BY <1>7 DEF LinkBinding
<1>8. ASSUME NEW p \in Procs, CreateJournal(p) PROVE LeaseInv'
  BY <1>8 DEF CreateJournal, Created, NewJournal, Exists
<1>9. ASSUME NEW p \in Procs, Register(p) PROVE LeaseInv'
  <2>1. CASE proc[p].mode = "credential" /\ Goto(p, "active")
    BY <1>9, <2>1 DEF Register
  <2>2. CASE proc[p].mode = "account" /\ proc[p].lease # None /\ Goto(p, "confirm")
    BY <1>9, <2>2 DEF Register
  <2>3. CASE proc[p].mode = "account" /\ proc[p].lease = None /\ Goto(p, "record")
    BY <1>9, <2>3 DEF Register
  <2> QED
    BY <1>9, <2>1, <2>2, <2>3 DEF Register
<1>10. ASSUME NEW p \in Procs, NewRecord(p) PROVE LeaseInv'
  <2> DEFINE r == [cred |-> proc[p].cred, journal |-> proc[p].journal,
                  inode |-> journal[proc[p].journal].inode, proof |-> 0]
  <2>1. r \in Record
    BY <1>10 DEF NewRecord, JobInv
  <2>2. r # None
    BY <2>1
  <2> HIDE DEF r
  <2> QED
    BY <1>10, <2>2 DEF NewRecord
<1>11. ASSUME NEW p \in Procs, PublishRegistry(p) PROVE LeaseInv'
  BY <1>11 DEF PublishRegistry
<1>12. ASSUME NEW p \in Procs, PublishBinding(p) PROVE LeaseInv'
  BY <1>12 DEF PublishBinding
<1>13. ASSUME NEW p \in Procs, Confirm(p) PROVE LeaseInv'
  BY <1>13 DEF Confirm, Sight, Readable, SameLock, SameJournal
<1>14. ASSUME NEW p \in Procs, Prepare(p) PROVE LeaseInv'
  BY <1>14, SMTT(20) DEF Prepare, Exists
<1>15. ASSUME NEW p \in Procs, AssertHeld(p) PROVE LeaseInv'
  <2>1. CASE (proc[p].mode = "account" => Held(p)) /\ Goto(p, "sending")
    BY <1>15, <2>1 DEF AssertHeld, Held, SameLock, SameJournal
  <2>2. CASE Goto(p, "active")
    BY <1>15, <2>2 DEF AssertHeld, Held, SameLock, SameJournal
  <2> QED
    BY <1>15, <2>1, <2>2 DEF AssertHeld
<1>16. ASSUME NEW p \in Procs, Send(p) PROVE LeaseInv'
  BY <1>16 DEF Send
<1>17. ASSUME NEW p \in Procs, End(p) PROVE LeaseInv'
  BY <1>17 DEF End, Idle, NoSight
<1>18. ASSUME ReplaceLocks PROVE LeaseInv'
  BY <1>18 DEF ReplaceLocks, Fault
<1>19. ASSUME NEW j \in Journals, ReplaceJournal(j) PROVE LeaseInv'
  BY <1>19 DEF ReplaceJournal, Fault, Exists
<1>20. ASSUME NEW j \in Journals, LoseJournal(j) PROVE LeaseInv'
  BY <1>20 DEF LoseJournal, Fault, Missing, Exists
<1>21. ASSUME NEW j \in Journals, LoseSidecar(j) PROVE LeaseInv'
  BY <1>21 DEF LoseSidecar, Fault
<1>22. ASSUME UNCHANGED vars PROVE LeaseInv'
  BY <1>22 DEF vars
<1> QED
  BY <1>1, <1>2, <1>3, <1>4, <1>5, <1>6, <1>7, <1>8, <1>9, <1>10, <1>11, <1>12, <1>13,
     <1>14, <1>15, <1>16, <1>17, <1>18, <1>19, <1>20, <1>21, <1>22, SMTT(20)
     DEF Next, Lease, Outside

LEMMA RowInvStep == ASSUME IInv, [Next]_vars PROVE RowInv'
<1> USE DEF IInv, RowInv, InodeInv, Confirmed, Registered, Record, TypeOK, Processes, JobInv
<1>1. ASSUME NEW p \in Procs, NEW m \in Modes, NEW c \in Creds, NEW j \in Journals,
             Start(p, m, c, j)
      PROVE  RowInv'
  BY <1>1 DEF Start, Idle, NoSight
<1>2. ASSUME NEW p \in Procs, TakeUid(p) PROVE RowInv'
  BY <1>2 DEF TakeUid, UidFree
<1>3. ASSUME NEW p \in Procs, InspectKnown(p) PROVE RowInv'
  BY <1>3 DEF InspectKnown, ValidRecord, Exists
<1>4. ASSUME NEW p \in Procs, InspectFresh(p) PROVE RowInv'
  BY <1>4 DEF InspectFresh, Exists
<1>5. ASSUME NEW p \in Procs, TakeKey(p) PROVE RowInv'
  BY <1>5 DEF TakeKey, KeyFree
<1>6. ASSUME NEW p \in Procs, CheckBinding(p) PROVE RowInv'
  <2>1. CASE Goto(p, "create")
    BY <1>6, <2>1 DEF CheckBinding, RegistryAdmits, Exists
  <2>2. CASE Goto(p, "link")
    BY <1>6, <2>2 DEF CheckBinding, RegistryAdmits, Exists
  <2> QED
    BY <1>6, <2>1, <2>2 DEF CheckBinding
<1>7. ASSUME NEW p \in Procs, LinkBinding(p) PROVE RowInv'
  BY <1>7 DEF LinkBinding
<1>8. ASSUME NEW p \in Procs, CreateJournal(p) PROVE RowInv'
  <2>1. \A j \in Journals : journal[j].inode <= journal'[j].inode
    BY <1>8 DEF CreateJournal, Created, NewJournal, Exists
  <2>2. \A q \in Procs : /\ proc'[q].mode = proc[q].mode /\ proc'[q].lease = proc[q].lease
                         /\ proc'[q].row = proc[q].row /\ proc'[q].journal = proc[q].journal
                         /\ proc'[q].pc \in Confirmed => proc'[q].pc = proc[q].pc
    BY <1>8 DEF CreateJournal
  <2>3. \A j \in Journals : journal'[j].inode \in Nat
    BY TypeOKStep
  <2> QED
    BY <2>1, <2>2, <2>3 DEF LeaseInv
<1>9. ASSUME NEW p \in Procs, Register(p) PROVE RowInv'
  <2>1. CASE proc[p].mode = "credential" /\ Goto(p, "active")
    BY <1>9, <2>1 DEF Register
  <2>2. CASE proc[p].mode = "account" /\ proc[p].lease # None /\ Goto(p, "confirm")
    BY <1>9, <2>2 DEF Register
  <2>3. CASE proc[p].mode = "account" /\ proc[p].lease = None /\ Goto(p, "record")
    BY <1>9, <2>3 DEF Register
  <2> QED
    BY <1>9, <2>1, <2>2, <2>3 DEF Register
<1>10. ASSUME NEW p \in Procs, NewRecord(p) PROVE RowInv'
  BY <1>10 DEF NewRecord, Exists
<1>11. ASSUME NEW p \in Procs, PublishRegistry(p) PROVE RowInv'
  BY <1>11 DEF PublishRegistry
<1>12. ASSUME NEW p \in Procs, PublishBinding(p) PROVE RowInv'
  BY <1>12 DEF PublishBinding
<1>13. ASSUME NEW p \in Procs, Confirm(p) PROVE RowInv'
  BY <1>13, SMTT(20) DEF Confirm, Sight, Readable, SameLock, SameJournal
<1>14. ASSUME NEW p \in Procs, Prepare(p) PROVE RowInv'
  BY <1>14, SMTT(20) DEF Prepare, Exists
<1>15. ASSUME NEW p \in Procs, AssertHeld(p) PROVE RowInv'
  <2>1. CASE (proc[p].mode = "account" => Held(p)) /\ Goto(p, "sending")
    BY <1>15, <2>1 DEF AssertHeld, Held, SameLock, SameJournal
  <2>2. CASE Goto(p, "active")
    BY <1>15, <2>2 DEF AssertHeld, Held, SameLock, SameJournal
  <2> QED
    BY <1>15, <2>1, <2>2 DEF AssertHeld
<1>16. ASSUME NEW p \in Procs, Send(p) PROVE RowInv'
  BY <1>16 DEF Send
<1>17. ASSUME NEW p \in Procs, End(p) PROVE RowInv'
  BY <1>17 DEF End, Idle, NoSight
<1>18. ASSUME ReplaceLocks PROVE RowInv'
  BY <1>18 DEF ReplaceLocks, Fault
<1>19. ASSUME NEW j \in Journals, ReplaceJournal(j) PROVE RowInv'
  BY <1>19 DEF ReplaceJournal, Fault, Exists, LeaseInv
<1>20. ASSUME NEW j \in Journals, LoseJournal(j) PROVE RowInv'
  BY <1>20 DEF LoseJournal, Fault, Missing, Exists
<1>21. ASSUME NEW j \in Journals, LoseSidecar(j) PROVE RowInv'
  BY <1>21 DEF LoseSidecar, Fault
<1>22. ASSUME UNCHANGED vars PROVE RowInv'
  BY <1>22 DEF vars
<1> QED
  BY <1>1, <1>2, <1>3, <1>4, <1>5, <1>6, <1>7, <1>8, <1>9, <1>10, <1>11, <1>12, <1>13,
     <1>14, <1>15, <1>16, <1>17, <1>18, <1>19, <1>20, <1>21, <1>22, SMTT(20)
     DEF Next, Lease, Outside

LEMMA LedgerInvStep == ASSUME IInv, [Next]_vars PROVE LedgerInv'
<1> USE DEF IInv, LedgerInv, Record, TypeOK, Processes, JobInv
<1>1. ASSUME NEW p \in Procs, NEW m \in Modes, NEW c \in Creds, NEW j \in Journals,
             Start(p, m, c, j)
      PROVE  LedgerInv'
  BY <1>1 DEF Start, Idle, NoSight
<1>2. ASSUME NEW p \in Procs, TakeUid(p) PROVE LedgerInv'
  BY <1>2 DEF TakeUid, UidFree
<1>3. ASSUME NEW p \in Procs, InspectKnown(p) PROVE LedgerInv'
  BY <1>3 DEF InspectKnown, ValidRecord, Exists
<1>4. ASSUME NEW p \in Procs, InspectFresh(p) PROVE LedgerInv'
  BY <1>4 DEF InspectFresh, Exists
<1>5. ASSUME NEW p \in Procs, TakeKey(p) PROVE LedgerInv'
  BY <1>5 DEF TakeKey, KeyFree
<1>6. ASSUME NEW p \in Procs, CheckBinding(p) PROVE LedgerInv'
  <2>1. CASE Goto(p, "create")
    BY <1>6, <2>1 DEF CheckBinding, RegistryAdmits, Exists
  <2>2. CASE Goto(p, "link")
    BY <1>6, <2>2 DEF CheckBinding, RegistryAdmits, Exists
  <2> QED
    BY <1>6, <2>1, <2>2 DEF CheckBinding
<1>7. ASSUME NEW p \in Procs, LinkBinding(p) PROVE LedgerInv'
  BY <1>7 DEF LinkBinding
<1>8. ASSUME NEW p \in Procs, CreateJournal(p) PROVE LedgerInv'
  BY <1>8 DEF CreateJournal, Created, NewJournal, Exists
<1>9. ASSUME NEW p \in Procs, Register(p) PROVE LedgerInv'
  <2>1. CASE proc[p].mode = "credential" /\ Goto(p, "active")
    BY <1>9, <2>1 DEF Register
  <2>2. CASE proc[p].mode = "account" /\ proc[p].lease # None /\ Goto(p, "confirm")
    BY <1>9, <2>2 DEF Register
  <2>3. CASE proc[p].mode = "account" /\ proc[p].lease = None /\ Goto(p, "record")
    BY <1>9, <2>3 DEF Register
  <2> QED
    BY <1>9, <2>1, <2>2, <2>3 DEF Register
<1>10. ASSUME NEW p \in Procs, NewRecord(p) PROVE LedgerInv'
  BY <1>10 DEF NewRecord, Exists
<1>11. ASSUME NEW p \in Procs, PublishRegistry(p) PROVE LedgerInv'
  BY <1>11 DEF PublishRegistry
<1>12. ASSUME NEW p \in Procs, PublishBinding(p) PROVE LedgerInv'
  BY <1>12 DEF PublishBinding
<1>13. ASSUME NEW p \in Procs, Confirm(p) PROVE LedgerInv'
  BY <1>13 DEF Confirm, Sight, Readable, SameLock, SameJournal
<1>14. ASSUME NEW p \in Procs, Prepare(p) PROVE LedgerInv'
  BY <1>14 DEF Prepare, Exists
<1>15. ASSUME NEW p \in Procs, AssertHeld(p) PROVE LedgerInv'
  <2>1. CASE (proc[p].mode = "account" => Held(p)) /\ Goto(p, "sending")
    BY <1>15, <2>1 DEF AssertHeld, Held, SameLock, SameJournal
  <2>2. CASE Goto(p, "active")
    BY <1>15, <2>2 DEF AssertHeld, Held, SameLock, SameJournal
  <2> QED
    BY <1>15, <2>1, <2>2 DEF AssertHeld
<1>16. ASSUME NEW p \in Procs, Send(p) PROVE LedgerInv'
  BY <1>16 DEF Send, LeaseInv, RowInv, Registered, Undecided
<1>17. ASSUME NEW p \in Procs, End(p) PROVE LedgerInv'
  BY <1>17 DEF End, Idle, NoSight
<1>18. ASSUME ReplaceLocks PROVE LedgerInv'
  BY <1>18 DEF ReplaceLocks, Fault
<1>19. ASSUME NEW j \in Journals, ReplaceJournal(j) PROVE LedgerInv'
  BY <1>19 DEF ReplaceJournal, Fault, Exists
<1>20. ASSUME NEW j \in Journals, LoseJournal(j) PROVE LedgerInv'
  BY <1>20 DEF LoseJournal, Fault, Missing, Exists
<1>21. ASSUME NEW j \in Journals, LoseSidecar(j) PROVE LedgerInv'
  BY <1>21 DEF LoseSidecar, Fault
<1>22. ASSUME UNCHANGED vars PROVE LedgerInv'
  BY <1>22 DEF vars
<1> QED
  BY <1>1, <1>2, <1>3, <1>4, <1>5, <1>6, <1>7, <1>8, <1>9, <1>10, <1>11, <1>12, <1>13,
     <1>14, <1>15, <1>16, <1>17, <1>18, <1>19, <1>20, <1>21, <1>22
     DEF Next, Lease, Outside

LEMMA KeyInvStep == ASSUME IInv, [Next]_vars PROVE KeyInv'
<1> USE DEF IInv, KeyInv, InodeInv, Taken, Registered, TypeOK, Processes, JobInv
<1>1. ASSUME NEW p \in Procs, NEW m \in Modes, NEW c \in Creds, NEW j \in Journals,
             Start(p, m, c, j)
      PROVE  KeyInv'
  BY <1>1 DEF Start, Idle, NoSight
<1>2. ASSUME NEW p \in Procs, TakeUid(p) PROVE KeyInv'
  BY <1>2 DEF TakeUid, UidFree
<1>3. ASSUME NEW p \in Procs, InspectKnown(p) PROVE KeyInv'
  BY <1>3 DEF InspectKnown, ValidRecord, Exists
<1>4. ASSUME NEW p \in Procs, InspectFresh(p) PROVE KeyInv'
  BY <1>4 DEF InspectFresh, Exists
<1>5. ASSUME NEW p \in Procs, TakeKey(p) PROVE KeyInv'
  BY <1>5 DEF TakeKey, KeyFree
<1>6. ASSUME NEW p \in Procs, CheckBinding(p) PROVE KeyInv'
  <2>1. CASE Goto(p, "create")
    BY <1>6, <2>1 DEF CheckBinding, RegistryAdmits, Exists
  <2>2. CASE Goto(p, "link")
    BY <1>6, <2>2 DEF CheckBinding, RegistryAdmits, Exists
  <2> QED
    BY <1>6, <2>1, <2>2 DEF CheckBinding
<1>7. ASSUME NEW p \in Procs, LinkBinding(p) PROVE KeyInv'
  BY <1>7 DEF LinkBinding
<1>8. ASSUME NEW p \in Procs, CreateJournal(p) PROVE KeyInv'
  BY <1>8 DEF CreateJournal, Created, NewJournal, Exists
<1>9. ASSUME NEW p \in Procs, Register(p) PROVE KeyInv'
  <2>1. CASE proc[p].mode = "credential" /\ Goto(p, "active")
    BY <1>9, <2>1 DEF Register
  <2>2. CASE proc[p].mode = "account" /\ proc[p].lease # None /\ Goto(p, "confirm")
    BY <1>9, <2>2 DEF Register
  <2>3. CASE proc[p].mode = "account" /\ proc[p].lease = None /\ Goto(p, "record")
    BY <1>9, <2>3 DEF Register
  <2> QED
    BY <1>9, <2>1, <2>2, <2>3 DEF Register
<1>10. ASSUME NEW p \in Procs, NewRecord(p) PROVE KeyInv'
  BY <1>10 DEF NewRecord, Exists
<1>11. ASSUME NEW p \in Procs, PublishRegistry(p) PROVE KeyInv'
  BY <1>11 DEF PublishRegistry
<1>12. ASSUME NEW p \in Procs, PublishBinding(p) PROVE KeyInv'
  BY <1>12 DEF PublishBinding
<1>13. ASSUME NEW p \in Procs, Confirm(p) PROVE KeyInv'
  BY <1>13 DEF Confirm
<1>14. ASSUME NEW p \in Procs, Prepare(p) PROVE KeyInv'
  <2>1. \A q \in Procs : /\ proc'[q].key = proc[q].key /\ proc'[q].cred = proc[q].cred
                         /\ proc'[q].journal = proc[q].journal
                         /\ proc'[q].pc # proc[q].pc => proc[q].pc \in Registered
                         /\ proc'[q].pc # proc[q].pc => proc'[q].pc \in Registered
    BY <1>14 DEF Prepare
  <2>2. UNCHANGED <<lockFile, credRegistry, sent>>
    BY <1>14 DEF Prepare
  <2> QED
    BY <2>1, <2>2
<1>15. ASSUME NEW p \in Procs, AssertHeld(p) PROVE KeyInv'
  <2>1. CASE (proc[p].mode = "account" => Held(p)) /\ Goto(p, "sending")
    BY <1>15, <2>1 DEF AssertHeld, Held, SameLock, SameJournal
  <2>2. CASE Goto(p, "active")
    BY <1>15, <2>2 DEF AssertHeld, Held, SameLock, SameJournal
  <2> QED
    BY <1>15, <2>1, <2>2 DEF AssertHeld
<1>16. ASSUME NEW p \in Procs, Send(p) PROVE KeyInv'
  BY <1>16 DEF Send
<1>17. ASSUME NEW p \in Procs, End(p) PROVE KeyInv'
  BY <1>17 DEF End, Idle, NoSight
<1>18. ASSUME ReplaceLocks PROVE KeyInv'
  BY <1>18 DEF ReplaceLocks, Fault
<1>19. ASSUME NEW j \in Journals, ReplaceJournal(j) PROVE KeyInv'
  BY <1>19 DEF ReplaceJournal, Fault, Exists
<1>20. ASSUME NEW j \in Journals, LoseJournal(j) PROVE KeyInv'
  BY <1>20 DEF LoseJournal, Fault, Missing, Exists
<1>21. ASSUME NEW j \in Journals, LoseSidecar(j) PROVE KeyInv'
  BY <1>21 DEF LoseSidecar, Fault
<1>22. ASSUME UNCHANGED vars PROVE KeyInv'
  BY <1>22 DEF vars
<1> QED
  BY <1>1, <1>2, <1>3, <1>4, <1>5, <1>6, <1>7, <1>8, <1>9, <1>10, <1>11, <1>12, <1>13,
     <1>14, <1>15, <1>16, <1>17, <1>18, <1>19, <1>20, <1>21, <1>22
     DEF Next, Lease, Outside

-----------------------------------------------------------------------------
(* The theorems. *)

(* Every reachable state satisfies the inductive invariant: the process that *)
(* holds a lock, its lease, the file it wrote to and the owner records agree. *)
THEOREM Inductive == Spec => []IInv
<1>1. IInv /\ [Next]_vars => IInv'
  <2> SUFFICES ASSUME IInv, [Next]_vars PROVE IInv'
    OBVIOUS
  <2>1. TypeOK' /\ JobInv' /\ UidInv' /\ InodeInv'
    BY TypeOKStep, JobInvStep, UidInvStep, InodeInvStep
  <2>2. LeaseInv' /\ RowInv' /\ LedgerInv' /\ KeyInv'
    BY LeaseInvStep, RowInvStep, LedgerInvStep, KeyInvStep
  <2> QED
    BY <2>1, <2>2 DEF IInv
<1> QED
  BY Initially, <1>1, PTL DEF Spec

(* The files, the processes and the history keep their types.                *)
THEOREM TypeCorrect == Spec => []TypeOK
<1>1. IInv => TypeOK
  BY DEF IInv
<1> QED
  BY Inductive, <1>1, PTL

(* At most one process of the account can pass assert_held, whatever happens *)
(* to the lock files.                                                        *)
THEOREM OneHolderHolds == Spec => []OneHolder
<1>1. IInv => OneHolder
  BY DEF IInv, OneHolder, UidInv, Held, SameLock
<1> QED
  BY Inductive, <1>1, PTL

(* All orders sent in account mode are recorded in one and the same file.    *)
THEOREM OneLedgerHolds == Spec => []OneLedgerPerAccount
<1>1. IInv => OneLedgerPerAccount
  BY DEF IInv, OneLedgerPerAccount, LedgerInv
<1> QED
  BY Inductive, <1>1, PTL

(* While the lock files stay, the orders of a key are recorded in the journal *)
(* of one path.                                                              *)
THEOREM OneJournalHolds == Spec => []OneJournalPerCredential
<1>1. IInv => OneJournalPerCredential
  BY DEF IInv, OneJournalPerCredential, KeyInv
<1> QED
  BY Inductive, <1>1, PTL

-----------------------------------------------------------------------------
(* Durable records. *)

RecordsKept ==
    /\ \A j \in Journals : /\ Kept(credBinding[j], credBinding'[j])
                           /\ Kept(acctBinding[j], acctBinding'[j])
    /\ \A c \in Creds : Kept(credRegistry[c], credRegistry'[c])
    /\ Kept(acctRegistry, acctRegistry')
FilesKept == \A j \in Journals : Exists(j) => journal'[j].inode = journal[j].inode

(* A step of a process changes no record that exists and replaces no file.  *)
LEMMA LeaseKeeps ==
  ASSUME IInv, NEW p \in Procs, Lease(p)
  PROVE  RecordsKept /\ FilesKept
<1> USE DEF IInv, TypeOK, RecordsKept, FilesKept, Kept
<1>1. CASE LinkBinding(p)
  BY <1>1 DEF LinkBinding
<1>2. CASE CreateJournal(p)
  BY <1>2 DEF CreateJournal, Created, Exists
<1>3. CASE Register(p)
  BY <1>3 DEF Register
<1>4. CASE PublishRegistry(p)
  BY <1>4 DEF PublishRegistry
<1>5. CASE PublishBinding(p)
  BY <1>5 DEF PublishBinding
<1>6. CASE Prepare(p)
  BY <1>6 DEF Prepare
<1> QED
  BY <1>1, <1>2, <1>3, <1>4, <1>5, <1>6
     DEF Lease, Start, TakeUid, InspectKnown, InspectFresh, TakeKey, CheckBinding, NewRecord,
         Confirm, AssertHeld, Send, End

(* Everything else that happens to the files counts as a fault.             *)
LEMMA OutsideIsFault == ASSUME IInv, Outside PROVE faults' = faults + 1
BY DEF Outside, ReplaceLocks, ReplaceJournal, LoseJournal, LoseSidecar, Fault

(* No executor step changes an owner record that exists (os.link refuses to *)
(* replace): OwnersNeverReplaced.                                           *)
THEOREM OwnersNeverReplacedHolds == Spec => OwnersNeverReplaced
<1>1. IInv /\ [Next]_vars => [faults' = faults => RecordsKept]_vars
  <2> SUFFICES ASSUME IInv, Next, faults' = faults PROVE RecordsKept
    OBVIOUS
  <2>1. ~Outside
    BY OutsideIsFault DEF IInv, TypeOK
  <2> QED
    BY <2>1, LeaseKeeps DEF Next
<1> QED
  BY Inductive, <1>1, PTL DEF Spec, OwnersNeverReplaced, RecordsKept

(* What the process x relies on at each step while no file was tampered     *)
(* with, and what it leaves behind with an order.                           *)
Backed(x) ==
    /\ x.pc \in Taken \ {"bind", "link"} => credBinding[x.journal] = x.cred
    /\ x.pc \in Registered \cup {"register"} => Exists(x.journal)
    /\ x.lease # None =>
         /\ Exists(x.journal) /\ journal[x.journal].inode = x.lease.inode
         /\ x.pc \notin {"publish", "sidecar"} => acctBinding[x.journal] = x.lease
    /\ x.pc \in {"prepared", "sending"} => journal[x.journal].inode = x.row
    /\ x.pc = "idle" => x.lease = None

Complete(s) ==
    /\ credRegistry[s.cred] = s.journal /\ credBinding[s.journal] = s.cred
    /\ Exists(s.journal) /\ journal[s.journal].inode = s.inode
    /\ s.mode = "account" =>
         /\ acctRegistry # None /\ ValidRecord(acctRegistry, s.cred, s.journal)
         /\ acctBinding[s.journal] = acctRegistry

CompleteInv ==
    faults = 0 =>
        /\ lockFile = 1
        /\ \A p \in Procs : Backed(proc[p])
        /\ \A s \in sent : Complete(s)

(* A process that stays where it is keeps what it relies on, because the    *)
(* records and files are kept.                                              *)
LEMMA BackedStays ==
  ASSUME IInv, RecordsKept, FilesKept, NEW q \in Procs, Backed(proc[q]), proc'[q] = proc[q]
  PROVE  Backed(proc[q])'
BY DEF IInv, TypeOK, JobInv, Processes, RecordsKept, FilesKept, Kept, Backed, Exists, Taken, Registered

(* So does a sent order.                                                    *)
LEMMA CompleteStays ==
  ASSUME IInv, RecordsKept, FilesKept, NEW s \in sent, Complete(s)
  PROVE  Complete(s)'
BY DEF IInv, TypeOK, RecordsKept, FilesKept, Kept, Complete, ValidRecord, Exists

(* Each step of a process establishes what its next step relies on.         *)
LEMMA BackedStep ==
  ASSUME IInv, NEW p \in Procs, Lease(p), Backed(proc[p]), lockFile = 1
  PROVE  Backed(proc[p])'
<1> USE DEF IInv, TypeOK, Processes, JobInv, Backed, Exists, Taken, Registered, Steps
<1>1. ASSUME NEW m \in Modes, NEW c \in Creds, NEW j \in Journals, Start(p, m, c, j)
      PROVE  Backed(proc[p])'
  BY <1>1 DEF Start, Idle
<1>2. CASE TakeUid(p) \/ TakeKey(p)
  BY <1>2 DEF TakeUid, TakeKey
<1>3. CASE InspectKnown(p)
  BY <1>3 DEF InspectKnown, ValidRecord
<1>4. CASE InspectFresh(p)
  BY <1>4 DEF InspectFresh
<1>5. CASE CheckBinding(p)
  <2>1. /\ proc[p].pc = "bind" /\ UNCHANGED files
        /\ \/ credBinding[proc[p].journal] = proc[p].cred /\ Goto(p, "create")
           \/ Goto(p, "link")
    BY <1>5 DEF CheckBinding
  <2> QED
    BY <2>1
<1>6. CASE LinkBinding(p)
  BY <1>6 DEF LinkBinding
<1>7. CASE CreateJournal(p)
  <2>1. /\ proc[p].pc = "create" /\ proc'[p] = [proc[p] EXCEPT !.pc = "register"]
        /\ UNCHANGED <<credBinding, acctBinding>>
    BY <1>7 DEF CreateJournal
  <2>2. proc[p].journal \in Journals
    BY <2>1
  <2>3. journal'[proc[p].journal].inode # 0
    BY <1>7, <2>2 DEF CreateJournal, Created, NewJournal
  <2>4. Exists(proc[p].journal) => journal'[proc[p].journal].inode = journal[proc[p].journal].inode
    BY <1>7, <2>2 DEF CreateJournal, Created
  <2>5. /\ proc'[p].pc = "register" /\ proc'[p].cred = proc[p].cred
        /\ proc'[p].journal = proc[p].journal /\ proc'[p].lease = proc[p].lease
    BY <2>1
  <2> HIDE DEF IInv, TypeOK, Processes, JobInv
  <2> QED
    BY <2>1, <2>3, <2>4, <2>5
<1>8. CASE Register(p)
  <2>1. /\ proc[p].pc = "register" /\ UNCHANGED <<journal, credBinding, acctBinding>>
        /\ \E step \in {"active", "confirm", "record"} : Goto(p, step)
    BY <1>8 DEF Register
  <2> QED
    BY <2>1
<1>9. CASE NewRecord(p)
  BY <1>9 DEF NewRecord
<1>10. CASE PublishRegistry(p)
  BY <1>10 DEF PublishRegistry
<1>11. CASE PublishBinding(p)
  BY <1>11 DEF PublishBinding, LeaseInv
<1>12. CASE Confirm(p)
  BY <1>12 DEF Confirm
<1>13. CASE Prepare(p)
  <2>1. /\ proc[p].pc = "active"
        /\ proc'[p] = [proc[p] EXCEPT !.row = journal[proc[p].journal].inode, !.pc = "prepared"]
        /\ UNCHANGED <<credBinding, acctBinding>>
    BY <1>13 DEF Prepare
  <2>2. proc[p].journal \in Journals
    BY <2>1
  <2>3. journal'[proc[p].journal].inode = journal[proc[p].journal].inode
    BY <1>13, <2>2 DEF Prepare
  <2>4. /\ proc'[p].pc = "prepared" /\ proc'[p].row = journal[proc[p].journal].inode
        /\ proc'[p].cred = proc[p].cred
        /\ proc'[p].journal = proc[p].journal /\ proc'[p].lease = proc[p].lease
    BY <2>1
  <2> HIDE DEF IInv, TypeOK, Processes, JobInv
  <2> QED
    BY <2>1, <2>3, <2>4
<1>14. CASE AssertHeld(p)
  <2>1. /\ proc[p].pc \in Confirmed /\ UNCHANGED files
        /\ \/ proc[p].pc = "prepared" /\ Goto(p, "sending")
           \/ proc[p].pc = "prepared" /\ Goto(p, "active")
    BY <1>14 DEF AssertHeld, Confirmed
  <2> QED
    BY <2>1, SMTT(30) DEF Confirmed
<1>15. CASE Send(p)
  BY <1>15 DEF Send
<1>16. CASE End(p)
  BY <1>16 DEF End, Idle
<1> QED
  BY <1>1, <1>2, <1>3, <1>4, <1>5, <1>6, <1>7, <1>8, <1>9, <1>10, <1>11, <1>12, <1>13, <1>14,
     <1>15, <1>16 DEF Lease

(* An order is sent from the step at which every record is in place.        *)
LEMMA CompleteStep ==
  ASSUME IInv, CompleteInv, [Next]_vars
  PROVE  CompleteInv'
<1> SUFFICES ASSUME faults' = 0
             PROVE  /\ lockFile' = 1
                    /\ \A p \in Procs : Backed(proc[p])'
                    /\ \A s \in sent' : Complete(s)'
  BY DEF CompleteInv
<1>1. CASE UNCHANGED vars
  BY <1>1 DEF vars, CompleteInv, Backed, Complete, ValidRecord, Exists
<1>2. ASSUME NEW p \in Procs, Lease(p)
      PROVE  /\ lockFile' = 1
             /\ \A q \in Procs : Backed(proc[q])'
             /\ \A s \in sent' : Complete(s)'
  <2>1. UNCHANGED <<lockFile, faults>>
    BY <1>2 DEF Lease, Start, TakeUid, InspectKnown, InspectFresh, TakeKey, CheckBinding,
       LinkBinding, CreateJournal, Register, NewRecord, PublishRegistry, PublishBinding, Confirm,
       Prepare, AssertHeld, Send, End
  <2>2. /\ lockFile = 1
        /\ \A q \in Procs : Backed(proc[q])
        /\ \A s \in sent : Complete(s)
    BY <2>1 DEF CompleteInv
  <2>3. \A q \in Procs : q # p => proc'[q] = proc[q]
    BY <1>2 DEF Lease, Start, TakeUid, InspectKnown, InspectFresh, TakeKey, CheckBinding,
       LinkBinding, CreateJournal, Register, NewRecord, PublishRegistry, PublishBinding, Confirm,
       Prepare, AssertHeld, Send, End, IInv, TypeOK
  <2>4. RecordsKept /\ FilesKept
    BY <1>2, LeaseKeeps
  <2>5. ASSUME NEW q \in Procs PROVE Backed(proc[q])'
    <3>1. Backed(proc[p])'
      BY <1>2, <2>2, BackedStep
    <3>2. q # p => Backed(proc[q])'
      BY <2>2, <2>3, <2>4, BackedStays
    <3> QED
      BY <3>1, <3>2
  <2>6. ASSUME NEW s \in sent' PROVE Complete(s)'
    <3>1. CASE s \in sent
      BY <2>2, <2>4, <3>1, CompleteStays
    <3>2. CASE s \notin sent
      <4>1. /\ Send(p) /\ UNCHANGED files
            /\ s = [mode |-> proc[p].mode, cred |-> proc[p].cred,
                    journal |-> proc[p].journal, inode |-> proc[p].row]
        BY <1>2, <2>6, <3>2 DEF Lease, Start, TakeUid, InspectKnown, InspectFresh, TakeKey,
           CheckBinding, LinkBinding, CreateJournal, Register, NewRecord, PublishRegistry,
           PublishBinding, Confirm, Prepare, AssertHeld, Send, End
      <4>2. proc[p].pc = "sending" /\ Backed(proc[p])
        BY <2>2, <4>1 DEF Send
      <4>3. credRegistry[proc[p].cred] = proc[p].journal
        BY <2>2, <4>2 DEF IInv, KeyInv, Registered
      <4>4. /\ credBinding[proc[p].journal] = proc[p].cred
            /\ Exists(proc[p].journal) /\ journal[proc[p].journal].inode = proc[p].row
        BY <4>2 DEF Backed, Taken, Registered
      <4>5. proc[p].mode = "account" =>
              /\ proc[p].lease # None /\ acctRegistry = proc[p].lease
              /\ ValidRecord(proc[p].lease, proc[p].cred, proc[p].journal)
              /\ acctBinding[proc[p].journal] = proc[p].lease
        BY <4>2 DEF IInv, LeaseInv, Backed, Registered, Undecided, ValidRecord
      <4> QED
        BY <4>1, <4>3, <4>4, <4>5 DEF Complete, ValidRecord, Exists
    <3> QED
      BY <3>1, <3>2
  <2> QED
    BY <2>1, <2>2, <2>5, <2>6
<1>3. ~Outside
  BY OutsideIsFault DEF IInv, TypeOK
<1> QED
  BY <1>1, <1>2, <1>3 DEF Next

(* Ownership is durable before the first order: whoever sent an order finds *)
(* after a crash every record a restart demands, and the file.              *)
THEOREM CompleteBeforeSendHolds == Spec => []CompleteBeforeSend
<1>1. Init => CompleteInv
  BY DEF Init, CompleteInv, Backed, Idle, Taken, Registered
<1>2. IInv /\ CompleteInv /\ [Next]_vars => CompleteInv'
  BY CompleteStep
<1>3. CompleteInv => CompleteBeforeSend
  BY DEF CompleteInv, Complete, CompleteBeforeSend
<1> QED
  BY Inductive, <1>1, <1>2, <1>3, PTL DEF Spec

-----------------------------------------------------------------------------
(* The migration tool beside the executors: it keeps the invariant, whatever *)
(* it publishes, because it works under the same locks.                      *)

LEMMA ToolStepsApart ==
  \A step \in ToolSteps : step \notin Steps /\ step \notin Registered \cup Confirmed \cup Taken
BY DEF ToolSteps, Steps, Registered, Confirmed, Taken

(* A process of the tool becomes x, by a step that leaves the files alone.   *)
Becomes(p, x) == proc' = [proc EXCEPT ![p] = x] /\ UNCHANGED <<files, sent, faults>>
ToolProcess(x) == x \in Processes /\ x.mode = "migrate" /\ x.pc \in ToolSteps
                  /\ x.cred \in Creds /\ x.journal \in Journals

\* The locks that x holds are nobody else's, and its lease is the owner record.
LocksFree(p, x) ==
    \A q \in Procs \ {p} :
        /\ ~(x.uid /\ proc[q].uid /\ proc[q].fd = x.fd)
        /\ lockFile = 1 => ~(x.key = 1 /\ proc[q].key = 1 /\ proc[q].cred = x.cred)
LeaseFits(x) ==
    x.lease # None =>
        /\ x.lease.cred = x.cred /\ x.lease.journal = x.journal
        /\ x.pc \notin Undecided => acctRegistry = x.lease

LEMMA ToolKeeps ==
  ASSUME IInv, NEW p \in Procs, NEW x, Becomes(p, x), ToolProcess(x), LocksFree(p, x), LeaseFits(x)
  PROVE  IInv'
<1>1. TypeOK /\ proc \in [Procs -> Processes]
  BY DEF IInv, TypeOK
<1>2. /\ proc'[p] = x
      /\ \A q \in Procs : q # p => proc'[q] = proc[q]
      /\ UNCHANGED <<lockFile, journal, credBinding, credRegistry, acctBinding, acctRegistry,
                     inodes, sent, faults>>
  BY <1>1 DEF Becomes
<1>3. /\ x \in Processes /\ x.mode = "migrate" /\ x.mode # "account"
      /\ x.cred \in Creds /\ x.journal \in Journals
  BY DEF ToolProcess
<1>4. x.pc \notin Steps /\ x.pc \notin Registered /\ x.pc \notin Confirmed /\ x.pc \notin Taken
  BY ToolStepsApart DEF ToolProcess
<1>5. /\ x.pc # "idle" /\ x.pc # "link" /\ x.pc # "create" /\ x.pc # "register"
      /\ x.pc \notin {"uid", "inspect", "record", "publish", "sidecar", "confirm"}
      /\ x.pc # "publish"
  BY <1>4 DEF Steps
<1>6. TypeOK'
  <2>1. proc' \in [Procs -> Processes]
    BY <1>1, <1>3 DEF Becomes
  <2> QED
    BY <1>1, <1>2, <2>1 DEF TypeOK
<1>7. JobInv'
  BY <1>2, <1>3, <1>4, <1>5 DEF IInv, JobInv
<1>8. UidInv'
  <2>1. \A q, r \in Procs : proc'[q].uid /\ proc'[r].uid /\ proc'[q].fd = proc'[r].fd => q = r
    BY <1>2 DEF IInv, UidInv, LocksFree
  <2>2. \A q \in Procs :
          proc'[q].mode = "account" /\ proc'[q].pc \notin {"idle", "uid"} => proc'[q].uid
    BY <1>2, <1>3 DEF IInv, UidInv
  <2> QED
    BY <2>1, <2>2 DEF UidInv
<1>9. InodeInv'
  BY <1>2 DEF IInv, InodeInv
<1>10. LeaseInv'
  <2>1. ASSUME NEW q \in Procs
        PROVE  /\ proc'[q].lease # None =>
                    /\ proc'[q].lease.cred = proc'[q].cred
                    /\ proc'[q].lease.journal = proc'[q].journal
                    /\ proc'[q].pc \notin {"publish"} \cup Undecided => acctRegistry' = proc'[q].lease
               /\ proc'[q].mode = "account" /\ proc'[q].pc \in Registered \ {"record"}
                    => proc'[q].lease # None
    <3>1. CASE q = p
      BY <1>2, <1>3, <1>5, <3>1 DEF LeaseFits
    <3>2. CASE q # p
      BY <1>2, <3>2 DEF IInv, LeaseInv
    <3> QED
      BY <3>1, <3>2
  <2> QED
    BY <2>1 DEF LeaseInv
<1>11. RowInv'
  BY <1>2, <1>3 DEF IInv, RowInv
<1>12. LedgerInv'
  BY <1>2 DEF IInv, LedgerInv
<1>13. KeyInv'
  BY <1>2, <1>4, <1>5 DEF IInv, KeyInv, LocksFree
<1> QED
  BY <1>6, <1>7, <1>8, <1>9, <1>10, <1>11, <1>12, <1>13 DEF IInv

(* A step that only moves on, or writes files of its own.                    *)
LEMMA MoveKeeps ==
  ASSUME IInv, NEW p \in Procs, NEW step \in ToolSteps, Goto(p, step), proc[p].pc \in ToolSteps,
         UNCHANGED <<files, sent, faults>>,
         proc[p].lease # None /\ step \notin Undecided => acctRegistry = proc[p].lease
  PROVE  IInv'
<1> DEFINE x == [proc[p] EXCEPT !.pc = step]
<1>1. proc[p] \in Processes
  BY DEF IInv, TypeOK
<1>2. proc[p].pc \notin Steps /\ proc[p].pc # "idle"
  BY ToolStepsApart DEF Steps
<1>3. /\ x.pc = step /\ x.mode = proc[p].mode /\ x.cred = proc[p].cred
      /\ x.journal = proc[p].journal /\ x.fd = proc[p].fd
      /\ x.uid = proc[p].uid /\ x.key = proc[p].key /\ x.lease = proc[p].lease
  BY <1>1 DEF Processes
<1>4. x \in Processes
  BY <1>1 DEF Processes
<1> HIDE DEF x
<1>5. ToolProcess(x)
  BY <1>2, <1>3, <1>4 DEF IInv, JobInv, ToolProcess
<1>6. LocksFree(p, x)
  BY <1>3 DEF IInv, UidInv, KeyInv, LocksFree
<1>7. LeaseFits(x)
  BY <1>3 DEF IInv, LeaseInv, LeaseFits
<1>8. Becomes(p, x)
  BY DEF Becomes, x
<1> QED
  BY <1>5, <1>6, <1>7, <1>8, ToolKeeps

(* The beginning of the tool, and the two locks it takes.                    *)
LEMMA StartKeeps ==
  ASSUME IInv, NEW p \in Procs, NEW c \in Creds, NEW j \in Journals,
         Becomes(p, [Idle EXCEPT !.mode = "migrate", !.cred = c, !.journal = j,
                       !.fd = lockFile, !.pc = "lock"])
  PROVE  IInv'
<1> DEFINE x == [Idle EXCEPT !.mode = "migrate", !.cred = c, !.journal = j, !.fd = lockFile,
                            !.pc = "lock"]
<1>1. lockFile \in Nat
  BY DEF IInv, TypeOK
<1>2. /\ x.pc = "lock" /\ x.mode = "migrate" /\ x.cred = c /\ x.journal = j
      /\ x.uid = FALSE /\ x.key = 0 /\ x.lease = None
      /\ x \in Processes
  BY <1>1 DEF Idle, NoSight, Processes, Sights, ToolSteps
<1>3. Becomes(p, x)
  OBVIOUS
<1> HIDE DEF x
<1>4. ToolProcess(x)
  BY <1>2 DEF ToolProcess, ToolSteps
<1>5. LocksFree(p, x) /\ LeaseFits(x)
  BY <1>2 DEF LocksFree, LeaseFits
<1> QED
  BY <1>3, <1>4, <1>5, ToolKeeps

LEMMA ToolNoted ==
  ASSUME NEW x \in Processes
  PROVE  /\ [x EXCEPT !.uid = TRUE, !.pc = "lockKey"] \in Processes
         /\ \A n \in Nat : [x EXCEPT !.key = n, !.pc = "scope"] \in Processes
         /\ \A r \in Record : [x EXCEPT !.lease = r, !.pc = "intent"] \in Processes
BY ZenonT(30) DEF Processes, ToolSteps

LEMMA LockUidKeeps == ASSUME IInv, NEW p \in Procs, LockUid(p) PROVE IInv'
<1> DEFINE x == [proc[p] EXCEPT !.uid = TRUE, !.pc = "lockKey"]
<1>1. proc[p] \in Processes
  BY DEF IInv, TypeOK
<1>2. /\ x.pc = "lockKey" /\ x.mode = proc[p].mode /\ x.cred = proc[p].cred
      /\ x.journal = proc[p].journal /\ x.fd = proc[p].fd
      /\ x.key = proc[p].key /\ x.lease = proc[p].lease
  BY <1>1 DEF Processes
<1>3. x \in Processes
  BY <1>1, ToolNoted
<1>4. Becomes(p, x) /\ UidFree(p) /\ proc[p].pc = "lock"
  BY DEF LockUid, Becomes
<1> HIDE DEF x
<1>5. ToolProcess(x)
  BY <1>2, <1>3, <1>4 DEF IInv, JobInv, ToolProcess, ToolSteps, Steps
<1>6. LocksFree(p, x)
  BY <1>2, <1>4 DEF IInv, KeyInv, LocksFree, UidFree
<1>7. LeaseFits(x)
  BY <1>2, <1>4 DEF IInv, LeaseInv, LeaseFits, Undecided
<1> QED
  BY <1>4, <1>5, <1>6, <1>7, ToolKeeps

LEMMA LockKeyKeeps == ASSUME IInv, NEW p \in Procs, LockKey(p) PROVE IInv'
<1> DEFINE x == [proc[p] EXCEPT !.key = lockFile, !.pc = "scope"]
<1>1. proc[p] \in Processes /\ lockFile \in Nat
  BY DEF IInv, TypeOK
<1>2. /\ x.pc = "scope" /\ x.mode = proc[p].mode /\ x.cred = proc[p].cred
      /\ x.journal = proc[p].journal /\ x.fd = proc[p].fd /\ x.uid = proc[p].uid
      /\ x.key = lockFile /\ x.lease = proc[p].lease
  BY <1>1 DEF Processes
<1>3. x \in Processes
  BY <1>1, ToolNoted
<1>4. Becomes(p, x) /\ KeyFree(p) /\ proc[p].pc = "lockKey"
  BY DEF LockKey, Becomes
<1> HIDE DEF x
<1>5. ToolProcess(x)
  BY <1>2, <1>3, <1>4 DEF IInv, JobInv, ToolProcess, ToolSteps, Steps
<1>6. LocksFree(p, x)
  BY <1>2, <1>4 DEF IInv, UidInv, LocksFree, KeyFree
<1>7. LeaseFits(x)
  BY <1>2, <1>4 DEF IInv, LeaseInv, LeaseFits, Undecided
<1> QED
  BY <1>4, <1>5, <1>6, <1>7, ToolKeeps

(* The record that an apply goes on with names its key and its journal.      *)
LEMMA ChooseKeeps ==
  ASSUME IInv, NEW p \in Procs, ChooseRecord(p), ResumedRecord(p) \in Record
  PROVE  IInv'
<1> DEFINE r == ResumedRecord(p)
           x == [proc[p] EXCEPT !.lease = r, !.pc = "intent"]
<1>1. proc[p] \in Processes /\ r \in Record
  BY DEF IInv, TypeOK
<1>2. Becomes(p, x) /\ proc[p].pc = "choose" /\ ValidRecord(r, proc[p].cred, proc[p].journal)
  BY DEF ChooseRecord, Choosable, Becomes
<1> HIDE DEF r
<1>3. /\ x.pc = "intent" /\ x.mode = proc[p].mode /\ x.cred = proc[p].cred
      /\ x.journal = proc[p].journal /\ x.fd = proc[p].fd /\ x.uid = proc[p].uid
      /\ x.key = proc[p].key /\ x.lease = r
  BY <1>1 DEF Processes
<1>4. x \in Processes
  BY <1>1, ToolNoted
<1> HIDE DEF x
<1>5. ToolProcess(x)
  BY <1>2, <1>3, <1>4 DEF IInv, JobInv, ToolProcess, ToolSteps, Steps
<1>6. LocksFree(p, x)
  BY <1>3 DEF IInv, UidInv, KeyInv, LocksFree
<1>7. LeaseFits(x)
  BY <1>2, <1>3 DEF LeaseFits, Undecided, ValidRecord
<1> QED
  BY <1>2, <1>5, <1>6, <1>7, ToolKeeps

(* The data of the migration: what the plans, copies and intents hold, and   *)
(* the journal that a plan or a process of the tool remembers has an inode   *)
(* that was given out.                                                       *)
File == [inode : Nat, rows : 0..MaxRows, contexts : BOOLEAN]
Plan == [cred : Creds, journal : Journals, file : File]
MigrationTypeOK ==
    /\ plans \in Seq(Plan) /\ Len(plans) <= MaxPlans
    /\ backup \in [1..MaxPlans -> Backup \cup {None}]
    /\ intent \in [Journals -> Intent \cup {None}]
    /\ tool \in [Procs -> [plan : 0..Len(plans), file : File, fresh : Nat]]

LEMMA PlanAdded ==
  ASSUME NEW S, NEW s \in Seq(S), NEW e \in S
  PROVE  /\ Append(s, e) \in Seq(S) /\ Len(Append(s, e)) = Len(s) + 1 /\ Len(s) \in Nat
         /\ \A n \in 1..Len(s) : Append(s, e)[n] = s[n]
         /\ Append(s, e)[Len(s) + 1] = e
OBVIOUS

(* The record of an apply is a record, be it resumed or from its own proof.  *)
LEMMA ResumedIsRecord ==
  ASSUME TypeOK, MigrationTypeOK, NEW p \in Procs, proc[p].cred \in Creds,
         proc[p].journal \in Journals
  PROVE  ResumedRecord(p) \in Record
<1>1. FreshRecord(p) \in Record
  BY DEF FreshRecord, Record, TypeOK, MigrationTypeOK
<1>2. ASSUME intent[proc[p].journal] # None PROVE intent[proc[p].journal].record \in Record
  BY <1>2 DEF MigrationTypeOK, Intent
<1> QED
  BY <1>1, <1>2 DEF ResumedRecord

(* A program without a lock changes no inode.                                *)
LEMMA ForeignWriteKeeps == ASSUME IInv, NEW j \in Journals, ForeignWrite(j) PROVE IInv'
<1>1. /\ journal[j] \in File /\ journal[j].rows < MaxRows
      /\ journal' = [journal EXCEPT ![j].rows = journal[j].rows + 1]
      /\ UNCHANGED <<lockFile, credBinding, credRegistry, acctBinding, acctRegistry, inodes,
                     proc, sent>>
      /\ faults < MaxFaults /\ faults' = faults + 1
  BY DEF IInv, TypeOK, ForeignWrite, Fault, File
<1>2. /\ journal' \in [Journals -> File]
      /\ \A i \in Journals : journal'[i].inode = journal[i].inode
  <2>1. [journal[j] EXCEPT !.rows = journal[j].rows + 1] \in File
    BY <1>1 DEF File
  <2>2. [journal[j] EXCEPT !.rows = journal[j].rows + 1].inode = journal[j].inode
    BY <1>1 DEF File
  <2>3. journal \in [Journals -> File]
    BY DEF IInv, TypeOK, File
  <2> QED
    BY <1>1, <2>1, <2>2, <2>3
<1>3. TypeOK'
  BY <1>1, <1>2 DEF IInv, TypeOK, File
<1>4. JobInv' /\ UidInv' /\ LeaseInv' /\ LedgerInv' /\ KeyInv'
  BY <1>1 DEF IInv, JobInv, UidInv, LeaseInv, LedgerInv, KeyInv
<1>5. InodeInv'
  BY <1>1, <1>2 DEF IInv, InodeInv
<1>6. RowInv'
  <2>1. \A q \in Procs : proc[q].mode = "account" /\ proc[q].pc \in Confirmed =>
          proc[q].journal \in Journals
    BY DEF IInv, JobInv, Confirmed
  <2> QED
    BY <1>1, <1>2, <2>1 DEF IInv, RowInv, Confirmed
<1> QED
  BY <1>3, <1>4, <1>5, <1>6 DEF IInv

(* The two owner records are published only where they do not exist.         *)
LEMMA PublishOwnerKeeps == ASSUME IInv, NEW p \in Procs, PublishOwner(p) PROVE IInv'
<1>1. /\ proc[p].pc = "putOwner" /\ Goto(p, "binding")
      /\ acctRegistry \in {None, proc[p].lease} /\ acctRegistry' = proc[p].lease
      /\ UNCHANGED <<lockFile, journal, credBinding, credRegistry, acctBinding, inodes, sent,
                     faults>>
  BY DEF PublishOwner
<1>2. proc[p] \in Processes /\ proc \in [Procs -> Processes] /\ TypeOK
  BY DEF IInv, TypeOK
<1>3. /\ \A q \in Procs : q # p => proc'[q] = proc[q]
      /\ proc'[p] = [proc[p] EXCEPT !.pc = "binding"]
  BY <1>1, <1>2
<1>4. /\ proc'[p].pc = "binding" /\ proc'[p].mode = proc[p].mode /\ proc'[p].cred = proc[p].cred
      /\ proc'[p].journal = proc[p].journal /\ proc'[p].fd = proc[p].fd
      /\ proc'[p].uid = proc[p].uid /\ proc'[p].key = proc[p].key
      /\ proc'[p].lease = proc[p].lease /\ proc'[p].row = proc[p].row
  BY <1>2, <1>3 DEF Processes
<1>5. /\ "binding" \in ToolSteps /\ "putOwner" \notin Steps /\ "binding" \notin Steps
      /\ "binding" \notin Registered \cup Confirmed \cup Taken
      /\ "binding" # "idle"
      /\ "binding" \notin {"uid", "inspect", "record", "publish", "sidecar", "confirm"}
      /\ "idle" \in Steps /\ "link" \in Steps /\ "create" \in Steps /\ "register" \in Steps
  BY DEF ToolSteps, Steps, Registered, Confirmed, Taken
<1>6. proc[p].mode = "migrate" /\ proc[p].cred \in Creds /\ proc[p].journal \in Journals
  BY <1>1, <1>5 DEF IInv, JobInv
<1>7. TypeOK'
  <2>1. proc' \in [Procs -> Processes]
    BY <1>1, <1>2, <1>5, Moved
  <2>2. acctRegistry' \in Record \cup {None}
    BY <1>1, <1>2 DEF Processes
  <2> QED
    BY <1>1, <1>2, <2>1, <2>2 DEF TypeOK
<1>8. JobInv'
  <2>1. proc'[p].mode = "migrate" /\ proc'[p].cred \in Creds /\ proc'[p].journal \in Journals
    BY <1>4, <1>6
  <2>2. \A q \in Procs \ {p} : proc'[q] = proc[q]
    BY <1>3
  <2> QED
    BY <1>4, <1>5, <2>1, <2>2 DEF IInv, JobInv
<1>9. UidInv' /\ InodeInv'
  BY <1>1, <1>3, <1>4, <1>6 DEF IInv, UidInv, InodeInv
<1>10. LeaseInv'
  <2>1. ASSUME NEW q \in Procs
        PROVE  /\ proc'[q].lease # None =>
                    /\ proc'[q].lease.cred = proc'[q].cred
                    /\ proc'[q].lease.journal = proc'[q].journal
                    /\ proc'[q].pc \notin {"publish"} \cup Undecided => acctRegistry' = proc'[q].lease
               /\ proc'[q].mode = "account" /\ proc'[q].pc \in Registered \ {"record"}
                    => proc'[q].lease # None
    <3>1. CASE q = p
      BY <1>1, <1>4, <1>6, <3>1 DEF IInv, LeaseInv
    <3>2. CASE q # p
      BY <1>1, <1>3, <3>2 DEF IInv, LeaseInv
    <3> QED
      BY <3>1, <3>2
  <2> QED
    BY <2>1 DEF LeaseInv
<1>11. RowInv'
  BY <1>1, <1>3, <1>4, <1>6 DEF IInv, RowInv
<1>12. LedgerInv'
  BY <1>1 DEF IInv, LedgerInv
<1>13. KeyInv'
  BY <1>1, <1>3, <1>4, <1>5 DEF IInv, KeyInv
<1> QED
  BY <1>7, <1>8, <1>9, <1>10, <1>11, <1>12, <1>13 DEF IInv

LEMMA OwnerBindingKeeps == ASSUME IInv, NEW p \in Procs, PublishOwnerBinding(p) PROVE IInv'
<1> DEFINE x == [proc[p] EXCEPT !.pc = "after"]
<1>1. /\ proc[p].pc = "putBinding" /\ Goto(p, "after")
      /\ acctBinding' = [acctBinding EXCEPT ![proc[p].journal] = proc[p].lease]
      /\ UNCHANGED <<lockFile, journal, credBinding, credRegistry, acctRegistry, inodes, sent,
                     faults>>
  BY DEF PublishOwnerBinding
<1>2. proc[p] \in Processes /\ proc \in [Procs -> Processes] /\ TypeOK
  BY DEF IInv, TypeOK
<1>3. /\ \A q \in Procs : q # p => proc'[q] = proc[q]
      /\ proc'[p] = [proc[p] EXCEPT !.pc = "after"]
  BY <1>1, <1>2
<1>4. /\ proc'[p].pc = "after" /\ proc'[p].mode = proc[p].mode /\ proc'[p].cred = proc[p].cred
      /\ proc'[p].journal = proc[p].journal /\ proc'[p].fd = proc[p].fd
      /\ proc'[p].uid = proc[p].uid /\ proc'[p].key = proc[p].key
      /\ proc'[p].lease = proc[p].lease /\ proc'[p].row = proc[p].row
  BY <1>2, <1>3 DEF Processes
<1>5. /\ "after" \in ToolSteps /\ "putBinding" \notin Steps /\ "after" \notin Steps
      /\ "after" \notin Registered \cup Confirmed \cup Taken
      /\ "after" # "idle"
      /\ "after" \notin {"uid", "inspect", "record", "publish", "sidecar", "confirm"}
      /\ "putBinding" \notin {"publish"} \cup Undecided
      /\ "idle" \in Steps /\ "link" \in Steps /\ "create" \in Steps /\ "register" \in Steps
  BY DEF ToolSteps, Steps, Registered, Confirmed, Taken, Undecided
<1>6. proc[p].mode = "migrate" /\ proc[p].cred \in Creds /\ proc[p].journal \in Journals
  BY <1>1, <1>5 DEF IInv, JobInv
<1>7. TypeOK'
  <2>1. proc' \in [Procs -> Processes]
    BY <1>1, <1>2, <1>5, Moved
  <2>2. acctBinding' \in [Journals -> Record \cup {None}]
    BY <1>1, <1>2 DEF TypeOK, Processes
  <2> QED
    BY <1>1, <1>2, <2>1, <2>2 DEF TypeOK
<1>8. JobInv'
  <2>1. proc'[p].mode = "migrate" /\ proc'[p].cred \in Creds /\ proc'[p].journal \in Journals
    BY <1>4, <1>6
  <2>2. \A q \in Procs \ {p} : proc'[q] = proc[q]
    BY <1>3
  <2> QED
    BY <1>4, <1>5, <2>1, <2>2 DEF IInv, JobInv
<1>9. UidInv' /\ InodeInv'
  BY <1>1, <1>3, <1>4, <1>6 DEF IInv, UidInv, InodeInv
<1>10. LeaseInv'
  BY <1>1, <1>3, <1>4, <1>5, <1>6 DEF IInv, LeaseInv
<1>11. RowInv'
  BY <1>1, <1>3, <1>4, <1>6 DEF IInv, RowInv
<1>12. LedgerInv'
  BY <1>1 DEF IInv, LedgerInv
<1>13. KeyInv'
  BY <1>1, <1>3, <1>4, <1>5 DEF IInv, KeyInv
<1> QED
  BY <1>7, <1>8, <1>9, <1>10, <1>11, <1>12, <1>13 DEF IInv

LEMMA NextKeeps == ASSUME IInv, [Next]_vars PROVE IInv'
BY TypeOKStep, JobInvStep, UidInvStep, InodeInvStep, LeaseInvStep, RowInvStep, LedgerInvStep,
   KeyInvStep DEF IInv

LEMMA MigrationKeeps == ASSUME IInv, MigrationTypeOK, [MigrationNext]_allVars PROVE IInv'
<1>1. CASE UNCHANGED allVars
  BY <1>1, NextKeeps DEF allVars
<1>2. CASE Outside /\ UNCHANGED migration
  BY <1>2, NextKeeps DEF Next
<1>3. ASSUME NEW j \in Journals, ForeignWrite(j) PROVE IInv'
  BY <1>3, ForeignWriteKeeps
<1>4. ASSUME NEW p \in Procs, Executor(p) PROVE IInv'
  BY <1>4, NextKeeps DEF Executor, Next
<1>5. ASSUME NEW p \in Procs, NEW c \in Creds, NEW j \in Journals, StartPrepare(p, c, j)
      PROVE  IInv'
  BY <1>5, StartKeeps DEF StartPrepare, Becomes
<1>6. ASSUME NEW p \in Procs, NEW n \in 1..MaxPlans, StartApply(p, n) PROVE IInv'
  <2>1. plans[n] \in Plan
    BY <1>6 DEF StartApply, MigrationTypeOK
  <2>2. plans[n].cred \in Creds /\ plans[n].journal \in Journals
    BY <2>1 DEF Plan
  <2> QED
    BY <1>6, <2>2, StartKeeps DEF StartApply, Becomes
<1>7. ASSUME NEW p \in Procs, LockUid(p) PROVE IInv'
  BY <1>7, LockUidKeeps
<1>8. ASSUME NEW p \in Procs, LockKey(p) PROVE IInv'
  BY <1>8, LockKeyKeeps
<1>9. ASSUME NEW p \in Procs, NEW step \in ToolSteps, NEW last \in ToolSteps,
             At(p, last), Goto(p, step), UNCHANGED <<files, sent, faults>>,
             last \in {"publish"} \cup Undecided => step \in Undecided
      PROVE  IInv'
  <2>1. last \notin {"publish"} \cup Undecided /\ proc[p].lease # None
          => acctRegistry = proc[p].lease
    BY <1>9 DEF IInv, LeaseInv
  <2> QED
    BY <1>9, <2>1, MoveKeeps
<1>10. ASSUME NEW p \in Procs, Snapshot(p) PROVE IInv'
  <2>1. PICK last \in {"reviewed", "observed", "intent", "owner", "binding", "after"} :
          At(p, last) /\ Goto(p, Checked[last]) /\ UNCHANGED <<files, sent, faults>>
    BY <1>10 DEF Snapshot, Checked
  <2>2. /\ last \in ToolSteps /\ Checked[last] \in ToolSteps
        /\ last \in {"publish"} \cup Undecided => Checked[last] \in Undecided
    BY <2>1 DEF Checked, ToolSteps, Undecided
  <2> QED
    BY <1>9, <2>1, <2>2
<1>11. ASSUME NEW p \in Procs, Review(p) PROVE IInv'
  BY <1>9, <1>11 DEF Review, InScope, ToolSteps, Undecided
<1>12. ASSUME NEW p \in Procs, PublishPlan(p) PROVE IInv'
  BY <1>9, <1>12 DEF PublishPlan, ToolSteps, Undecided
<1>13. ASSUME NEW p \in Procs, Observe(p) PROVE IInv'
  BY <1>9, <1>13 DEF Observe, InScope, ToolSteps, Undecided
<1>14. ASSUME NEW p \in Procs, PublishBackup(p) PROVE IInv'
  BY <1>9, <1>14 DEF PublishBackup, ToolSteps, Undecided
<1>15. ASSUME NEW p \in Procs, UnlinkTemporary(p) PROVE IInv'
  BY <1>9, <1>15 DEF UnlinkTemporary, ToolSteps, Undecided
<1>16. ASSUME NEW p \in Procs, ChooseRecord(p) PROVE IInv'
  <2>1. "choose" \notin Steps
    BY DEF Steps
  <2>2. proc[p].cred \in Creds /\ proc[p].journal \in Journals
    BY <1>16, <2>1 DEF IInv, JobInv, ChooseRecord, Steps
  <2> QED
    BY <1>16, <2>2, ResumedIsRecord, ChooseKeeps DEF IInv
<1>17. ASSUME NEW p \in Procs, PublishIntent(p) PROVE IInv'
  BY <1>9, <1>17 DEF PublishIntent, ToolSteps, Undecided
<1>18. ASSUME NEW p \in Procs, PublishOwner(p) PROVE IInv'
  BY <1>18, PublishOwnerKeeps
<1>19. ASSUME NEW p \in Procs, PublishOwnerBinding(p) PROVE IInv'
  BY <1>19, OwnerBindingKeeps
<1>20. ASSUME NEW p \in Procs, EndTool(p) PROVE IInv'
  BY <1>20, NextKeeps DEF EndTool, Next, Lease
<1> QED
  BY <1>1, <1>2, <1>3, <1>4, <1>5, <1>6, <1>7, <1>8, <1>10, <1>11, <1>12, <1>13, <1>14, <1>15,
     <1>16, <1>17, <1>18, <1>19, <1>20 DEF MigrationNext, Tool, Apply

-----------------------------------------------------------------------------
(* What an apply has behind it at each step.                                 *)

Observed == {"observed", "copy", "unlink", "choose", "intent", "putIntent", "owner", "putOwner",
             "binding", "putBinding", "after"}
Chosen == {"intent", "putIntent", "owner", "putOwner", "binding", "putBinding", "after"}
Pinned == {"owner", "putOwner", "binding", "putBinding", "after"}

Copied(n) == backup[n] = [rows |-> plans[n].file.rows, links |-> 1]
SameFile(p) == proc[p].lease.inode = tool[p].file.inode

\* The record is of the file that was reviewed, or the journal has been replaced
\* since, and then the next look at it refuses.
ToolOK(p) ==
    /\ proc[p].mode # "migrate" \/ proc[p].pc = "idle" => tool[p] = NoTool
    /\ tool[p].plan # 0 => proc[p].cred = PlanOf(p).cred /\ proc[p].journal = PlanOf(p).journal
    /\ proc[p].pc \in {"reviewed", "plan"} => tool[p].plan = 0 /\ tool[p].file.inode \in 1..inodes
    /\ proc[p].pc \in Observed => tool[p].plan # 0 /\ tool[p].file = PlanOf(p).file
    /\ proc[p].pc = "unlink" => backup[tool[p].plan] # None
    /\ proc[p].pc \in Chosen =>
         /\ proc[p].lease # None /\ Copied(tool[p].plan)
         /\ SameFile(p) \/ journal[proc[p].journal].inode # tool[p].file.inode
    /\ proc[p].pc \in Chosen \ {"intent"} => SameFile(p)
    /\ proc[p].pc \in Pinned =>
         intent[proc[p].journal] = [plan |-> tool[p].plan, record |-> proc[p].lease]

PlanInv == \A n \in 1..Len(plans) : plans[n].file.inode \in 1..inodes
ToolInv == \A p \in Procs : ToolOK(p)

\* An intent names a plan of its journal, a copy of what the plan reviewed, and
\* an owner record of the key and the file of the plan.
IntentInv ==
    \A j \in Journals : intent[j] # None =>
        LET n == intent[j].plan
            r == intent[j].record
        IN  /\ n \in 1..Len(plans) /\ plans[n].journal = j /\ Copied(n)
            /\ r.cred = plans[n].cred /\ r.journal = j /\ r.inode = plans[n].file.inode

MigrationInv == MigrationTypeOK /\ PlanInv /\ ToolInv /\ IntentInv

-----------------------------------------------------------------------------
(* What no step takes back: plans, finished copies and intents stay, and a   *)
(* journal gets an inode that no plan knows.                                 *)

PlansKept == Len(plans) <= Len(plans)' /\ \A n \in 1..Len(plans) : plans'[n] = plans[n]
CopiesKept ==
    \A n \in 1..MaxPlans : backup[n] # None =>
        backup'[n] # None /\ (backup[n].links = 1 => backup'[n] = backup[n])
IntentsKept == \A j \in Journals : Kept(intent[j], intent'[j])
JournalsMove ==
    /\ inodes' \in Nat /\ inodes <= inodes'
    /\ \A j \in Journals :
         journal'[j].inode \in {journal[j].inode, 0} \/ journal'[j].inode > inodes
Frame == PlansKept /\ CopiesKept /\ IntentsKept /\ JournalsMove

LEMMA MigrationStays == UNCHANGED migration => PlansKept /\ CopiesKept /\ IntentsKept
BY DEF migration, PlansKept, CopiesKept, IntentsKept, Kept

LEMMA FilesStay == ASSUME TypeOK, UNCHANGED <<journal, inodes>> PROVE JournalsMove
BY DEF TypeOK, JournalsMove

LEMMA ExecutorFrame == ASSUME IInv, NEW p \in Procs, Executor(p) PROVE Frame
<1>1. PlansKept /\ CopiesKept /\ IntentsKept
  BY MigrationStays DEF Executor
<1>2. TypeOK
  BY DEF IInv
<1>3. JournalsMove
  <2>1. CASE CreateJournal(p)
    <3>1. proc[p].journal \in Journals
      BY <2>1 DEF IInv, JobInv, CreateJournal, Steps
    <3>2. /\ journal' = [journal EXCEPT ![proc[p].journal] = Created(proc[p].journal)]
          /\ inodes' = IF journal'[proc[p].journal].inode > inodes
                         THEN journal'[proc[p].journal].inode ELSE inodes
      BY <2>1 DEF CreateJournal
    <3>3. /\ journal[proc[p].journal] \in File /\ inodes \in Nat
          /\ journal \in [Journals -> File]
      BY <1>2, <3>1 DEF TypeOK, File
    <3>4. /\ Created(proc[p].journal).inode \in {journal[proc[p].journal].inode, inodes + 1}
          /\ Created(proc[p].journal).inode \in Nat
      BY <3>3 DEF Created, NewJournal, File
    <3> QED
      BY <3>1, <3>2, <3>3, <3>4 DEF JournalsMove
  <2>2. CASE Prepare(p)
    BY <1>2, <2>2 DEF Prepare, JournalsMove, TypeOK
  <2>3. CASE UNCHANGED <<journal, inodes>>
    BY <1>2, <2>3, FilesStay
  <2>4. CreateJournal(p) \/ Prepare(p) \/ UNCHANGED <<journal, inodes>>
    BY DEF Executor, Lease, Start, TakeUid, InspectKnown, InspectFresh, TakeKey, CheckBinding,
       LinkBinding, Register, NewRecord, PublishRegistry, PublishBinding, Confirm, AssertHeld,
       Send, End
  <2> QED
    BY <2>1, <2>2, <2>3, <2>4
<1> QED
  BY <1>1, <1>3 DEF Frame

LEMMA OutsideFrame == ASSUME IInv, Outside, UNCHANGED migration PROVE Frame
<1>1. PlansKept /\ CopiesKept /\ IntentsKept
  BY MigrationStays
<1>2. JournalsMove
  BY DEF Outside, ReplaceLocks, ReplaceJournal, LoseJournal, LoseSidecar, JournalsMove, IInv,
     TypeOK, Missing
<1> QED
  BY <1>1, <1>2 DEF Frame

LEMMA ForeignFrame == ASSUME IInv, NEW j \in Journals, ForeignWrite(j) PROVE Frame
<1>1. PlansKept /\ CopiesKept /\ IntentsKept
  BY MigrationStays DEF ForeignWrite
<1>2. JournalsMove
  BY DEF ForeignWrite, JournalsMove, IInv, TypeOK
<1> QED
  BY <1>1, <1>2 DEF Frame

LEMMA ToolFrame == ASSUME IInv, MigrationInv, NEW p \in Procs, Tool(p) PROVE Frame
<1>1. JournalsMove
  <2>1. UNCHANGED <<journal, inodes>>
    BY DEF Tool, Apply, StartPrepare, StartApply, LockUid, LockKey, Snapshot, Review, PublishPlan,
       Observe, PublishBackup, UnlinkTemporary, ChooseRecord, PublishIntent, PublishOwner,
       PublishOwnerBinding, EndTool, End
  <2> QED
    BY <2>1, FilesStay DEF IInv
<1>2. PlansKept
  <2>1. CASE PublishPlan(p)
    <3> DEFINE e == [cred |-> proc[p].cred, journal |-> proc[p].journal, file |-> tool[p].file]
    <3>1. plans' = Append(plans, e) /\ plans \in Seq(Plan)
      BY <2>1 DEF PublishPlan, MigrationInv, MigrationTypeOK
    <3>2. Len(plans)' = Len(plans) + 1 /\ \A n \in 1..Len(plans) : plans'[n] = plans[n]
      BY <3>1
    <3> QED
      BY <3>1, <3>2 DEF PlansKept
  <2>2. CASE UNCHANGED plans
    BY <2>2 DEF PlansKept, MigrationInv, MigrationTypeOK
  <2>3. PublishPlan(p) \/ UNCHANGED plans
    BY DEF Tool, Apply, StartPrepare, StartApply, LockUid, LockKey, Snapshot, Review,
       Observe, PublishBackup, UnlinkTemporary, ChooseRecord, PublishIntent, PublishOwner,
       PublishOwnerBinding, EndTool, migration
  <2> QED
    BY <2>1, <2>2, <2>3
<1>3. CopiesKept
  <2>1. CASE PublishBackup(p)
    BY <2>1 DEF PublishBackup, CopiesKept, MigrationInv, MigrationTypeOK
  <2>2. CASE UnlinkTemporary(p)
    <3> DEFINE n == tool[p].plan
    <3>1. n \in 1..MaxPlans /\ backup[n] # None
      <4>1. proc[p].pc = "unlink" /\ ToolOK(p)
        BY <2>2 DEF UnlinkTemporary, MigrationInv, ToolInv
      <4>2. n # 0 /\ backup[n] # None
        BY <4>1 DEF ToolOK, Observed
      <4>3. tool[p] \in [plan : 0..Len(plans), file : File, fresh : Nat] /\ Len(plans) <= MaxPlans
        BY DEF MigrationInv, MigrationTypeOK
      <4>4. MaxPlans \in Nat /\ Len(plans) \in Nat
        BY ProofAssumption DEF MigrationInv, MigrationTypeOK
      <4> QED
        BY <4>2, <4>3, <4>4
    <3>2. backup[n] \in Backup
      BY <3>1 DEF MigrationInv, MigrationTypeOK
    <3>3. /\ [backup[n] EXCEPT !.links = 1] \in Backup
          /\ backup[n].links = 1 => [backup[n] EXCEPT !.links = 1] = backup[n]
      BY <3>2 DEF Backup
    <3>4. backup' = [backup EXCEPT ![n] = [backup[n] EXCEPT !.links = 1]]
      BY <2>2 DEF UnlinkTemporary
    <3>5. [backup[n] EXCEPT !.links = 1] # None
      BY <3>3, MissingAssumption
    <3> HIDE DEF n
    <3> QED
      BY <3>1, <3>3, <3>4, <3>5 DEF CopiesKept, MigrationInv, MigrationTypeOK
  <2>3. CASE UNCHANGED backup
    BY <2>3 DEF CopiesKept
  <2>4. PublishBackup(p) \/ UnlinkTemporary(p) \/ UNCHANGED backup
    BY DEF Tool, Apply, StartPrepare, StartApply, LockUid, LockKey, Snapshot, Review, PublishPlan,
       Observe, ChooseRecord, PublishIntent, PublishOwner, PublishOwnerBinding, EndTool, migration
  <2> QED
    BY <2>1, <2>2, <2>3, <2>4
<1>4. IntentsKept
  <2>1. CASE PublishIntent(p)
    BY <2>1 DEF PublishIntent, IntentsKept, Kept, MigrationInv, MigrationTypeOK
  <2>2. CASE UNCHANGED intent
    BY <2>2 DEF IntentsKept, Kept
  <2>3. PublishIntent(p) \/ UNCHANGED intent
    BY DEF Tool, Apply, StartPrepare, StartApply, LockUid, LockKey, Snapshot, Review, PublishPlan,
       Observe, PublishBackup, UnlinkTemporary, ChooseRecord, PublishOwner,
       PublishOwnerBinding, EndTool, migration
  <2> QED
    BY <2>1, <2>2, <2>3
<1> QED
  BY <1>1, <1>2, <1>3, <1>4 DEF Frame

LEMMA FrameStep == ASSUME IInv, MigrationInv, [MigrationNext]_allVars PROVE Frame
<1>1. CASE UNCHANGED allVars
  <2>1. UNCHANGED migration /\ UNCHANGED <<journal, inodes>>
    BY <1>1 DEF allVars, vars
  <2> QED
    BY <2>1, MigrationStays, FilesStay DEF Frame, IInv
<1> QED
  BY <1>1, ExecutorFrame, OutsideFrame, ForeignFrame, ToolFrame DEF MigrationNext

-----------------------------------------------------------------------------
(* The four parts of the invariant, step by step.                            *)

LEMMA MigrationInitially == MigrationInit => MigrationInv
<1> SUFFICES ASSUME MigrationInit PROVE MigrationInv
  OBVIOUS
<1> USE DEF MigrationInit
<1>1. plans \in Seq(Plan) /\ Len(plans) = 0
  OBVIOUS
<1>2. NoTool \in [plan : 0..Len(plans), file : File, fresh : Nat]
  BY <1>1 DEF NoTool, File, Missing
<1>3. MigrationTypeOK
  BY <1>1, <1>2, ProofAssumption DEF MigrationTypeOK
<1>4. PlanInv /\ IntentInv
  BY <1>1 DEF PlanInv, IntentInv
<1>5. ToolInv
  <2>1. \A p \in Procs : tool[p] = NoTool /\ proc[p].pc = "idle"
    BY DEF Init, Idle
  <2>2. NoTool.plan = 0
    BY DEF NoTool
  <2> QED
    BY <2>1, <2>2 DEF ToolInv, ToolOK, Observed, Chosen, Pinned
<1> QED
  BY <1>3, <1>4, <1>5 DEF MigrationInv

(* What a step of the tool may set its own entry to.                         *)
LEMMA ToolTyped ==
  ASSUME MigrationTypeOK, NEW p \in Procs
  PROVE  /\ NoTool \in [plan : 0..Len(plans), file : File, fresh : Nat]
         /\ \A n \in 0..Len(plans) :
              [tool[p] EXCEPT !.plan = n] \in [plan : 0..Len(plans), file : File, fresh : Nat]
         /\ \A f \in File :
              [tool[p] EXCEPT !.file = f] \in [plan : 0..Len(plans), file : File, fresh : Nat]
         /\ \A f \in File, k \in Nat :
              [tool[p] EXCEPT !.file = f, !.fresh = k]
                \in [plan : 0..Len(plans), file : File, fresh : Nat]
<1>1. tool[p] \in [plan : 0..Len(plans), file : File, fresh : Nat]
  BY DEF MigrationTypeOK
<1>2. NoTool \in [plan : 0..Len(plans), file : File, fresh : Nat]
  BY DEF NoTool, File, Missing, MigrationTypeOK
<1> QED
  BY <1>1, <1>2

LEMMA MigrationTypeStep ==
  ASSUME IInv, MigrationInv, [MigrationNext]_allVars PROVE MigrationTypeOK'
<1> DEFINE Tools == [plan : 0..Len(plans), file : File, fresh : Nat]
<1>1. MigrationTypeOK /\ TypeOK /\ Len(plans) \in Nat /\ MaxPlans \in Nat
  BY ProofAssumption DEF MigrationInv, MigrationTypeOK, IInv
<1>2. CASE UNCHANGED migration
  BY <1>1, <1>2 DEF MigrationTypeOK, migration
<1>3. ASSUME NEW p \in Procs, NEW t \in Tools, tool' = [tool EXCEPT ![p] = t],
             UNCHANGED <<plans, backup, intent>>
      PROVE  MigrationTypeOK'
  BY <1>1, <1>3 DEF MigrationTypeOK
<1>4. ASSUME NEW p \in Procs, NEW n \in 1..MaxPlans, StartApply(p, n) PROVE MigrationTypeOK'
  <2>1. n \in 0..Len(plans)
    BY <1>1, <1>4 DEF StartApply, MigrationTypeOK
  <2>2. tool' = [tool EXCEPT ![p] = [tool[p] EXCEPT !.plan = n]]
    BY <1>4 DEF StartApply
  <2> QED
    BY <1>1, <1>3, <1>4, <2>1, <2>2, ToolTyped DEF StartApply
<1>5. ASSUME NEW p \in Procs, Review(p) PROVE MigrationTypeOK'
  <2>1. proc[p].journal \in Journals
    BY <1>5 DEF Review, InScope, IInv, JobInv
  <2>2. journal[proc[p].journal] \in File
    BY <1>1, <2>1 DEF TypeOK, File
  <2>3. tool' = [tool EXCEPT ![p] = [tool[p] EXCEPT !.file = journal[proc[p].journal]]]
    BY <1>5 DEF Review
  <2>4. UNCHANGED <<plans, backup, intent>>
    BY <1>5 DEF Review
  <2>5. [tool[p] EXCEPT !.file = journal[proc[p].journal]] \in Tools
    BY <1>1, <2>2, ToolTyped
  <2> QED
    BY <1>3, <2>3, <2>4, <2>5
<1>6. ASSUME NEW p \in Procs, Observe(p) PROVE MigrationTypeOK'
  <2>1. PICK f \in Proofs :
          tool' = [tool EXCEPT ![p] = [tool[p] EXCEPT !.file = PlanOf(p).file, !.fresh = f]]
    BY <1>6 DEF Observe
  <2>2. f \in Nat
    BY ProofAssumption
  <2>3. tool[p] \in Tools /\ tool[p].plan # 0
    BY <1>1, <1>6 DEF Observe, MigrationTypeOK
  <2>4. PlanOf(p) \in Plan
    BY <1>1, <2>3 DEF PlanOf, MigrationTypeOK
  <2>5. PlanOf(p).file \in File
    BY <2>4 DEF Plan
  <2>6. [tool[p] EXCEPT !.file = PlanOf(p).file, !.fresh = f] \in Tools
    BY <1>1, <2>2, <2>5, ToolTyped
  <2> QED
    BY <1>3, <1>6, <2>1, <2>6 DEF Observe
<1>7. ASSUME NEW p \in Procs, PublishPlan(p) PROVE MigrationTypeOK'
  <2> DEFINE e == [cred |-> proc[p].cred, journal |-> proc[p].journal, file |-> tool[p].file]
  <2>1. proc[p].cred \in Creds /\ proc[p].journal \in Journals
    BY <1>7 DEF PublishPlan, IInv, JobInv
  <2>2. e \in Plan
    <3>1. tool[p].file \in File
      BY <1>1 DEF MigrationTypeOK
    <3> QED
      BY <2>1, <3>1 DEF Plan
  <2>3. plans' = Append(plans, e) /\ Len(plans) < MaxPlans /\ UNCHANGED <<backup, intent, tool>>
    BY <1>7 DEF PublishPlan
  <2> HIDE DEF e
  <2>4. plans' \in Seq(Plan) /\ Len(plans') = Len(plans) + 1
    BY <1>1, <2>2, <2>3 DEF MigrationTypeOK
  <2>5. 0..Len(plans) \subseteq 0..Len(plans')
    BY <1>1, <2>4
  <2>6. tool' \in [Procs -> [plan : 0..Len(plans'), file : File, fresh : Nat]]
    BY <1>1, <2>3, <2>5 DEF MigrationTypeOK
  <2> QED
    BY <1>1, <2>3, <2>4, <2>6 DEF MigrationTypeOK
<1>8. ASSUME NEW n, NEW copy \in Backup, backup' = [backup EXCEPT ![n] = copy],
             UNCHANGED <<plans, intent, tool>>
      PROVE  MigrationTypeOK'
  BY <1>1, <1>8 DEF MigrationTypeOK
<1>9. ASSUME NEW p \in Procs, PublishBackup(p) PROVE MigrationTypeOK'
  <2>1. CASE UNCHANGED backup
    BY <1>1, <1>9, <2>1 DEF PublishBackup, MigrationTypeOK
  <2>2. CASE backup' = [backup EXCEPT ![tool[p].plan] =
                          [rows |-> journal[proc[p].journal].rows, links |-> 2]]
    <3>1. proc[p].journal \in Journals
      BY <1>9 DEF PublishBackup, IInv, JobInv
    <3>2. [rows |-> journal[proc[p].journal].rows, links |-> 2] \in Backup
      BY <1>1, <3>1 DEF TypeOK, Backup
    <3> QED
      BY <1>8, <1>9, <2>2, <3>2 DEF PublishBackup
  <2> QED
    BY <1>9, <2>1, <2>2 DEF PublishBackup
<1>10. ASSUME NEW p \in Procs, UnlinkTemporary(p) PROVE MigrationTypeOK'
  <2>1. proc[p].pc = "unlink" /\ ToolOK(p)
    BY <1>10 DEF UnlinkTemporary, MigrationInv, ToolInv
  <2>2. tool[p].plan # 0 /\ backup[tool[p].plan] # None
    BY <2>1 DEF ToolOK, Observed
  <2>3. tool[p] \in Tools /\ Len(plans) <= MaxPlans
    BY <1>1 DEF MigrationTypeOK
  <2>4. backup[tool[p].plan] \in Backup
    BY <1>1, <2>2, <2>3 DEF MigrationTypeOK
  <2>5. [backup[tool[p].plan] EXCEPT !.links = 1] \in Backup
    BY <2>4 DEF Backup
  <2>6. backup' = [backup EXCEPT ![tool[p].plan] = [backup[tool[p].plan] EXCEPT !.links = 1]]
    BY <1>10 DEF UnlinkTemporary
  <2> QED
    BY <1>8, <1>10, <2>5, <2>6 DEF UnlinkTemporary
<1>11. ASSUME NEW p \in Procs, PublishIntent(p) PROVE MigrationTypeOK'
  <2> DEFINE new == [plan |-> tool[p].plan, record |-> proc[p].lease]
  <2>1. proc[p].lease # None
    BY <1>11 DEF PublishIntent, MigrationInv, ToolInv, ToolOK, Chosen
  <2>2. proc[p].lease \in Record
    <3>1. proc[p] \in Processes
      BY <1>1 DEF TypeOK
    <3> QED
      BY <2>1, <3>1 DEF Processes
  <2>3. new \in Intent
    BY <1>1, <2>2 DEF Intent, MigrationTypeOK
  <2>4. intent' = [intent EXCEPT ![proc[p].journal] = new] /\ UNCHANGED <<plans, backup, tool>>
    BY <1>11 DEF PublishIntent
  <2> HIDE DEF new
  <2> QED
    BY <1>1, <2>3, <2>4 DEF MigrationTypeOK
<1>12. ASSUME NEW p \in Procs, EndTool(p) PROVE MigrationTypeOK'
  BY <1>1, <1>3, <1>12, ToolTyped DEF EndTool
<1>13. CASE UNCHANGED allVars
  BY <1>2, <1>13 DEF allVars
<1>14. ASSUME NEW p \in Procs, Executor(p) PROVE MigrationTypeOK'
  BY <1>2, <1>14 DEF Executor
<1>15. ASSUME NEW j \in Journals, ForeignWrite(j) PROVE MigrationTypeOK'
  BY <1>2, <1>15 DEF ForeignWrite
<1>16. ASSUME NEW p \in Procs, Tool(p) PROVE MigrationTypeOK'
  <2>1. \/ UNCHANGED migration \/ Review(p) \/ PublishPlan(p) \/ EndTool(p)
        \/ \E n \in 1..MaxPlans : StartApply(p, n)
        \/ Observe(p) \/ PublishBackup(p) \/ UnlinkTemporary(p) \/ PublishIntent(p)
    BY <1>16 DEF Tool, Apply, StartPrepare, LockUid, LockKey, Snapshot, ChooseRecord, PublishOwner,
       PublishOwnerBinding
  <2> QED
    BY <1>2, <1>4, <1>5, <1>6, <1>7, <1>9, <1>10, <1>11, <1>12, <2>1
<1> QED
  BY <1>2, <1>13, <1>14, <1>15, <1>16 DEF MigrationNext

(* A plan remembers the inode of a file that was there.                      *)
LEMMA PlanStep == ASSUME IInv, MigrationInv, Frame, [MigrationNext]_allVars PROVE PlanInv'
<1>1. /\ MigrationTypeOK /\ PlanInv /\ PlansKept /\ Len(plans) \in Nat
      /\ inodes \in Nat /\ inodes' \in Nat /\ inodes <= inodes'
  BY DEF MigrationInv, Frame, JournalsMove, MigrationTypeOK, IInv, TypeOK
<1>2. CASE \E p \in Procs : PublishPlan(p)
  <2>1. PICK p \in Procs : PublishPlan(p)
    BY <1>2
  <2> DEFINE e == [cred |-> proc[p].cred, journal |-> proc[p].journal, file |-> tool[p].file]
  <2>2. tool[p].file.inode \in 1..inodes /\ inodes' = inodes
    BY <2>1 DEF PublishPlan, MigrationInv, ToolInv, ToolOK
  <2>3. plans' = Append(plans, e) /\ plans \in Seq(Plan)
    BY <1>1, <2>1 DEF PublishPlan, MigrationTypeOK
  <2>4. e.file.inode \in 1..inodes
    BY <2>2
  <2> HIDE DEF e
  <2>5. \A n \in 1..Len(plans') : n \in 1..Len(plans) \/ plans'[n] = e
    BY <2>3
  <2> QED
    BY <1>1, <2>2, <2>4, <2>5 DEF PlanInv, PlansKept
<1>3. CASE UNCHANGED plans
  BY <1>1, <1>3 DEF PlanInv
<1>4. (\E p \in Procs : PublishPlan(p)) \/ UNCHANGED plans
  BY DEF MigrationNext, allVars, migration, Executor, ForeignWrite, Tool, Apply, StartPrepare,
     StartApply, LockUid, LockKey, Snapshot, Review, Observe, PublishBackup, UnlinkTemporary,
     ChooseRecord, PublishIntent, PublishOwner, PublishOwnerBinding, EndTool
<1> QED
  BY <1>2, <1>3, <1>4

(* A process that keeps its plan, journal and record keeps what it relies on *)
(* when others, or it itself, take a step that does not ask for more.        *)
LEMMA ToolFollows ==
  ASSUME IInv, MigrationInv, Frame, NEW q \in Procs, NEW step, proc'[q].pc = step,
         tool'[q] = tool[q], proc'[q].mode = proc[q].mode, proc'[q].cred = proc[q].cred,
         proc'[q].journal = proc[q].journal, proc'[q].lease = proc[q].lease,
         step = "idle" => proc[q].pc = "idle",
         step \in {"reviewed", "plan"} => proc[q].pc \in {"reviewed", "plan"},
         step \in Observed => proc[q].pc \in Observed,
         step = "unlink" => proc[q].pc = "unlink" \/ backup'[tool[q].plan] # None,
         step \in Chosen => proc[q].pc \in Chosen,
         step \in Chosen \ {"intent"} => proc[q].pc \in Chosen \ {"intent"} \/ SameFile(q),
         step \in Pinned => \/ proc[q].pc \in Pinned
                            \/ intent'[proc[q].journal] = [plan |-> tool[q].plan,
                                                           record |-> proc[q].lease]
  PROVE  ToolOK(q)'
<1>1. /\ ToolOK(q) /\ MigrationTypeOK /\ PlanInv
      /\ tool[q] \in [plan : 0..Len(plans), file : File, fresh : Nat]
      /\ Len(plans) \in Nat /\ Len(plans) <= MaxPlans /\ MaxPlans \in Nat
  BY ProofAssumption DEF MigrationInv, ToolInv, MigrationTypeOK
<1>2. tool[q].plan # 0 =>
        /\ tool[q].plan \in 1..Len(plans) /\ tool[q].plan \in 1..MaxPlans
        /\ plans'[tool[q].plan] = plans[tool[q].plan]
        /\ plans[tool[q].plan].file.inode \in 1..inodes
  BY <1>1 DEF Frame, PlansKept, PlanInv
<1>3. proc'[q].mode # "migrate" \/ proc'[q].pc = "idle" => tool'[q] = NoTool
  BY <1>1 DEF ToolOK
<1>4. tool'[q].plan # 0 =>
        /\ proc'[q].cred = plans'[tool'[q].plan].cred
        /\ proc'[q].journal = plans'[tool'[q].plan].journal
  BY <1>1, <1>2 DEF ToolOK, PlanOf
<1>5. step \in {"reviewed", "plan"} => tool'[q].plan = 0 /\ tool'[q].file.inode \in 1..inodes'
  <2>1. inodes' \in Nat /\ inodes <= inodes' /\ inodes \in Nat
    BY DEF Frame, JournalsMove, IInv, TypeOK
  <2> QED
    BY <1>1, <2>1 DEF ToolOK
<1>6. step \in Observed => tool'[q].plan # 0 /\ tool'[q].file = plans'[tool'[q].plan].file
  BY <1>1, <1>2 DEF ToolOK, PlanOf
<1>7. step = "unlink" => backup'[tool'[q].plan] # None
  BY <1>1, <1>2, <1>6 DEF ToolOK, Frame, CopiesKept, Observed
<1>8. step \in Chosen =>
        /\ proc'[q].lease # None
        /\ backup'[tool'[q].plan] = [rows |-> plans'[tool'[q].plan].file.rows, links |-> 1]
        /\ \/ proc'[q].lease.inode = tool'[q].file.inode
           \/ journal'[proc'[q].journal].inode # tool'[q].file.inode
  <2> SUFFICES ASSUME step \in Chosen PROVE
        /\ proc'[q].lease # None
        /\ backup'[tool'[q].plan] = [rows |-> plans'[tool'[q].plan].file.rows, links |-> 1]
        /\ \/ proc'[q].lease.inode = tool'[q].file.inode
           \/ journal'[proc'[q].journal].inode # tool'[q].file.inode
    OBVIOUS
  <2>1. proc[q].pc \in Chosen /\ proc[q].pc \in Observed /\ proc[q].pc # "idle"
    BY DEF Chosen, Observed
  <2>2. proc[q].journal \in Journals
    BY <2>1 DEF IInv, JobInv
  <2>3. tool[q].plan # 0 /\ tool[q].file = plans[tool[q].plan].file
    BY <1>1, <2>1 DEF ToolOK, PlanOf
  <2>4. proc[q].lease # None /\ Copied(tool[q].plan)
        /\ (SameFile(q) \/ journal[proc[q].journal].inode # tool[q].file.inode)
    BY <1>1, <2>1 DEF ToolOK
  <2>5. backup[tool[q].plan] # None
    <3>1. backup[tool[q].plan] \in Backup
      <4>1. plans[tool[q].plan] \in Plan
        BY <1>1, <1>2, <2>3 DEF MigrationTypeOK
      <4> QED
        BY <2>4, <4>1 DEF Copied, Backup, Plan, File
    <3> QED
      BY <3>1, MissingAssumption
  <2>6. backup'[tool[q].plan] = backup[tool[q].plan]
    BY <1>2, <2>3, <2>4, <2>5 DEF Frame, CopiesKept, Copied
  <2>7. \/ SameFile(q) \/ journal'[proc[q].journal].inode # tool[q].file.inode
    <3>1. tool[q].file.inode \in 1..inodes /\ inodes \in Nat
      BY <1>2, <2>3 DEF IInv, TypeOK
    <3>2. \/ journal'[proc[q].journal].inode = journal[proc[q].journal].inode
          \/ journal'[proc[q].journal].inode = 0 \/ journal'[proc[q].journal].inode > inodes
      BY <2>2 DEF Frame, JournalsMove
    <3> QED
      BY <2>4, <3>1, <3>2
  <2> QED
    BY <1>2, <2>3, <2>4, <2>6, <2>7 DEF Copied, SameFile
<1>9. step \in Chosen \ {"intent"} => proc'[q].lease.inode = tool'[q].file.inode
  BY <1>1 DEF ToolOK, SameFile
<1>10. step \in Pinned =>
         intent'[proc'[q].journal] = [plan |-> tool'[q].plan, record |-> proc'[q].lease]
  <2> SUFFICES ASSUME proc[q].pc \in Pinned
               PROVE  intent'[proc[q].journal] = [plan |-> tool[q].plan, record |-> proc[q].lease]
    OBVIOUS
  <2>1. proc[q].pc \in Chosen /\ proc[q].pc # "idle"
    BY DEF Chosen, Pinned
  <2>2. proc[q].journal \in Journals /\ proc[q].lease # None /\ proc[q] \in Processes
    BY <1>1, <2>1 DEF IInv, JobInv, ToolOK, TypeOK
  <2>3. proc[q].lease \in Record
    BY <2>2 DEF Processes
  <2>4. intent[proc[q].journal] = [plan |-> tool[q].plan, record |-> proc[q].lease]
    BY <1>1 DEF ToolOK
  <2>5. [plan |-> tool[q].plan, record |-> proc[q].lease] \in Intent
    BY <1>1, <2>3 DEF Intent
  <2>6. intent[proc[q].journal] # None
    BY <2>4, <2>5, MissingAssumption
  <2> QED
    BY <2>2, <2>4, <2>6 DEF Frame, IntentsKept, Kept
<1> QED
  BY <1>3, <1>4, <1>5, <1>6, <1>7, <1>8, <1>9, <1>10
     DEF ToolOK, PlanOf, Copied, SameFile

LEMMA OthersFollow ==
  ASSUME IInv, MigrationInv, Frame, NEW q \in Procs, proc'[q] = proc[q], tool'[q] = tool[q]
  PROVE  ToolOK(q)'
BY ToolFollows

(* A process of the tool that has not reviewed anything yet, and any other.  *)
LEMMA NothingBehind ==
  ASSUME NEW p \in Procs, tool'[p] = NoTool,
         proc'[p].pc \in Steps \cup {"lock"}
  PROVE  ToolOK(p)'
<1>1. /\ proc'[p].pc \notin {"reviewed", "plan"} /\ proc'[p].pc \notin Observed
      /\ proc'[p].pc # "unlink" /\ proc'[p].pc \notin Chosen /\ proc'[p].pc \notin Pinned
  BY DEF Steps, Observed, Chosen, Pinned
<1>2. tool'[p].plan = 0
  BY DEF NoTool
<1> QED
  BY <1>1, <1>2 DEF ToolOK

LEMMA ChosenStep ==
  ASSUME IInv, MigrationInv, Frame, NEW p \in Procs, ChooseRecord(p)
  PROVE  ToolOK(p)'
<1> DEFINE n == tool[p].plan
           j == proc[p].journal
           r == ResumedRecord(p)
<1>1. /\ proc[p].pc = "choose" /\ Choosable(p) /\ UNCHANGED <<files, plans, backup, intent, tool>>
      /\ proc' = [proc EXCEPT ![p] = [proc[p] EXCEPT !.lease = r, !.pc = "intent"]]
  BY DEF ChooseRecord, migration
<1>2. proc[p] \in Processes /\ proc \in [Procs -> Processes] /\ TypeOK
  BY DEF IInv, TypeOK
<1>3. "choose" \notin Steps /\ "choose" # "idle" /\ "choose" \in Observed
  BY DEF Steps, Observed
<1>4. proc[p].mode = "migrate" /\ proc[p].cred \in Creds /\ j \in Journals
  BY <1>1, <1>3 DEF IInv, JobInv
<1>5. r \in Record
  BY <1>2, <1>4, ResumedIsRecord DEF MigrationInv
<1> HIDE DEF r
<1>6. /\ proc'[p].pc = "intent" /\ proc'[p].mode = "migrate" /\ proc'[p].cred = proc[p].cred
      /\ proc'[p].journal = j /\ proc'[p].lease = r
  BY <1>1, <1>2, <1>4 DEF Processes
<1>7. ToolOK(p) /\ tool'[p] = tool[p]
  BY <1>1 DEF MigrationInv, ToolInv
<1>8. n # 0 /\ tool[p].file = plans[n].file
      /\ proc[p].cred = plans[n].cred /\ j = plans[n].journal
  BY <1>1, <1>3, <1>7 DEF ToolOK, PlanOf
<1>9. /\ Independent(n) /\ backup[n].rows = plans[n].file.rows
      /\ r.inode = journal[j].inode
  BY <1>1, <1>4 DEF Choosable, PlanOf, ValidRecord, r
<1>10. Copied(n)
  <2>1. n \in 1..MaxPlans
    <3>1. /\ tool[p] \in [plan : 0..Len(plans), file : File, fresh : Nat]
          /\ Len(plans) \in Nat /\ Len(plans) <= MaxPlans /\ MaxPlans \in Nat
      BY ProofAssumption DEF MigrationInv, MigrationTypeOK
    <3> QED
      BY <1>8, <3>1
  <2>2. backup[n] \in Backup /\ backup[n].links = 1
    BY <1>9, <2>1 DEF Independent, MigrationInv, MigrationTypeOK
  <2>3. backup[n] = [rows |-> backup[n].rows, links |-> backup[n].links]
    BY <2>2 DEF Backup
  <2> QED
    BY <1>9, <2>2, <2>3 DEF Copied
<1>11. r # None
  BY <1>5, NoneAssumption
<1>12. /\ "intent" \notin {"reviewed", "plan"} /\ "intent" # "unlink"
       /\ "intent" \notin Chosen \ {"intent"} /\ "intent" \notin Pinned
  BY DEF Chosen, Pinned
<1> HIDE DEF n, j
<1>13. UNCHANGED <<journal, plans, backup>> /\ tool'[p].plan = n
  BY <1>1, <1>7 DEF n
<1> QED
  BY <1>6, <1>7, <1>8, <1>9, <1>10, <1>11, <1>12, <1>13
     DEF ToolOK, PlanOf, Copied, SameFile, n, j

(* Steps that only move on, with what they ask for.                          *)
LEMMA MovedStep ==
  ASSUME IInv, MigrationInv, Frame, NEW p \in Procs, NEW step, Goto(p, step), UNCHANGED tool,
         step # "idle", step \in {"reviewed", "plan"} => proc[p].pc \in {"reviewed", "plan"},
         step \in Observed => proc[p].pc \in Observed,
         step = "unlink" => proc[p].pc = "unlink" \/ backup'[tool[p].plan] # None,
         step \in Chosen => proc[p].pc \in Chosen,
         step \in Chosen \ {"intent"} => proc[p].pc \in Chosen \ {"intent"} \/ SameFile(p),
         step \in Pinned => \/ proc[p].pc \in Pinned
                            \/ intent'[proc[p].journal] = [plan |-> tool[p].plan,
                                                           record |-> proc[p].lease]
  PROVE  ToolOK(p)'
<1>1. proc[p] \in Processes /\ proc \in [Procs -> Processes]
  BY DEF IInv, TypeOK
<1>2. /\ proc'[p].pc = step /\ proc'[p].mode = proc[p].mode /\ proc'[p].cred = proc[p].cred
      /\ proc'[p].journal = proc[p].journal /\ proc'[p].lease = proc[p].lease
  BY <1>1 DEF Processes
<1> QED
  BY <1>2, ToolFollows

LEMMA SnapshotStep ==
  ASSUME IInv, MigrationInv, Frame, NEW p \in Procs, Snapshot(p) PROVE ToolOK(p)'
<1>1. PICK last \in {"reviewed", "observed", "intent", "owner", "binding", "after"} :
        proc[p].pc = last /\ Goto(p, Checked[last])
  BY DEF Snapshot, Checked
<1>2. UNCHANGED tool /\ Unchanged(p)
  BY DEF Snapshot, migration
<1>3. last = "intent" => SameFile(p)
  <2> SUFFICES ASSUME last = "intent" PROVE SameFile(p)
    OBVIOUS
  <2>1. journal[proc[p].journal].inode = tool[p].file.inode
    BY <1>2 DEF Unchanged
  <2>2. "intent" \in Chosen
    BY DEF Chosen
  <2> QED
    BY <1>1, <2>1, <2>2 DEF MigrationInv, ToolInv, ToolOK
<1>4. CASE last \in {"reviewed", "observed", "after"}
  <2>1. Checked[last] \in {"plan", "copy", "done"} /\ (Checked[last] = "plan" => last = "reviewed")
        /\ (Checked[last] = "copy" => last = "observed")
    BY <1>4 DEF Checked
  <2> QED
    BY <1>1, <1>2, <2>1, MovedStep DEF Observed, Chosen, Pinned
<1>5. CASE last \in {"intent", "owner", "binding"}
  <2>1. /\ Checked[last] \in {"putIntent", "putOwner", "putBinding"}
        /\ Checked[last] = "putIntent" => last = "intent"
        /\ Checked[last] = "putOwner" => last = "owner"
        /\ Checked[last] = "putBinding" => last = "binding"
    BY <1>5 DEF Checked
  <2> QED
    BY <1>1, <1>2, <1>3, <2>1, MovedStep DEF Observed, Chosen, Pinned
<1> QED
  BY <1>1, <1>4, <1>5

LEMMA BackupStep ==
  ASSUME IInv, MigrationInv, Frame, NEW p \in Procs, PublishBackup(p) PROVE ToolOK(p)'
<1> DEFINE n == tool[p].plan
           copy == [rows |-> journal[proc[p].journal].rows, links |-> 2]
<1>1. proc[p].pc = "copy" /\ UNCHANGED tool
  BY DEF PublishBackup
<1>2. CASE Goto(p, "unlink") /\ backup' = [backup EXCEPT ![n] = copy]
  <2>1. proc[p].journal \in Journals
    BY <1>1 DEF IInv, JobInv
  <2>2. copy \in Backup
    BY <2>1 DEF IInv, TypeOK, Backup
  <2>3. copy # None
    BY <2>2, MissingAssumption
  <2>4. n \in 1..MaxPlans
    <3>1. /\ tool[p] \in [plan : 0..Len(plans), file : File, fresh : Nat]
          /\ Len(plans) \in Nat /\ Len(plans) <= MaxPlans /\ MaxPlans \in Nat
      BY ProofAssumption DEF MigrationInv, MigrationTypeOK
    <3>2. n # 0
      BY <1>1 DEF MigrationInv, ToolInv, ToolOK, Observed
    <3> QED
      BY <3>1, <3>2
  <2>5. backup'[n] # None
    BY <1>2, <2>3, <2>4 DEF MigrationInv, MigrationTypeOK
  <2> QED
    BY <1>1, <1>2, <2>5, MovedStep DEF Observed, Chosen, Pinned
<1>3. CASE Goto(p, "choose")
  BY <1>1, <1>3, MovedStep DEF Observed, Chosen, Pinned
<1> QED
  BY <1>2, <1>3 DEF PublishBackup

LEMMA IntentStepOwn ==
  ASSUME IInv, MigrationInv, Frame, NEW p \in Procs, PublishIntent(p) PROVE ToolOK(p)'
<1>1. /\ proc[p].pc = "putIntent" /\ Goto(p, "owner") /\ UNCHANGED tool
      /\ intent' = [intent EXCEPT ![proc[p].journal] =
                      [plan |-> tool[p].plan, record |-> proc[p].lease]]
  BY DEF PublishIntent
<1>2. proc[p].journal \in Journals
  BY <1>1 DEF IInv, JobInv
<1>3. intent'[proc[p].journal] = [plan |-> tool[p].plan, record |-> proc[p].lease]
  BY <1>1, <1>2 DEF MigrationInv, MigrationTypeOK
<1> QED
  BY <1>1, <1>3, MovedStep DEF Observed, Chosen, Pinned

(* The locks and the two looks at the journal.                               *)
LEMMA ScopeStep ==
  ASSUME IInv, MigrationInv, Frame, NEW p \in Procs,
         LockUid(p) \/ LockKey(p) \/ Review(p) \/ Observe(p)
  PROVE  ToolOK(p)'
<1>1. /\ proc[p] \in Processes /\ proc \in [Procs -> Processes]
      /\ tool[p] \in [plan : 0..Len(plans), file : File, fresh : Nat]
      /\ tool \in [Procs -> [plan : 0..Len(plans), file : File, fresh : Nat]] /\ ToolOK(p)
  BY DEF IInv, TypeOK, MigrationInv, MigrationTypeOK, ToolInv
<1>2. /\ "lockKey" \notin {"reviewed", "plan", "unlink"} \cup Observed \cup Chosen \cup Pinned
      /\ "scope" \notin {"reviewed", "plan", "unlink"} \cup Observed \cup Chosen \cup Pinned
      /\ "reviewed" \notin {"unlink"} \cup Observed \cup Chosen \cup Pinned
      /\ "observed" \notin {"reviewed", "plan", "unlink"} \cup Chosen \cup Pinned
  BY DEF Observed, Chosen, Pinned
<1>3. CASE LockUid(p)
  <2>1. /\ proc'[p] = [proc[p] EXCEPT !.uid = TRUE, !.pc = "lockKey"] /\ UNCHANGED tool
    BY <1>1, <1>3 DEF LockUid, migration
  <2>2. /\ proc'[p].pc = "lockKey" /\ proc'[p].mode = proc[p].mode /\ proc'[p].cred = proc[p].cred
        /\ proc'[p].journal = proc[p].journal /\ proc'[p].lease = proc[p].lease
    BY <1>1, <2>1 DEF Processes
  <2> QED
    BY <1>2, <2>1, <2>2, ToolFollows
<1>4. CASE LockKey(p)
  <2>1. /\ proc'[p] = [proc[p] EXCEPT !.key = lockFile, !.pc = "scope"] /\ UNCHANGED tool
    BY <1>1, <1>4 DEF LockKey, migration
  <2>2. /\ proc'[p].pc = "scope" /\ proc'[p].mode = proc[p].mode /\ proc'[p].cred = proc[p].cred
        /\ proc'[p].journal = proc[p].journal /\ proc'[p].lease = proc[p].lease
    BY <1>1, <2>1 DEF Processes
  <2> QED
    BY <1>2, <2>1, <2>2, ToolFollows
<1>5. CASE Review(p)
  <2>1. /\ proc[p].pc = "scope" /\ Goto(p, "reviewed") /\ tool[p].plan = 0
        /\ OriginalSchema(proc[p].journal) /\ UNCHANGED inodes
        /\ tool' = [tool EXCEPT ![p] = [tool[p] EXCEPT !.file = journal[proc[p].journal]]]
    BY <1>5 DEF Review, InScope
  <2>2. proc[p].journal \in Journals /\ proc[p].mode = "migrate"
    BY <2>1 DEF IInv, JobInv, Steps
  <2>3. journal[proc[p].journal].inode \in 1..inodes
    BY <2>1, <2>2 DEF OriginalSchema, Exists, IInv, TypeOK, InodeInv
  <2>4. proc'[p].pc = "reviewed" /\ proc'[p].mode = "migrate"
    BY <1>1, <2>1, <2>2 DEF Processes
  <2>5. tool'[p].plan = 0 /\ tool'[p].file.inode \in 1..inodes'
    BY <1>1, <2>1, <2>3
  <2> QED
    BY <1>2, <2>4, <2>5 DEF ToolOK
<1>6. CASE Observe(p)
  <2>1. /\ proc[p].pc = "scope" /\ Goto(p, "observed") /\ tool[p].plan # 0 /\ UNCHANGED plans
        /\ \E f \in Proofs :
             tool' = [tool EXCEPT ![p] = [tool[p] EXCEPT !.file = PlanOf(p).file, !.fresh = f]]
    BY <1>6 DEF Observe, InScope
  <2>2. proc[p].mode = "migrate"
    BY <2>1 DEF IInv, JobInv, Steps
  <2>3. /\ proc'[p].pc = "observed" /\ proc'[p].mode = "migrate" /\ proc'[p].cred = proc[p].cred
        /\ proc'[p].journal = proc[p].journal
    BY <1>1, <2>1, <2>2 DEF Processes
  <2>4. tool'[p].plan = tool[p].plan /\ tool'[p].file = PlanOf(p).file
    BY <1>1, <2>1
  <2>5. proc[p].cred = plans[tool[p].plan].cred /\ proc[p].journal = plans[tool[p].plan].journal
    BY <1>1, <2>1 DEF ToolOK, PlanOf
  <2> QED
    BY <1>2, <2>1, <2>3, <2>4, <2>5 DEF ToolOK, PlanOf
<1> QED
  BY <1>3, <1>4, <1>5, <1>6

(* An executor stays among the executors' steps.                              *)
LEMMA ExecutorStays == ASSUME IInv, NEW p \in Procs, Executor(p) PROVE proc'[p].pc \in Steps
<1>1. proc[p] \in Processes /\ proc \in [Procs -> Processes]
  BY DEF IInv, TypeOK
<1>2. ASSUME NEW step \in Steps, Goto(p, step) PROVE proc'[p].pc \in Steps
  <2>1. proc'[p] = [proc[p] EXCEPT !.pc = step]
    BY <1>1, <1>2
  <2> QED
    BY <1>1, <2>1 DEF Processes
<1>3. CASE \E m \in Modes, c \in Creds, j \in Journals : Start(p, m, c, j)
  <2>1. PICK m \in Modes, c \in Creds, j \in Journals : Start(p, m, c, j)
    BY <1>3
  <2>2. proc'[p].pc = IF m = "account" THEN "uid" ELSE "key"
    BY <1>1, <2>1 DEF Start, Idle
  <2> QED
    BY <2>2 DEF Steps
<1>4. CASE TakeUid(p) \/ InspectKnown(p) \/ TakeKey(p) \/ NewRecord(p) \/ Confirm(p) \/ Prepare(p)
  <2>1. proc'[p].pc \in {"inspect", "key", "bind", "publish", "active", "prepared"}
    BY <1>1, <1>4 DEF TakeUid, InspectKnown, TakeKey, NewRecord, Confirm, Prepare, Processes
  <2> QED
    BY <2>1 DEF Steps
<1>5. CASE End(p)
  BY <1>1, <1>5 DEF End, Idle, Steps
<1>6. CASE \/ InspectFresh(p) \/ CheckBinding(p) \/ LinkBinding(p) \/ CreateJournal(p)
           \/ Register(p) \/ PublishRegistry(p) \/ PublishBinding(p) \/ AssertHeld(p)
           \/ Send(p)
  <2>1. \E step \in {"key", "create", "link", "register", "active", "confirm", "record",
                     "sidecar", "sending"} : Goto(p, step)
    BY <1>6 DEF InspectFresh, CheckBinding, LinkBinding, CreateJournal, Register,
       PublishRegistry, PublishBinding, AssertHeld, Send
  <2> QED
    BY <1>2, <2>1 DEF Steps
<1> QED
  BY <1>3, <1>4, <1>5, <1>6 DEF Executor, Lease

(* The beginning and the end of a process.                                   *)
LEMMA BoundaryStep ==
  ASSUME IInv, MigrationInv, Frame, NEW p \in Procs,
         \/ Executor(p) \/ EndTool(p) \/ (\E c \in Creds, j \in Journals : StartPrepare(p, c, j))
         \/ \E n \in 1..MaxPlans : StartApply(p, n)
  PROVE  ToolOK(p)'
<1>1. /\ proc[p] \in Processes /\ proc \in [Procs -> Processes]
      /\ tool \in [Procs -> [plan : 0..Len(plans), file : File, fresh : Nat]] /\ ToolOK(p)
  BY DEF IInv, TypeOK, MigrationInv, MigrationTypeOK, ToolInv
<1>2. proc[p].mode # "migrate" => tool[p] = NoTool /\ proc[p].pc \in Steps
  BY <1>1 DEF ToolOK, IInv, JobInv
<1>3. proc[p].pc = "idle" => tool[p] = NoTool
  BY <1>1 DEF ToolOK
<1>4. CASE Executor(p)
  <2>1. tool'[p] = NoTool
    BY <1>2, <1>4 DEF Executor, migration
  <2>2. proc'[p].pc \in Steps
    BY <1>4, ExecutorStays
  <2> QED
    BY <2>1, <2>2, NothingBehind
<1>5. CASE EndTool(p)
  <2>1. tool'[p] = NoTool /\ proc'[p].pc = "idle"
    BY <1>1, <1>5 DEF EndTool, End, Idle
  <2> QED
    BY <2>1, NothingBehind DEF Steps
<1>6. CASE \E c \in Creds, j \in Journals : StartPrepare(p, c, j)
  <2>1. PICK c \in Creds, j \in Journals : StartPrepare(p, c, j)
    BY <1>6
  <2>2. tool'[p] = NoTool
    BY <1>3, <2>1 DEF StartPrepare, migration
  <2>3. proc'[p].pc = "lock"
    BY <1>1, <2>1 DEF StartPrepare, Idle
  <2> QED
    BY <2>2, <2>3, NothingBehind
<1>7. ASSUME NEW n \in 1..MaxPlans, StartApply(p, n) PROVE ToolOK(p)'
  <2>1. /\ proc'[p].pc = "lock" /\ proc'[p].mode = "migrate"
        /\ proc'[p].cred = plans[n].cred /\ proc'[p].journal = plans[n].journal
        /\ tool'[p].plan = n /\ UNCHANGED plans
    <3> DEFINE x == [Idle EXCEPT !.mode = "migrate", !.cred = plans[n].cred,
                                !.journal = plans[n].journal, !.fd = lockFile, !.pc = "lock"]
    <3>1. /\ x.pc = "lock" /\ x.mode = "migrate" /\ x.cred = plans[n].cred
          /\ x.journal = plans[n].journal
      BY DEF Idle
    <3>2. /\ proc' = [proc EXCEPT ![p] = x] /\ UNCHANGED plans
          /\ tool' = [tool EXCEPT ![p] = [tool[p] EXCEPT !.plan = n]]
      BY <1>7 DEF StartApply
    <3> HIDE DEF x
    <3>3. proc'[p] = x
      BY <1>1, <3>2
    <3>4. tool'[p].plan = n
      BY <1>1, <3>2
    <3> QED
      BY <3>1, <3>2, <3>3, <3>4
  <2>2. "lock" \notin {"reviewed", "plan", "unlink"} \cup Observed \cup Chosen \cup Pinned
    BY DEF Observed, Chosen, Pinned
  <2> QED
    BY <2>1, <2>2 DEF ToolOK, PlanOf
<1> QED
  BY <1>4, <1>5, <1>6, <1>7

LEMMA ToolInvStep == ASSUME IInv, MigrationInv, Frame, [MigrationNext]_allVars PROVE ToolInv'
<1>1. CASE UNCHANGED <<proc, tool>>
  <2>1. ASSUME NEW q \in Procs PROVE ToolOK(q)'
    BY <1>1, OthersFollow
  <2> QED
    BY <2>1 DEF ToolInv
<1>2. ASSUME NEW p \in Procs, Executor(p) \/ Tool(p) PROVE ToolInv'
  <2>1. ASSUME NEW q \in Procs, q # p PROVE ToolOK(q)'
    <3>1. proc'[q] = proc[q]
      BY <1>2, <2>1 DEF Executor, Lease, Start, TakeUid, InspectKnown, InspectFresh, TakeKey,
         CheckBinding, LinkBinding, CreateJournal, Register, NewRecord, PublishRegistry,
         PublishBinding, Confirm, Prepare, AssertHeld, Send, End, Tool, Apply, StartPrepare,
         StartApply, LockUid, LockKey, Snapshot, Review, PublishPlan, Observe, PublishBackup,
         UnlinkTemporary, ChooseRecord, PublishIntent, PublishOwner, PublishOwnerBinding, EndTool,
         IInv, TypeOK
    <3>2. tool'[q] = tool[q]
      BY <1>2, <2>1 DEF Executor, migration, Tool, Apply, StartPrepare,
         StartApply, LockUid, LockKey, Snapshot, Review, PublishPlan, Observe, PublishBackup,
         UnlinkTemporary, ChooseRecord, PublishIntent, PublishOwner, PublishOwnerBinding, EndTool,
         MigrationInv, MigrationTypeOK
    <3> QED
      BY <3>1, <3>2, OthersFollow
  <2>2. ToolOK(p)'
    <3>1. CASE PublishPlan(p)
      <4>1. Goto(p, "done") /\ UNCHANGED tool
        BY <3>1 DEF PublishPlan
      <4> QED
        BY <4>1, MovedStep DEF Observed, Chosen, Pinned
    <3>2. CASE UnlinkTemporary(p)
      <4>1. proc[p].pc = "unlink" /\ Goto(p, "choose") /\ UNCHANGED tool
        BY <3>2 DEF UnlinkTemporary
      <4> QED
        BY <4>1, MovedStep DEF Observed, Chosen, Pinned
    <3>3. CASE PublishOwner(p)
      <4>1. proc[p].pc = "putOwner" /\ Goto(p, "binding") /\ UNCHANGED tool
        BY <3>3 DEF PublishOwner, migration
      <4> QED
        BY <4>1, MovedStep DEF Observed, Chosen, Pinned
    <3>4. CASE PublishOwnerBinding(p)
      <4>1. proc[p].pc = "putBinding" /\ Goto(p, "after") /\ UNCHANGED tool
        BY <3>4 DEF PublishOwnerBinding, migration
      <4> QED
        BY <4>1, MovedStep DEF Observed, Chosen, Pinned
    <3> QED
      BY <1>2, <3>1, <3>2, <3>3, <3>4, ScopeStep, BoundaryStep, ChosenStep, SnapshotStep,
         BackupStep, IntentStepOwn DEF Tool, Apply
  <2> QED
    BY <2>1, <2>2 DEF ToolInv
<1>3. UNCHANGED <<proc, tool>> \/ \E p \in Procs : Executor(p) \/ Tool(p)
  BY DEF MigrationNext, allVars, vars, migration, Outside, ReplaceLocks, ReplaceJournal,
     LoseJournal, LoseSidecar, ForeignWrite, Fault
<1> QED
  BY <1>1, <1>2, <1>3

(* An intent is written once, by an apply that has everything behind it.     *)
LEMMA IntentInvStep == ASSUME IInv, MigrationInv, Frame, [MigrationNext]_allVars PROVE IntentInv'
<1>1. /\ MigrationTypeOK /\ MigrationTypeOK' /\ Len(plans) \in Nat /\ Len(plans)' \in Nat
      /\ Len(plans) <= MaxPlans /\ MaxPlans \in Nat /\ Len(plans) <= Len(plans)'
  BY MigrationTypeStep, ProofAssumption DEF MigrationInv, MigrationTypeOK, Frame, PlansKept
<1>2. ASSUME NEW j \in Journals, NEW n \in 1..Len(plans), Copied(n)
      PROVE  n \in 1..Len(plans)' /\ plans'[n] = plans[n] /\ Copied(n)'
  <2>1. n \in 1..Len(plans)' /\ plans'[n] = plans[n] /\ n \in 1..MaxPlans
    BY <1>1, <1>2 DEF Frame, PlansKept
  <2>2. backup[n] # None /\ backup[n].links = 1
    <3>1. backup[n] = [rows |-> plans[n].file.rows, links |-> 1] /\ plans[n] \in Plan
      BY <1>1, <1>2 DEF Copied, MigrationTypeOK
    <3>2. backup[n] \in Backup
      BY <3>1 DEF Backup, Plan, File
    <3> QED
      BY <3>1, <3>2, MissingAssumption
  <2>3. backup'[n] = backup[n]
    BY <2>1, <2>2 DEF Frame, CopiesKept
  <2> QED
    BY <1>2, <2>1, <2>3 DEF Copied
<1>3. ASSUME NEW j \in Journals, intent[j] # None
      PROVE  /\ intent'[j] = intent[j] /\ intent'[j].plan \in 1..Len(plans)'
             /\ plans'[intent'[j].plan].journal = j /\ Copied(intent[j].plan)'
             /\ intent'[j].record.cred = plans'[intent'[j].plan].cred
             /\ intent'[j].record.journal = j
             /\ intent'[j].record.inode = plans'[intent'[j].plan].file.inode
  <2>1. intent'[j] = intent[j]
    BY <1>3 DEF Frame, IntentsKept, Kept
  <2> QED
    BY <1>2, <1>3, <2>1 DEF MigrationInv, IntentInv
<1>4. ASSUME NEW j \in Journals, intent[j] = None, intent'[j] # None
      PROVE  /\ intent'[j].plan \in 1..Len(plans)' /\ plans'[intent'[j].plan].journal = j
             /\ backup'[intent'[j].plan] =
                  [rows |-> plans'[intent'[j].plan].file.rows, links |-> 1]
             /\ intent'[j].record.cred = plans'[intent'[j].plan].cred
             /\ intent'[j].record.journal = j
             /\ intent'[j].record.inode = plans'[intent'[j].plan].file.inode
  <2>1. PICK p \in Procs : PublishIntent(p)
    BY <1>4 DEF MigrationNext, allVars, migration, Executor, ForeignWrite, Tool, Apply,
       StartPrepare, StartApply, LockUid, LockKey, Snapshot, Review, PublishPlan, Observe,
       PublishBackup, UnlinkTemporary, ChooseRecord, PublishOwner, PublishOwnerBinding, EndTool
  <2>2. /\ proc[p].pc = "putIntent" /\ UNCHANGED <<plans, backup>>
        /\ intent' = [intent EXCEPT ![proc[p].journal] =
                        [plan |-> tool[p].plan, record |-> proc[p].lease]]
    BY <2>1 DEF PublishIntent
  <2>3. /\ proc[p].journal = j /\ intent'[j] = [plan |-> tool[p].plan, record |-> proc[p].lease]
    BY <1>1, <1>4, <2>2 DEF MigrationTypeOK
  <2>4. ToolOK(p) /\ tool[p] \in [plan : 0..Len(plans), file : File, fresh : Nat]
    BY <1>1 DEF MigrationInv, ToolInv, MigrationTypeOK
  <2>5. "putIntent" \in Observed /\ "putIntent" \in Chosen \ {"intent"}
    BY DEF Observed, Chosen
  <2>6. /\ tool[p].plan \in 1..Len(plans) /\ Copied(tool[p].plan) /\ proc[p].lease # None
        /\ proc[p].cred = plans[tool[p].plan].cred /\ j = plans[tool[p].plan].journal
        /\ tool[p].file = plans[tool[p].plan].file
        /\ proc[p].lease.inode = tool[p].file.inode
    BY <1>1, <2>2, <2>3, <2>4, <2>5 DEF ToolOK, PlanOf, SameFile
  <2>7. proc[p].lease.cred = proc[p].cred /\ proc[p].lease.journal = j
    BY <2>3, <2>6 DEF IInv, LeaseInv
  <2>8. intent'[j].plan = tool[p].plan /\ intent'[j].record = proc[p].lease
    BY <2>3
  <2>9. plans' = plans /\ backup' = backup
    BY <2>2
  <2>10. backup[tool[p].plan] = [rows |-> plans[tool[p].plan].file.rows, links |-> 1]
    BY <2>6 DEF Copied
  <2> QED
    BY ONLY <2>6, <2>7, <2>8, <2>9, <2>10
<1> QED
  BY <1>3, <1>4 DEF IntentInv, Copied

-----------------------------------------------------------------------------
(* The theorems of the migration. *)

(* The executors' invariant and the migration's hold together in every       *)
(* reachable state: the tool publishes what it may under the same locks.     *)
THEOREM MigrationInductive == MigrationSpec => [](IInv /\ MigrationInv)
<1>1. MigrationInit => IInv /\ MigrationInv
  BY Initially, MigrationInitially DEF MigrationInit
<1>2. IInv /\ MigrationInv /\ [MigrationNext]_allVars => (IInv /\ MigrationInv)'
  <2> SUFFICES ASSUME IInv, MigrationInv, [MigrationNext]_allVars PROVE (IInv /\ MigrationInv)'
    OBVIOUS
  <2>1. Frame
    BY FrameStep
  <2>2. IInv'
    BY MigrationKeeps DEF MigrationInv
  <2>3. MigrationInv'
    BY <2>1, MigrationTypeStep, PlanStep, ToolInvStep, IntentInvStep DEF MigrationInv
  <2> QED
    BY <2>2, <2>3
<1> QED
  BY <1>1, <1>2, PTL DEF MigrationSpec

(* Also while journals are migrated and foreign programs write to them, all  *)
(* orders sent in account mode are recorded in one and the same file, one    *)
(* process passes assert_held, and a key keeps its path.                     *)
THEOREM MigrationKeepsOwnership ==
  MigrationSpec => [](OneLedgerPerAccount /\ OneHolder /\ OneJournalPerCredential)
<1>1. IInv => OneLedgerPerAccount
  BY DEF IInv, OneLedgerPerAccount, LedgerInv
<1>2. IInv => OneHolder
  BY DEF IInv, OneHolder, UidInv, Held, SameLock
<1>3. IInv => OneJournalPerCredential
  BY DEF IInv, OneJournalPerCredential, KeyInv
<1> QED
  BY MigrationInductive, <1>1, <1>2, <1>3, PTL

(* publish_new never replaces a record: neither the executors nor the tool   *)
(* change an owner record that exists.                                       *)
THEOREM MigrationNeverReplaces == MigrationSpec => OwnersNeverReplaced
<1>1. IInv /\ MigrationInv /\ [MigrationNext]_allVars => [faults' = faults => RecordsKept]_vars
  <2> SUFFICES ASSUME IInv, MigrationInv, MigrationNext, faults' = faults PROVE RecordsKept
    BY DEF allVars
  <2>1. ~Outside /\ \A j \in Journals : ~ForeignWrite(j)
    BY OutsideIsFault DEF IInv, TypeOK, ForeignWrite, Fault
  <2>2. ASSUME NEW p \in Procs, Executor(p) PROVE RecordsKept
    BY <2>2, LeaseKeeps DEF Executor
  <2>3. ASSUME NEW p \in Procs, Tool(p) PROVE RecordsKept
    <3>1. UNCHANGED <<credBinding, credRegistry>>
      BY <2>3 DEF Tool, Apply, StartPrepare, StartApply, LockUid, LockKey, Snapshot, Review,
         PublishPlan, Observe, PublishBackup, UnlinkTemporary, ChooseRecord, PublishIntent,
         PublishOwner, PublishOwnerBinding, EndTool, End
    <3>2. CASE PublishOwner(p)
      BY <3>1, <3>2 DEF PublishOwner, RecordsKept, Kept
    <3>3. CASE PublishOwnerBinding(p)
      BY <3>1, <3>3 DEF PublishOwnerBinding, RecordsKept, Kept, IInv, TypeOK
    <3>4. CASE UNCHANGED <<acctRegistry, acctBinding>>
      BY <3>1, <3>4 DEF RecordsKept, Kept
    <3> QED
      BY <2>3, <3>2, <3>3, <3>4 DEF Tool, Apply, StartPrepare, StartApply, LockUid, LockKey,
         Snapshot, Review, PublishPlan, Observe, PublishBackup, UnlinkTemporary, ChooseRecord,
         PublishIntent, EndTool, End
  <2> QED
    BY <2>1, <2>2, <2>3 DEF MigrationNext
<1> QED
  BY MigrationInductive, <1>1, PTL DEF MigrationSpec, OwnersNeverReplaced, RecordsKept

(* No owner record or intent exists before a copy of the reviewed journal    *)
(* that no other name can change (apply, after any number of kills).         *)
THEOREM BackedUpHolds == MigrationSpec => []BackedUp
<1>1. MigrationInv => BackedUp
  BY DEF MigrationInv, IntentInv, BackedUp, Copied
<1> QED
  BY MigrationInductive, <1>1, PTL

-----------------------------------------------------------------------------
(* What a repetition of an interrupted apply finds.                          *)

\* A first account lease that has found nothing of its journal and has not yet
\* published its owner record.
Newcomer(p) ==
    /\ proc[p].mode = "account"
    /\ \/ proc[p].pc \in {"key", "bind", "link", "create", "register"} /\ proc[p].lease = None
       \/ proc[p].pc \in {"record", "publish"}

\* A process that has taken the UID lock to read or write the account's records.
Holding(p) == Newcomer(p) \/ proc[p].pc \notin Steps \cup {"lock"}

BindingInv == \A j \in Journals : acctBinding[j] \in {None, acctRegistry}
ToolLocked == \A p \in Procs : proc[p].pc \notin Steps \cup {"lock"} => proc[p].uid
LocksQuiet ==
    /\ lockFile = 1
    /\ \A p \in Procs :
         proc[p].mode \in {"account", "migrate"} /\ proc[p].pc # "idle" => proc[p].fd = 1
NewcomersFree == \A p \in Procs : Newcomer(p) => intent[proc[p].journal] = None
FilesThere ==
    /\ \A j \in Journals : intent[j] # None => Exists(j)
    /\ \A p \in Procs : proc[p].pc = "putIntent" => Exists(proc[p].journal)
OwnersMatch ==
    \A j \in Journals : intent[j] # None /\ acctRegistry # None /\ acctRegistry.journal = j
        => acctRegistry = intent[j].record
UndecidedMatch ==
    \A p \in Procs : proc[p].pc \in {"intent", "putIntent"} =>
        \/ intent[proc[p].journal] = None /\ acctRegistry = None
        \/ /\ intent[proc[p].journal] # None
           /\ intent[proc[p].journal].plan = tool[p].plan
           /\ intent[proc[p].journal].record = proc[p].lease

Quiet == LocksQuiet /\ NewcomersFree /\ FilesThere /\ OwnersMatch /\ UndecidedMatch
RepetitionInv == BindingInv /\ ToolLocked /\ (faults = 0 => Quiet)

(* While the lock files stay, one process at a time reads or writes them.    *)
LEMMA Alone ==
  ASSUME IInv, ToolLocked, LocksQuiet, NEW p \in Procs, NEW q \in Procs, Holding(p), Holding(q)
  PROVE  p = q
<1>1. ASSUME NEW r \in Procs, Holding(r) PROVE proc[r].uid /\ proc[r].fd = 1
  <2>1. CASE Newcomer(r)
    <3>1. proc[r].mode = "account" /\ proc[r].pc \notin {"idle", "uid"}
      BY <2>1 DEF Newcomer
    <3> QED
      BY <3>1 DEF IInv, UidInv, LocksQuiet
  <2>2. CASE proc[r].pc \notin Steps \cup {"lock"}
    <3>1. proc[r].mode = "migrate" /\ proc[r].pc # "idle"
      BY <2>2 DEF IInv, JobInv, Steps
    <3> QED
      BY <2>2, <3>1 DEF ToolLocked, LocksQuiet
  <2> QED
    BY <1>1, <2>1, <2>2 DEF Holding
<1> QED
  BY <1>1 DEF IInv, UidInv

-----------------------------------------------------------------------------
(* The shape of a step: a process starts, ends or goes on with its job.      *)

Starts(p) ==
    /\ proc'[p].pc \in {"uid", "key", "lock"} /\ proc'[p].lease = None
    /\ proc'[p].pc = "key" => proc'[p].mode = "credential"
    /\ proc'[p].mode \in {"account", "migrate"} => proc'[p].fd = lockFile
Ends(p) == proc'[p].pc = "idle"
GoesOn(p) ==
    /\ proc[p].pc # "idle"
    /\ proc'[p].mode = proc[p].mode /\ proc'[p].cred = proc[p].cred
    /\ proc'[p].journal = proc[p].journal /\ proc'[p].fd = proc[p].fd
    /\ proc[p].uid \/ proc[p].pc = "lock" => proc'[p].uid

LEMMA GoneOn ==
  ASSUME IInv, NEW p \in Procs, NEW step, Goto(p, step), proc[p].pc # "idle", proc[p].pc # "lock"
  PROVE  GoesOn(p) /\ proc'[p].pc = step /\ proc'[p].lease = proc[p].lease
<1>1. proc[p] \in Processes /\ proc \in [Procs -> Processes]
  BY DEF IInv, TypeOK
<1> QED
  BY <1>1 DEF GoesOn, Processes

LEMMA ExecutorShape ==
  ASSUME IInv, NEW p \in Procs, Executor(p) PROVE Starts(p) \/ Ends(p) \/ GoesOn(p)
<1>1. proc[p] \in Processes /\ proc \in [Procs -> Processes]
  BY DEF IInv, TypeOK
<1>2. CASE \E m \in Modes, c \in Creds, j \in Journals : Start(p, m, c, j)
  <2>1. PICK m \in Modes, c \in Creds, j \in Journals : Start(p, m, c, j)
    BY <1>2
  <2>2. /\ proc'[p].mode = m /\ proc'[p].lease = None
        /\ proc'[p].fd = IF m = "account" THEN lockFile ELSE 0
        /\ proc'[p].pc = IF m = "account" THEN "uid" ELSE "key"
    BY <1>1, <2>1 DEF Start, Idle
  <2> QED
    BY <2>2 DEF Starts
<1>3. CASE TakeUid(p) \/ InspectKnown(p) \/ TakeKey(p) \/ NewRecord(p) \/ Confirm(p) \/ Prepare(p)
  BY <1>1, <1>3 DEF TakeUid, InspectKnown, TakeKey, NewRecord, Confirm, Prepare, Processes, GoesOn
<1>4. CASE End(p)
  BY <1>1, <1>4 DEF End, Idle, Ends
<1>5. CASE \/ InspectFresh(p) \/ CheckBinding(p) \/ LinkBinding(p) \/ CreateJournal(p)
           \/ Register(p) \/ PublishRegistry(p) \/ PublishBinding(p) \/ AssertHeld(p) \/ Send(p)
  <2>1. (\E step \in Steps : Goto(p, step)) /\ proc[p].pc # "idle" /\ proc[p].pc # "lock"
    BY <1>5 DEF InspectFresh, CheckBinding, LinkBinding, CreateJournal, Register,
       PublishRegistry, PublishBinding, AssertHeld, Send, Steps
  <2> QED
    BY <2>1, GoneOn
<1> QED
  BY <1>2, <1>3, <1>4, <1>5 DEF Executor, Lease

LEMMA ToolShape ==
  ASSUME IInv, MigrationInv, NEW p \in Procs, Tool(p) PROVE Starts(p) \/ Ends(p) \/ GoesOn(p)
<1>1. proc[p] \in Processes /\ proc \in [Procs -> Processes]
  BY DEF IInv, TypeOK
<1>2. ASSUME NEW c, NEW j, proc' = [proc EXCEPT ![p] = [Idle EXCEPT !.mode = "migrate", !.cred = c,
               !.journal = j, !.fd = lockFile, !.pc = "lock"]]
      PROVE  Starts(p)
  <2> DEFINE x == [Idle EXCEPT !.mode = "migrate", !.cred = c, !.journal = j, !.fd = lockFile,
                              !.pc = "lock"]
  <2>1. x.pc = "lock" /\ x.fd = lockFile /\ x.lease = None
    BY DEF Idle
  <2>2. proc'[p] = x
    BY <1>1, <1>2
  <2> HIDE DEF x
  <2> QED
    BY <2>1, <2>2 DEF Starts
<1>3. CASE LockUid(p) \/ LockKey(p) \/ ChooseRecord(p)
  BY <1>1, <1>3 DEF LockUid, LockKey, ChooseRecord, Processes, GoesOn
<1>4. CASE EndTool(p)
  BY <1>1, <1>4 DEF EndTool, End, Idle, Ends
<1>5. CASE \/ Snapshot(p) \/ Review(p) \/ PublishPlan(p) \/ Observe(p) \/ PublishBackup(p)
           \/ UnlinkTemporary(p) \/ PublishIntent(p) \/ PublishOwner(p) \/ PublishOwnerBinding(p)
  <2>1. (\E step : Goto(p, step)) /\ proc[p].pc # "idle" /\ proc[p].pc # "lock"
    BY <1>5 DEF Snapshot, Checked, Review, InScope, PublishPlan, Observe, PublishBackup,
       UnlinkTemporary, PublishIntent, PublishOwner, PublishOwnerBinding
  <2> QED
    BY <2>1, GoneOn
<1> QED
  BY <1>2, <1>3, <1>4, <1>5 DEF Tool, Apply, StartPrepare, StartApply

-----------------------------------------------------------------------------
(* The parts of the invariant that a repetition rests on.                    *)

(* Only these steps write the owner records.                                 *)
LEMMA OwnerWriters ==
  ASSUME NEW p \in Procs, Executor(p) \/ Tool(p)
  PROVE  /\ PublishRegistry(p) \/ PublishOwner(p) \/ UNCHANGED acctRegistry
         /\ PublishBinding(p) \/ PublishOwnerBinding(p) \/ UNCHANGED acctBinding
         /\ PublishIntent(p) \/ UNCHANGED intent
         /\ UNCHANGED <<lockFile, faults>>
<1>1. CASE Executor(p)
  BY <1>1 DEF Executor, Lease, Start, TakeUid, InspectKnown, InspectFresh, TakeKey, CheckBinding,
     LinkBinding, CreateJournal, Register, NewRecord, PublishRegistry, PublishBinding, Confirm,
     Prepare, AssertHeld, Send, End, migration
<1>2. CASE Tool(p)
  BY <1>2 DEF Tool, Apply, StartPrepare, StartApply, LockUid, LockKey, Snapshot, Review,
     PublishPlan, Observe, PublishBackup, UnlinkTemporary, ChooseRecord, PublishIntent,
     PublishOwner, PublishOwnerBinding, EndTool, End, migration
<1> QED
  BY <1>1, <1>2

LEMMA OthersKept ==
  ASSUME IInv, MigrationInv, NEW p \in Procs, Executor(p) \/ Tool(p), NEW q \in Procs, q # p
  PROVE  proc'[q] = proc[q] /\ tool'[q] = tool[q]
<1>1. proc'[q] = proc[q]
  BY DEF Executor, Lease, Start, TakeUid, InspectKnown, InspectFresh, TakeKey,
     CheckBinding, LinkBinding, CreateJournal, Register, NewRecord, PublishRegistry,
     PublishBinding, Confirm, Prepare, AssertHeld, Send, End, Tool, Apply, StartPrepare,
     StartApply, LockUid, LockKey, Snapshot, Review, PublishPlan, Observe, PublishBackup,
     UnlinkTemporary, ChooseRecord, PublishIntent, PublishOwner, PublishOwnerBinding, EndTool,
     IInv, TypeOK
<1>2. tool'[q] = tool[q]
  BY DEF Executor, migration, Tool, Apply, StartPrepare,
     StartApply, LockUid, LockKey, Snapshot, Review, PublishPlan, Observe, PublishBackup,
     UnlinkTemporary, ChooseRecord, PublishIntent, PublishOwner, PublishOwnerBinding, EndTool,
     MigrationInv, MigrationTypeOK
<1> QED
  BY <1>1, <1>2

(* The path's owner record is the account's, and stays so.                   *)
LEMMA BindingStep ==
  ASSUME IInv, MigrationInv, BindingInv, [MigrationNext]_allVars PROVE BindingInv'
<1>1. CASE UNCHANGED <<acctBinding, acctRegistry>>
  BY <1>1 DEF BindingInv
<1>2. CASE Outside
  BY <1>2 DEF BindingInv, Outside, ReplaceLocks, ReplaceJournal, LoseJournal, LoseSidecar, IInv,
     TypeOK
<1>3. ASSUME NEW p \in Procs, PublishRegistry(p) \/ PublishOwner(p) PROVE BindingInv'
  BY <1>3 DEF BindingInv, PublishRegistry, PublishOwner
<1>4. ASSUME NEW p \in Procs, PublishBinding(p) PROVE BindingInv'
  <2>1. /\ proc[p].pc = "sidecar" /\ UNCHANGED acctRegistry
        /\ acctBinding' = [acctBinding EXCEPT ![proc[p].journal] = proc[p].lease]
    BY <1>4 DEF PublishBinding
  <2>2. proc[p].lease = acctRegistry
    BY <2>1 DEF IInv, JobInv, LeaseInv, Registered, Undecided
  <2> QED
    BY <2>1, <2>2 DEF BindingInv, IInv, TypeOK
<1>5. ASSUME NEW p \in Procs, PublishOwnerBinding(p) PROVE BindingInv'
  <2>1. /\ proc[p].pc = "putBinding" /\ UNCHANGED acctRegistry
        /\ acctBinding' = [acctBinding EXCEPT ![proc[p].journal] = proc[p].lease]
    BY <1>5 DEF PublishOwnerBinding
  <2>2. proc[p].lease # None
    BY <2>1 DEF MigrationInv, ToolInv, ToolOK, Chosen
  <2>3. proc[p].lease = acctRegistry
    BY <2>1, <2>2 DEF IInv, LeaseInv, Undecided
  <2> QED
    BY <2>1, <2>3 DEF BindingInv, IInv, TypeOK
<1>6. \/ UNCHANGED <<acctBinding, acctRegistry>> \/ Outside
      \/ \E p \in Procs : PublishRegistry(p) \/ PublishOwner(p) \/ PublishBinding(p)
                          \/ PublishOwnerBinding(p)
  BY OwnerWriters DEF MigrationNext, allVars, vars, ForeignWrite
<1> QED
  BY <1>1, <1>2, <1>3, <1>4, <1>5, <1>6

(* The tool keeps the UID lock until it ends.                                *)
LEMMA LockedStep ==
  ASSUME IInv, IInv', MigrationInv, ToolLocked, [MigrationNext]_allVars PROVE ToolLocked'
<1>1. CASE UNCHANGED proc
  BY <1>1 DEF ToolLocked
<1>2. ASSUME NEW p \in Procs, Executor(p) \/ Tool(p) PROVE ToolLocked'
  <2>1. ASSUME proc'[p].pc \notin Steps \cup {"lock"} PROVE proc'[p].uid
    <3>1. GoesOn(p)
      BY <1>2, <2>1, ExecutorShape, ToolShape DEF Starts, Ends, Steps
    <3>2. proc'[p].mode = "migrate" /\ proc[p].mode = "migrate"
      BY <2>1, <3>1 DEF IInv, JobInv, GoesOn
    <3>3. proc[p].pc \notin Steps
      BY <3>1, <3>2 DEF GoesOn, IInv, JobInv
    <3> QED
      BY <3>1, <3>3 DEF GoesOn, ToolLocked
  <2>2. \A q \in Procs \ {p} : proc'[q] = proc[q]
    BY <1>2, OthersKept
  <2> QED
    BY <2>1, <2>2 DEF ToolLocked
<1>3. UNCHANGED proc \/ \E p \in Procs : Executor(p) \/ Tool(p)
  BY DEF MigrationNext, allVars, vars, Outside, ReplaceLocks, ReplaceJournal,
     LoseJournal, LoseSidecar, ForeignWrite, Fault
<1> QED
  BY <1>1, <1>2, <1>3

LEMMA QuietLocksStep ==
  ASSUME IInv, MigrationInv, LocksQuiet, NEW p \in Procs, Executor(p) \/ Tool(p)
  PROVE  LocksQuiet'
<1>1. lockFile' = 1
  BY OwnerWriters DEF LocksQuiet
<1>2. proc'[p].mode \in {"account", "migrate"} /\ proc'[p].pc # "idle" => proc'[p].fd = 1
  BY ExecutorShape, ToolShape DEF LocksQuiet, Starts, Ends, GoesOn
<1>3. \A q \in Procs \ {p} : proc'[q] = proc[q]
  BY OthersKept
<1> QED
  BY <1>1, <1>2, <1>3 DEF LocksQuiet

(* A process becomes a newcomer by finding nothing, and no intent appears    *)
(* beside it.                                                                *)
LEMMA NewcomerComes ==
  ASSUME IInv, NEW p \in Procs, Executor(p), Newcomer(p)'
  PROVE  (Newcomer(p) \/ InspectFresh(p)) /\ proc'[p].journal = proc[p].journal
<1>1. proc[p] \in Processes /\ proc \in [Procs -> Processes]
  BY DEF IInv, TypeOK
<1>2. /\ proc'[p].mode = "account" /\ proc'[p].pc \notin {"uid", "inspect", "lock", "idle"}
      /\ proc'[p].pc \in {"key", "bind", "link", "create", "register", "record", "publish"}
      /\ proc'[p].pc \in {"key", "bind", "link", "create", "register"} => proc'[p].lease = None
  BY DEF Newcomer
<1>3. GoesOn(p)
  BY <1>2, ExecutorShape DEF Starts, Ends
<1>4. proc[p].mode = "account"
  BY <1>2, <1>3 DEF GoesOn
<1>5. CASE InspectKnown(p)
  <2>1. proc'[p].pc = "key" /\ proc'[p].lease # None
    BY <1>1, <1>5 DEF InspectKnown, Processes
  <2> QED
    BY <1>2, <2>1
<1>6. CASE TakeKey(p) \/ NewRecord(p)
  <2>1. \/ proc'[p].pc = "bind" /\ proc'[p].lease = proc[p].lease /\ proc[p].pc = "key"
        \/ proc[p].pc = "record"
    BY <1>1, <1>6 DEF TakeKey, NewRecord, Processes
  <2> QED
    BY <1>2, <1>3, <1>4, <2>1 DEF Newcomer, GoesOn
<1>7. CASE TakeUid(p) \/ Confirm(p) \/ Prepare(p)
  <2>1. proc'[p].pc \in {"inspect", "active", "prepared"}
    BY <1>1, <1>7 DEF TakeUid, Confirm, Prepare, Processes
  <2> QED
    BY <1>2, <2>1
<1>8. CASE CheckBinding(p) \/ LinkBinding(p) \/ CreateJournal(p)
  <2>1. /\ \E step \in Steps : Goto(p, step)
        /\ proc[p].pc \in {"bind", "link", "create"}
        /\ proc'[p].pc \in {"create", "link", "register"}
    BY <1>1, <1>8 DEF CheckBinding, LinkBinding, CreateJournal, Steps, Processes
  <2>2. proc'[p].lease = proc[p].lease
    BY <2>1, GoneOn
  <2> QED
    BY <1>2, <1>3, <1>4, <2>1, <2>2 DEF Newcomer, GoesOn
<1>9. CASE Register(p)
  <2>1. proc[p].pc = "register" /\ (proc'[p].pc \in {"active", "confirm"} \/ proc[p].lease = None)
    BY <1>1, <1>9 DEF Register, Processes
  <2> QED
    BY <1>2, <1>3, <1>4, <2>1 DEF Newcomer, GoesOn
<1>10. CASE PublishRegistry(p) \/ PublishBinding(p) \/ AssertHeld(p) \/ Send(p)
  <2>1. proc'[p].pc \in {"sidecar", "confirm", "active", "sending"}
    BY <1>1, <1>10 DEF PublishRegistry, PublishBinding, AssertHeld, Send, Processes
  <2> QED
    BY <1>2, <2>1
<1>11. CASE InspectFresh(p)
  BY <1>3, <1>11 DEF GoesOn
<1>12. ~(End(p) \/ \E m \in Modes, c \in Creds, j \in Journals : Start(p, m, c, j))
  <2>1. CASE End(p)
    BY <1>1, <1>2, <2>1 DEF End, Idle
  <2>2. CASE \E m \in Modes, c \in Creds, j \in Journals : Start(p, m, c, j)
    BY <1>3, <2>2 DEF Start, GoesOn
  <2> QED
    BY <2>1, <2>2
<1> QED
  BY <1>5, <1>6, <1>7, <1>8, <1>9, <1>10, <1>11, <1>12 DEF Executor, Lease

(* How a process comes to publish its intent.                                *)
LEMMA IntentComesFrom ==
  ASSUME IInv, MigrationInv, NEW p \in Procs, Executor(p) \/ Tool(p),
         proc'[p].pc \in {"intent", "putIntent"}
  PROVE  \/ Snapshot(p) /\ proc[p].pc = "intent" /\ proc'[p].pc = "putIntent"
         \/ ChooseRecord(p) /\ proc'[p].pc = "intent"
<1>1. proc[p] \in Processes /\ proc \in [Procs -> Processes]
  BY DEF IInv, TypeOK
<1>2. ~Executor(p)
  BY ExecutorStays DEF Steps
<1>3. GoesOn(p)
  BY <1>2, ToolShape DEF Starts, Ends
<1>4. ~(EndTool(p) \/ (\E c \in Creds, j \in Journals : StartPrepare(p, c, j))
        \/ \E n \in 1..MaxPlans : StartApply(p, n))
  <2>1. ~EndTool(p)
    BY <1>1 DEF EndTool, End, Idle
  <2> QED
    BY <1>3, <2>1 DEF StartPrepare, StartApply, GoesOn
<1>5. ~(LockUid(p) \/ LockKey(p))
  BY <1>1 DEF LockUid, LockKey, Processes
<1>6. ASSUME NEW step, Goto(p, step) PROVE proc'[p].pc = step
  BY <1>1, <1>6 DEF Processes
<1>7. ~(Review(p) \/ PublishPlan(p) \/ Observe(p) \/ PublishBackup(p) \/ UnlinkTemporary(p)
        \/ PublishIntent(p) \/ PublishOwner(p) \/ PublishOwnerBinding(p))
  BY <1>6 DEF Review, PublishPlan, Observe, PublishBackup, UnlinkTemporary,
     PublishIntent, PublishOwner, PublishOwnerBinding
<1>8. Snapshot(p) => proc[p].pc = "intent" /\ proc'[p].pc = "putIntent"
  <2> SUFFICES ASSUME Snapshot(p) PROVE proc[p].pc = "intent" /\ proc'[p].pc = "putIntent"
    OBVIOUS
  <2>1. PICK last \in {"reviewed", "observed", "intent", "owner", "binding", "after"} :
          proc[p].pc = last /\ Goto(p, Checked[last])
    BY DEF Snapshot, Checked
  <2>2. proc'[p].pc = Checked[last]
    BY <1>6, <2>1
  <2> QED
    BY <2>1, <2>2 DEF Checked
<1>9. ChooseRecord(p) => proc'[p].pc = "intent"
  BY <1>1 DEF ChooseRecord, Processes
<1> QED
  BY <1>2, <1>4, <1>5, <1>7, <1>8, <1>9 DEF Tool, Apply

(* Publishing the intent or the owner record is done under the UID lock.     *)
LEMMA WritersHold ==
  ASSUME IInv, NEW p \in Procs, PublishRegistry(p) \/ PublishOwner(p) \/ PublishIntent(p)
  PROVE  Holding(p)
<1>1. CASE PublishRegistry(p)
  BY <1>1 DEF PublishRegistry, IInv, JobInv, Newcomer, Holding
<1>2. CASE PublishOwner(p) \/ PublishIntent(p)
  BY <1>2 DEF PublishOwner, PublishIntent, Holding, Steps
<1> QED
  BY <1>1, <1>2

LEMMA NewcomersStep ==
  ASSUME IInv, MigrationInv, ToolLocked, Quiet, NEW p \in Procs, Executor(p) \/ Tool(p)
  PROVE  NewcomersFree'
<1> USE DEF Quiet
<1>1. ASSUME NEW q \in Procs, Newcomer(q), proc'[q].journal = proc[q].journal
      PROVE  intent'[proc'[q].journal] = None
  <2>1. CASE UNCHANGED intent
    BY <1>1, <2>1 DEF NewcomersFree
  <2>2. CASE PublishIntent(p)
    <3>1. p = q
      BY <1>1, <2>2, WritersHold, Alone DEF Holding
    <3> QED
      BY <1>1, <2>2, <3>1 DEF PublishIntent, Newcomer
  <2> QED
    BY <2>1, <2>2, OwnerWriters
<1>2. ASSUME NEW q \in Procs, Newcomer(q)' PROVE intent'[proc'[q].journal] = None
  <2>1. CASE q # p
    <3>1. proc'[q] = proc[q]
      BY <2>1, OthersKept
    <3> QED
      BY <1>1, <1>2, <3>1 DEF Newcomer
  <2>2. CASE q = p
    <3>1. CASE Executor(p)
      <4>1. (Newcomer(p) \/ InspectFresh(p)) /\ proc'[p].journal = proc[p].journal
        BY <1>2, <2>2, <3>1, NewcomerComes
      <4>2. CASE InspectFresh(p)
        <5>1. proc[p].journal \in Journals /\ ~Exists(proc[p].journal)
          BY <4>2 DEF InspectFresh, IInv, JobInv
        <5>2. intent[proc[p].journal] = None
          BY <5>1 DEF FilesThere
        <5> QED
          BY <2>2, <3>1, <4>1, <5>2 DEF Executor, migration
      <4> QED
        BY <1>1, <2>2, <4>1, <4>2
    <3>2. CASE Tool(p)
      <4>1. GoesOn(p)
        BY <1>2, <2>2, <3>2, ToolShape DEF Newcomer, Starts, Ends
      <4>2. proc[p].mode = "account" /\ proc[p].pc # "idle"
        BY <1>2, <2>2, <4>1 DEF Newcomer, GoesOn
      <4>3. proc[p].pc \in Steps
        BY <4>2 DEF IInv, JobInv
      <4> QED
        BY <3>2, <4>2, <4>3 DEF Tool, Apply, StartPrepare, StartApply, LockUid, LockKey, Snapshot,
           Checked, Review, InScope, PublishPlan, Observe, PublishBackup, UnlinkTemporary,
           ChooseRecord, PublishIntent, PublishOwner, PublishOwnerBinding, Steps
    <3> QED
      BY <3>1, <3>2
  <2> QED
    BY <2>1, <2>2
<1> QED
  BY <1>2 DEF NewcomersFree

LEMMA FilesThereStep ==
  ASSUME IInv, MigrationInv, Quiet, NEW p \in Procs, Executor(p) \/ Tool(p)
  PROVE  FilesThere'
<1> USE DEF Quiet
<1>1. \A j \in Journals : Exists(j) => Exists(j)'
  <2>1. CASE Executor(p)
    BY <2>1, LeaseKeeps DEF Executor, FilesKept, Exists
  <2>2. CASE Tool(p)
    <3>1. UNCHANGED journal
      BY <2>2 DEF Tool, Apply, StartPrepare, StartApply, LockUid, LockKey, Snapshot, Review,
         PublishPlan, Observe, PublishBackup, UnlinkTemporary, ChooseRecord, PublishIntent,
         PublishOwner, PublishOwnerBinding, EndTool, End
    <3> QED
      BY <3>1 DEF Exists
  <2> QED
    BY <2>1, <2>2
<1>2. ASSUME NEW j \in Journals, intent'[j] # None PROVE Exists(j)'
  <2>1. CASE UNCHANGED intent
    BY <1>1, <1>2, <2>1 DEF FilesThere
  <2>2. CASE PublishIntent(p)
    <3>1. proc[p].pc = "putIntent" /\ (j = proc[p].journal \/ intent'[j] = intent[j])
      BY <2>2 DEF PublishIntent, MigrationInv, MigrationTypeOK
    <3> QED
      BY <1>1, <1>2, <3>1 DEF FilesThere
  <2> QED
    BY <2>1, <2>2, OwnerWriters
<1>3. ASSUME NEW q \in Procs, proc'[q].pc = "putIntent" PROVE Exists(proc[q].journal)'
                                                        /\ proc'[q].journal = proc[q].journal
  <2>1. CASE q # p
    <3>1. proc'[q] = proc[q] /\ proc[q].journal \in Journals
      BY <1>3, <2>1, OthersKept DEF IInv, JobInv
    <3> QED
      BY <1>1, <1>3, <3>1 DEF FilesThere
  <2>2. CASE q = p
    <3>1. GoesOn(p) /\ proc[p].journal \in Journals
      BY <1>3, <2>2, ExecutorShape, ToolShape DEF Starts, Ends, GoesOn, IInv, JobInv
    <3>2. Snapshot(p) /\ proc[p].pc = "intent"
      BY <1>3, <2>2, IntentComesFrom
    <3>3. Exists(proc[p].journal)
      BY <3>2 DEF Snapshot, Unchanged, OriginalSchema
    <3> QED
      BY <1>1, <2>2, <3>1, <3>3 DEF GoesOn
  <2> QED
    BY <2>1, <2>2
<1> QED
  BY <1>2, <1>3 DEF FilesThere

(* Nothing but the record of the intent becomes the owner record.            *)
LEMMA OwnersStep ==
  ASSUME IInv, MigrationInv, Quiet, NEW p \in Procs, Executor(p) \/ Tool(p)
  PROVE  OwnersMatch'
<1> USE DEF Quiet
<1>1. SUFFICES ASSUME NEW j \in Journals, intent'[j] # None, acctRegistry' # None,
                      acctRegistry'.journal = j
               PROVE  acctRegistry' = intent'[j].record
  BY DEF OwnersMatch
<1>2. CASE UNCHANGED <<acctRegistry, intent>>
  BY <1>1, <1>2 DEF OwnersMatch
<1>3. CASE PublishIntent(p)
  <2>1. /\ proc[p].pc = "putIntent" /\ UNCHANGED acctRegistry
        /\ intent[proc[p].journal] \in
             {None, [plan |-> tool[p].plan, record |-> proc[p].lease]}
        /\ intent' = [intent EXCEPT ![proc[p].journal] =
                        [plan |-> tool[p].plan, record |-> proc[p].lease]]
    BY <1>3 DEF PublishIntent
  <2>2. \/ intent[proc[p].journal] # None /\ intent[proc[p].journal].record = proc[p].lease
        \/ acctRegistry = None
    BY <2>1 DEF UndecidedMatch
  <2>3. intent[j] # None /\ intent'[j] = intent[j]
    BY <1>1, <2>1, <2>2 DEF MigrationInv, MigrationTypeOK, UndecidedMatch
  <2> QED
    BY <1>1, <2>1, <2>3 DEF OwnersMatch
<1>4. CASE PublishRegistry(p)
  <2>1. /\ proc[p].pc = "publish" /\ acctRegistry' = proc[p].lease
        /\ Newcomer(p)
    BY <1>4 DEF PublishRegistry, Newcomer, IInv, JobInv
  <2>2. proc[p].journal = j
    BY <1>1, <2>1 DEF IInv, LeaseInv
  <2>3. intent[j] = None
    BY <2>1, <2>2 DEF NewcomersFree
  <2>4. UNCHANGED intent
    BY <2>1, OwnerWriters DEF PublishIntent
  <2> QED
    BY <1>1, <2>3, <2>4
<1>5. CASE PublishOwner(p)
  <2>1. proc[p].pc = "putOwner" /\ acctRegistry' = proc[p].lease /\ UNCHANGED intent
    BY <1>5 DEF PublishOwner, migration
  <2>2. proc[p].journal = j
    BY <1>1, <2>1 DEF IInv, LeaseInv
  <2>3. intent[j] = [plan |-> tool[p].plan, record |-> proc[p].lease]
    BY <2>1, <2>2 DEF MigrationInv, ToolInv, ToolOK, Pinned
  <2> QED
    BY <2>1, <2>3
<1> QED
  BY <1>2, <1>3, <1>4, <1>5, OwnerWriters

(* An apply that has chosen its record finds no other until it is published. *)
LEMMA UndecidedStep ==
  ASSUME IInv, MigrationInv, ToolLocked, Quiet, NEW p \in Procs, Executor(p) \/ Tool(p)
  PROVE  UndecidedMatch'
<1> USE DEF Quiet
<1>1. SUFFICES ASSUME NEW q \in Procs, proc'[q].pc \in {"intent", "putIntent"}
               PROVE  \/ intent'[proc'[q].journal] = None /\ acctRegistry' = None
                      \/ /\ intent'[proc'[q].journal] # None
                         /\ intent'[proc'[q].journal].plan = tool'[q].plan
                         /\ intent'[proc'[q].journal].record = proc'[q].lease
  BY DEF UndecidedMatch
<1>2. CASE q # p
  <2>1. proc'[q] = proc[q] /\ tool'[q] = tool[q]
    BY <1>2, OthersKept
  <2>2. Holding(q)
    BY <1>1, <2>1 DEF Holding, Steps
  <2>3. UNCHANGED <<acctRegistry, intent>>
    <3>1. ~(PublishRegistry(p) \/ PublishOwner(p) \/ PublishIntent(p))
      BY <1>2, <2>2, WritersHold, Alone
    <3> QED
      BY <3>1, OwnerWriters
  <2> QED
    BY <1>1, <2>1, <2>3 DEF UndecidedMatch
<1>3. CASE q = p
  <2>1. (Snapshot(p) /\ proc[p].pc = "intent") \/ ChooseRecord(p)
    BY <1>1, <1>3, IntentComesFrom
  <2>2. proc[p] \in Processes /\ proc \in [Procs -> Processes]
    BY DEF IInv, TypeOK
  <2>3. CASE Snapshot(p) /\ proc[p].pc = "intent"
    <3>1. /\ UNCHANGED <<acctRegistry, intent, tool>>
          /\ proc'[p].journal = proc[p].journal /\ proc'[p].lease = proc[p].lease
      BY <2>2, <2>3 DEF Snapshot, migration, Processes
    <3> QED
      BY <1>3, <2>3, <3>1 DEF UndecidedMatch
  <2>4. CASE ChooseRecord(p)
    <3>1. /\ UNCHANGED <<acctRegistry, intent, tool>> /\ Choosable(p)
          /\ proc'[p].journal = proc[p].journal /\ proc'[p].lease = ResumedRecord(p)
      BY <2>2, <2>4 DEF ChooseRecord, migration, Processes
    <3> QED
      BY <1>3, <3>1 DEF Choosable, ResumedRecord
  <2> QED
    BY <2>1, <2>3, <2>4
<1> QED
  BY <1>2, <1>3

LEMMA RepetitionStep ==
  ASSUME IInv, IInv', MigrationInv, RepetitionInv, [MigrationNext]_allVars PROVE RepetitionInv'
<1>1. BindingInv' /\ ToolLocked'
  BY BindingStep, LockedStep DEF RepetitionInv
<1>2. ASSUME faults' = 0 PROVE Quiet'
  <2>1. faults = 0 /\ ~Outside /\ \A j \in Journals : ~ForeignWrite(j)
    <3>1. faults \in Nat
      BY DEF IInv, TypeOK
    <3>2. ~Outside /\ \A j \in Journals : ~ForeignWrite(j)
      BY <1>2, <3>1 DEF Outside, ReplaceLocks, ReplaceJournal, LoseJournal, LoseSidecar,
         ForeignWrite, Fault
    <3> QED
      BY <1>2, <3>2, OwnerWriters DEF MigrationNext, allVars, vars
  <2>2. Quiet
    BY <2>1 DEF RepetitionInv
  <2>3. CASE UNCHANGED allVars
    BY <2>2, <2>3 DEF allVars, vars, migration, Quiet, LocksQuiet, NewcomersFree, Newcomer,
       FilesThere, Exists, OwnersMatch, UndecidedMatch
  <2>4. ASSUME NEW p \in Procs, Executor(p) \/ Tool(p) PROVE Quiet'
    BY <2>2, <2>4, QuietLocksStep, NewcomersStep, FilesThereStep, OwnersStep, UndecidedStep
       DEF Quiet, RepetitionInv
  <2> QED
    BY <2>1, <2>3, <2>4 DEF MigrationNext
<1> QED
  BY <1>1, <1>2 DEF RepetitionInv

(* What each publication asks for, a repetition of the apply finds.          *)
LEMMA RepetitionGoesOn ==
  ASSUME IInv, MigrationInv, RepetitionInv, NEW p \in Procs, RepeatedApply(p),
         acctRegistry = None \/ acctRegistry.journal = proc[p].journal
  PROVE  StepAccepted(p)
<1> DEFINE j == proc[p].journal
           n == tool[p].plan
           i == intent[j]
<1>1. /\ n # 0 /\ i # None /\ i.plan = n /\ faults = 0 /\ journal[j] = plans[n].file
  BY DEF RepeatedApply, InputsKept
<1>2. Quiet /\ BindingInv /\ ToolOK(p)
  BY <1>1 DEF RepetitionInv, MigrationInv, ToolInv
<1>3. CASE proc[p].pc = "idle"
  BY <1>3 DEF StepAccepted
<1>4. ASSUME proc[p].pc # "idle" PROVE StepAccepted(p)
  <2>1. j \in Journals
    BY <1>4 DEF IInv, JobInv
  <2>2. /\ plans[n].journal = j /\ backup[n] = [rows |-> plans[n].file.rows, links |-> 1]
        /\ i.record.cred = plans[n].cred /\ i.record.journal = j
        /\ i.record.inode = plans[n].file.inode /\ n \in 1..Len(plans)
    <3>1. intent[j] # None /\ intent[j].plan = n
      BY <1>1
    <3>2. /\ plans[intent[j].plan].journal = j /\ intent[j].plan \in 1..Len(plans)
          /\ Copied(intent[j].plan)
          /\ intent[j].record.cred = plans[intent[j].plan].cred /\ intent[j].record.journal = j
          /\ intent[j].record.inode = plans[intent[j].plan].file.inode
      BY <2>1, <3>1 DEF MigrationInv, IntentInv
    <3>3. Copied(n)
      BY <3>1, <3>2
    <3> QED
      BY <3>1, <3>2, <3>3 DEF Copied
  <2>3. Independent(n) /\ backup[n].rows = plans[n].file.rows
    <3>1. plans[n] \in Plan
      BY <2>2 DEF MigrationInv, MigrationTypeOK
    <3>2. backup[n] \in Backup
      BY <2>2, <3>1 DEF Backup, Plan, File
    <3> QED
      BY <2>2, <3>2, MissingAssumption DEF Independent
  <2>4. acctRegistry \in {None, i.record}
    BY <1>1, <1>2, <2>1 DEF Quiet, OwnersMatch
  <2>5. acctBinding[j] \in {None, i.record}
    BY <1>2, <2>1, <2>4 DEF BindingInv
  <2>6. proc[p].cred = plans[n].cred
    BY <1>1, <1>2 DEF ToolOK, PlanOf
  <2>7. At(p, "choose") => Choosable(p)
    <3>1. ResumedRecord(p) = i.record
      BY <1>1 DEF ResumedRecord
    <3>2. ValidRecord(i.record, proc[p].cred, j)
      BY <1>1, <2>2, <2>6 DEF ValidRecord
    <3> QED
      BY <1>1, <2>3, <2>4, <2>5, <3>1, <3>2 DEF Choosable, PlanOf
  <2>8. At(p, "putIntent") => i.record = proc[p].lease
    BY <1>1, <1>2 DEF Quiet, UndecidedMatch
  <2>9. At(p, "putOwner") => acctRegistry \in {None, proc[p].lease}
    <3>1. At(p, "putOwner") => i.record = proc[p].lease
      BY <1>2 DEF ToolOK, Pinned
    <3> QED
      BY <2>4, <3>1
  <2>10. At(p, "putBinding") => acctBinding[j] \in {None, proc[p].lease}
    <3>1. At(p, "putBinding") => i.record = proc[p].lease
      BY <1>2 DEF ToolOK, Pinned
    <3> QED
      BY <2>5, <3>1
  <2> QED
    BY <1>1, <2>3, <2>7, <2>8, <2>9, <2>10 DEF StepAccepted
<1> QED
  BY <1>3, <1>4

(* An interrupted migration is finished by repeating the same apply: none of *)
(* its steps is refused, whatever was left behind and whoever ran meanwhile, *)
(* unless another key took the account (account_migration.apply).            *)
THEOREM RepetitionAcceptedHolds == MigrationSpec => []RepetitionAccepted
<1>1. MigrationInit => RepetitionInv
  <2> SUFFICES ASSUME MigrationInit PROVE RepetitionInv
    OBVIOUS
  <2>1. \A p \in Procs : proc[p].pc = "idle" /\ proc[p].mode = None
    BY DEF MigrationInit, Init, Idle
  <2> QED
    BY <2>1 DEF MigrationInit, Init, RepetitionInv, BindingInv, ToolLocked, Quiet, LocksQuiet,
       NewcomersFree, Newcomer, FilesThere, OwnersMatch, UndecidedMatch, Steps
<1>2. /\ IInv /\ MigrationInv /\ IInv' /\ RepetitionInv /\ [MigrationNext]_allVars
      => RepetitionInv'
  BY RepetitionStep
<1>3. MigrationSpec => []RepetitionInv
  BY MigrationInductive, <1>1, <1>2, PTL DEF MigrationSpec
<1>4. IInv /\ MigrationInv /\ RepetitionInv => RepetitionAccepted
  BY RepetitionGoesOn DEF RepetitionAccepted
<1> QED
  BY MigrationInductive, <1>3, <1>4, PTL
=============================================================================
