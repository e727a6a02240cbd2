------------------------ MODULE DailyBaselineProofs ------------------------
(* For any number of processes, days, equities and losses of the file: a day *)
(* has one baseline, and no admitted entry exceeds its loss limit.           *)
EXTENDS DailyBaseline, TLAPS

Opened == {"lock", "restore"}

\* The state in force is the latest baseline, and backups hold baselines.
FileInv ==
    /\ file # None => file \in baselines /\ \A b \in baselines : b.day <= file.day
    /\ backups \subseteq baselines

\* Nothing is dated later than the clock.
ClockInv ==
    /\ \A b \in baselines : b.day <= today
    /\ \A p \in Procs : proc[p].day <= today

\* What a process has read under the lock still holds when it uses it.
SeenInv ==
    \A p \in Procs :
        /\ proc[p].pc = "roll" => \A b \in baselines : b.day < proc[p].day
        /\ proc[p].pc = "judge" =>
             proc[p].seen \in baselines /\ proc[p].seen.day = proc[p].day

\* A bundle to restore is a baseline and, while there is no state, the latest.
RestoreInv ==
    \A p \in Procs :
        /\ proc[p].pc = "lock" => proc[p].job \in {"evaluate", "backup", "restore"}
        /\ proc[p].pc = "clock" => proc[p].job = "evaluate"
        /\ proc[p].pc = "idle" => proc[p].job # "restore"
        /\ proc[p].pc \in Locked \ {"restore"} => proc[p].job # "restore"
        /\ proc[p].pc = "restore" => proc[p].job = "restore"
        /\ proc[p].job = "restore" =>
             /\ proc[p].seen \in baselines
             /\ file = None => \A b \in baselines : b.day <= proc[p].seen.day

\* Entries are admitted on days that have a baseline.
AdmittedInv == \A v \in admitted : \E b \in baselines : b.day = v.day

IInv ==
    /\ TypeOK /\ FileInv /\ ClockInv /\ SeenInv /\ RestoreInv /\ AdmittedInv
    /\ OneBaselinePerDay /\ LossLimitHolds

-----------------------------------------------------------------------------

USE DailyAssumption, NoneAssumption
USE DEF At, State

LEMMA Initially == Init => IInv
<1> SUFFICES ASSUME Init PROVE IInv
  OBVIOUS
<1> USE DEF Init, Idle, Locked
<1>1. TypeOK /\ FileInv /\ ClockInv
  BY DEF TypeOK, Processes, FileInv, ClockInv
<1>2. SeenInv /\ RestoreInv /\ AdmittedInv
  BY DEF SeenInv, RestoreInv, AdmittedInv
<1>3. OneBaselinePerDay /\ LossLimitHolds
  BY DEF OneBaselinePerDay, LossLimitHolds
<1> QED
  BY <1>1, <1>2, <1>3 DEF IInv

(* What a process notes before it takes the lock.                            *)
LEMMA Noted ==
  ASSUME NEW x \in Processes
  PROVE  /\ \A e \in Nat :
              [x EXCEPT !.pc = "clock", !.job = "evaluate", !.equity = e] \in Processes
         /\ \A d \in Nat :
              /\ [x EXCEPT !.pc = "lock", !.day = d] \in Processes
              /\ [x EXCEPT !.pc = "lock", !.job = "backup", !.day = d] \in Processes
BY DEF Processes

LEMMA TypeOKStep == ASSUME IInv, [Next]_vars PROVE TypeOK'
<1> USE DEF IInv, TypeOK, RestoreInv, Locked
<1>1. ASSUME NEW p \in Procs, Observe(p) PROVE TypeOK'
  <2>1. proc' \in [Procs -> Processes]
    <3>1. PICK e \in Equities :
            proc' = [proc EXCEPT ![p] = [proc[p] EXCEPT !.pc = "clock", !.job = "evaluate", !.equity = e]]
      BY <1>1 DEF Observe
    <3>2. e \in Nat
      OBVIOUS
    <3> QED
      BY <3>1, <3>2, Noted
  <2>2. \A q \in Procs : lock' = q <=> proc'[q].pc \in Locked
    BY <1>1 DEF Observe
  <2> QED
    BY <1>1, <2>1, <2>2 DEF Observe
<1>2. ASSUME NEW p \in Procs, ReadClock(p) PROVE TypeOK'
  <2>1. proc' \in [Procs -> Processes]
    <3>1. proc' = [proc EXCEPT ![p] = [proc[p] EXCEPT !.pc = "lock", !.day = today]]
      BY <1>2 DEF ReadClock
    <3>2. today \in Nat
      OBVIOUS
    <3> QED
      BY <3>1, <3>2, Noted
  <2>2. \A q \in Procs : lock' = q <=> proc'[q].pc \in Locked
    BY <1>2 DEF ReadClock
  <2> QED
    BY <1>2, <2>1, <2>2 DEF ReadClock
<1>3. ASSUME NEW p \in Procs, StartBackup(p) PROVE TypeOK'
  <2>1. proc' \in [Procs -> Processes]
    <3>1. proc' = [proc EXCEPT ![p] = [proc[p] EXCEPT !.pc = "lock", !.job = "backup", !.day = today]]
      BY <1>3 DEF StartBackup
    <3>2. today \in Nat
      OBVIOUS
    <3> QED
      BY <3>1, <3>2, Noted
  <2>2. \A q \in Procs : lock' = q <=> proc'[q].pc \in Locked
    BY <1>3 DEF StartBackup
  <2> QED
    BY <1>3, <2>1, <2>2 DEF StartBackup
<1>4. ASSUME NEW p \in Procs, StartRestore(p) PROVE TypeOK'
  <2>1. proc' \in [Procs -> Processes]
    BY <1>4 DEF StartRestore, Processes, SameDay
  <2>2. \A q \in Procs : lock' = q <=> proc'[q].pc \in Locked
    BY <1>4 DEF StartRestore, SameDay
  <2> QED
    BY <1>4, <2>1, <2>2 DEF StartRestore, SameDay
<1>5. ASSUME NEW p \in Procs, TakeLock(p) PROVE TypeOK'
  <2>1. proc' \in [Procs -> Processes]
    BY <1>5 DEF TakeLock, Processes, Unlocked
  <2>2. \A q \in Procs : lock' = q <=> proc'[q].pc \in Locked
    BY <1>5 DEF TakeLock, Unlocked
  <2> QED
    BY <1>5, <2>1, <2>2 DEF TakeLock, Unlocked
<1>6. ASSUME NEW p \in Procs, Load(p) PROVE TypeOK'
  <2>1. proc' \in [Procs -> Processes]
    BY <1>6 DEF Load, Processes
  <2>2. \A q \in Procs : lock' = q <=> proc'[q].pc \in Locked
    BY <1>6 DEF Load
  <2> QED
    BY <1>6, <2>1, <2>2 DEF Load
<1>7. ASSUME NEW p \in Procs, Roll(p) PROVE TypeOK'
  <2>1. proc' \in [Procs -> Processes]
    BY <1>7 DEF Roll, Processes
  <2>2. \A q \in Procs : lock' = q <=> proc'[q].pc \in Locked
    BY <1>7 DEF Roll
  <2>3. file' \in State /\ baselines' \subseteq State
    BY <1>7 DEF Roll, Processes
  <2> QED
    BY <1>7, <2>1, <2>2, <2>3 DEF Roll
<1>8. ASSUME NEW p \in Procs, Judge(p) PROVE TypeOK'
  <2>1. proc' \in [Procs -> Processes]
    BY <1>8 DEF Judge, Processes, LossReached, Idle
  <2>2. \A q \in Procs : lock' = q <=> proc'[q].pc \in Locked
    BY <1>8 DEF Judge, LossReached, Idle
  <2>3. admitted' \subseteq [day : Nat, equity : Nat]
    BY <1>8 DEF Judge, Processes
  <2> QED
    BY <1>8, <2>1, <2>2, <2>3 DEF Judge, LossReached, Idle
<1>9. ASSUME NEW p \in Procs, Backup(p) PROVE TypeOK'
  <2>1. proc' \in [Procs -> Processes]
    BY <1>9 DEF Backup, Processes, SameDay, Idle
  <2>2. \A q \in Procs : lock' = q <=> proc'[q].pc \in Locked
    BY <1>9 DEF Backup, SameDay, Idle
  <2> QED
    BY <1>9, <2>1, <2>2 DEF Backup, SameDay, Idle
<1>10. ASSUME NEW p \in Procs, Restore(p) PROVE TypeOK'
  <2>1. proc' \in [Procs -> Processes]
    BY <1>10 DEF Restore, Processes, Vacant, Idle
  <2>2. \A q \in Procs : lock' = q <=> proc'[q].pc \in Locked
    BY <1>10 DEF Restore, Vacant, Idle
  <2> QED
    BY <1>10, <2>1, <2>2 DEF Restore, Vacant, Idle
<1>11. ASSUME NEW p \in Procs, End(p) PROVE TypeOK'
  <2>1. proc' \in [Procs -> Processes]
    BY <1>11 DEF End, Processes, Released, Idle
  <2>2. \A q \in Procs : lock' = q <=> proc'[q].pc \in Locked
    BY <1>11 DEF End, Released, Idle
  <2> QED
    BY <1>11, <2>1, <2>2 DEF End, Released, Idle
<1>12. ASSUME Midnight PROVE TypeOK'
  BY <1>12 DEF Midnight
<1>13. ASSUME LoseFile PROVE TypeOK'
  BY <1>13 DEF LoseFile
<1>14. ASSUME UNCHANGED vars PROVE TypeOK'
  BY <1>14 DEF vars
<1> QED
  BY <1>1, <1>2, <1>3, <1>4, <1>5, <1>6, <1>7, <1>8, <1>9, <1>10, <1>11, <1>12, <1>13,
     <1>14 DEF Next

LEMMA FileInvStep == ASSUME IInv, [Next]_vars PROVE FileInv'
<1> USE DEF IInv, TypeOK, Processes, FileInv, SeenInv, RestoreInv, Locked
<1>1. ASSUME NEW p \in Procs, Observe(p) PROVE FileInv'
  BY <1>1 DEF Observe
<1>2. ASSUME NEW p \in Procs, ReadClock(p) PROVE FileInv'
  BY <1>2 DEF ReadClock
<1>3. ASSUME NEW p \in Procs, StartBackup(p) PROVE FileInv'
  BY <1>3 DEF StartBackup
<1>4. ASSUME NEW p \in Procs, StartRestore(p) PROVE FileInv'
  BY <1>4 DEF StartRestore, SameDay
<1>5. ASSUME NEW p \in Procs, TakeLock(p) PROVE FileInv'
  BY <1>5 DEF TakeLock, Unlocked
<1>6. ASSUME NEW p \in Procs, Load(p) PROVE FileInv'
  BY <1>6 DEF Load
<1>7. ASSUME NEW p \in Procs, Roll(p) PROVE FileInv'
  BY <1>7 DEF Roll
<1>8. ASSUME NEW p \in Procs, Judge(p) PROVE FileInv'
  BY <1>8 DEF Judge, LossReached, Idle
<1>9. ASSUME NEW p \in Procs, Backup(p) PROVE FileInv'
  BY <1>9 DEF Backup, SameDay, Idle
<1>10. ASSUME NEW p \in Procs, Restore(p) PROVE FileInv'
  BY <1>10 DEF Restore, Vacant, Idle
<1>11. ASSUME NEW p \in Procs, End(p) PROVE FileInv'
  BY <1>11 DEF End, Released, Idle
<1>12. ASSUME Midnight PROVE FileInv'
  BY <1>12 DEF Midnight
<1>13. ASSUME LoseFile PROVE FileInv'
  BY <1>13 DEF LoseFile
<1>14. ASSUME UNCHANGED vars PROVE FileInv'
  BY <1>14 DEF vars
<1> QED
  BY <1>1, <1>2, <1>3, <1>4, <1>5, <1>6, <1>7, <1>8, <1>9, <1>10, <1>11, <1>12, <1>13,
     <1>14 DEF Next

LEMMA ClockInvStep == ASSUME IInv, [Next]_vars PROVE ClockInv'
<1> USE DEF IInv, TypeOK, Processes, ClockInv, FileInv, RestoreInv
<1>1. ASSUME NEW p \in Procs, Observe(p) PROVE ClockInv'
  BY <1>1 DEF Observe
<1>2. ASSUME NEW p \in Procs, ReadClock(p) PROVE ClockInv'
  BY <1>2 DEF ReadClock
<1>3. ASSUME NEW p \in Procs, StartBackup(p) PROVE ClockInv'
  BY <1>3 DEF StartBackup
<1>4. ASSUME NEW p \in Procs, StartRestore(p) PROVE ClockInv'
  BY <1>4 DEF StartRestore, SameDay
<1>5. ASSUME NEW p \in Procs, TakeLock(p) PROVE ClockInv'
  BY <1>5 DEF TakeLock, Unlocked
<1>6. ASSUME NEW p \in Procs, Load(p) PROVE ClockInv'
  BY <1>6 DEF Load
<1>7. ASSUME NEW p \in Procs, Roll(p) PROVE ClockInv'
  BY <1>7 DEF Roll
<1>8. ASSUME NEW p \in Procs, Judge(p) PROVE ClockInv'
  BY <1>8 DEF Judge, LossReached, Idle
<1>9. ASSUME NEW p \in Procs, Backup(p) PROVE ClockInv'
  BY <1>9 DEF Backup, SameDay, Idle
<1>10. ASSUME NEW p \in Procs, Restore(p) PROVE ClockInv'
  BY <1>10 DEF Restore, Vacant, Idle
<1>11. ASSUME NEW p \in Procs, End(p) PROVE ClockInv'
  BY <1>11 DEF End, Released, Idle
<1>12. ASSUME Midnight PROVE ClockInv'
  BY <1>12 DEF Midnight
<1>13. ASSUME LoseFile PROVE ClockInv'
  BY <1>13 DEF LoseFile
<1>14. ASSUME UNCHANGED vars PROVE ClockInv'
  BY <1>14 DEF vars
<1> QED
  BY <1>1, <1>2, <1>3, <1>4, <1>5, <1>6, <1>7, <1>8, <1>9, <1>10, <1>11, <1>12, <1>13,
     <1>14 DEF Next

LEMMA SeenInvStep == ASSUME IInv, [Next]_vars PROVE SeenInv'
<1> USE DEF IInv, TypeOK, Processes, SeenInv, RestoreInv, FileInv, ClockInv, Locked
<1>1. ASSUME NEW p \in Procs, Observe(p) PROVE SeenInv'
  BY <1>1 DEF Observe
<1>2. ASSUME NEW p \in Procs, ReadClock(p) PROVE SeenInv'
  BY <1>2 DEF ReadClock
<1>3. ASSUME NEW p \in Procs, StartBackup(p) PROVE SeenInv'
  BY <1>3 DEF StartBackup
<1>4. ASSUME NEW p \in Procs, StartRestore(p) PROVE SeenInv'
  BY <1>4 DEF StartRestore, SameDay
<1>5. ASSUME NEW p \in Procs, TakeLock(p) PROVE SeenInv'
  BY <1>5 DEF TakeLock, Unlocked
<1>6. ASSUME NEW p \in Procs, Load(p) PROVE SeenInv'
  BY <1>6 DEF Load
<1>7. ASSUME NEW p \in Procs, Roll(p) PROVE SeenInv'
  BY <1>7 DEF Roll
<1>8. ASSUME NEW p \in Procs, Judge(p) PROVE SeenInv'
  BY <1>8 DEF Judge, LossReached, Idle
<1>9. ASSUME NEW p \in Procs, Backup(p) PROVE SeenInv'
  BY <1>9 DEF Backup, SameDay, Idle
<1>10. ASSUME NEW p \in Procs, Restore(p) PROVE SeenInv'
  BY <1>10 DEF Restore, Vacant, Idle
<1>11. ASSUME NEW p \in Procs, End(p) PROVE SeenInv'
  BY <1>11 DEF End, Released, Idle
<1>12. ASSUME Midnight PROVE SeenInv'
  BY <1>12 DEF Midnight
<1>13. ASSUME LoseFile PROVE SeenInv'
  BY <1>13 DEF LoseFile
<1>14. ASSUME UNCHANGED vars PROVE SeenInv'
  BY <1>14 DEF vars
<1> QED
  BY <1>1, <1>2, <1>3, <1>4, <1>5, <1>6, <1>7, <1>8, <1>9, <1>10, <1>11, <1>12, <1>13,
     <1>14 DEF Next

LEMMA RestoreInvStep == ASSUME IInv, [Next]_vars PROVE RestoreInv'
<1> USE DEF IInv, TypeOK, Processes, RestoreInv, FileInv, ClockInv, Locked
<1>1. ASSUME NEW p \in Procs, Observe(p) PROVE RestoreInv'
  BY <1>1 DEF Observe
<1>2. ASSUME NEW p \in Procs, ReadClock(p) PROVE RestoreInv'
  BY <1>2 DEF ReadClock
<1>3. ASSUME NEW p \in Procs, StartBackup(p) PROVE RestoreInv'
  BY <1>3 DEF StartBackup
<1>4. ASSUME NEW p \in Procs, StartRestore(p) PROVE RestoreInv'
  BY <1>4 DEF StartRestore, SameDay
<1>5. ASSUME NEW p \in Procs, TakeLock(p) PROVE RestoreInv'
  BY <1>5 DEF TakeLock, Unlocked
<1>6. ASSUME NEW p \in Procs, Load(p) PROVE RestoreInv'
  BY <1>6 DEF Load
<1>7. ASSUME NEW p \in Procs, Roll(p) PROVE RestoreInv'
  BY <1>7 DEF Roll
<1>8. ASSUME NEW p \in Procs, Judge(p) PROVE RestoreInv'
  BY <1>8 DEF Judge, LossReached, Idle
<1>9. ASSUME NEW p \in Procs, Backup(p) PROVE RestoreInv'
  BY <1>9 DEF Backup, SameDay, Idle
<1>10. ASSUME NEW p \in Procs, Restore(p) PROVE RestoreInv'
  BY <1>10 DEF Restore, Vacant, Idle
<1>11. ASSUME NEW p \in Procs, End(p) PROVE RestoreInv'
  BY <1>11 DEF End, Released, Idle
<1>12. ASSUME Midnight PROVE RestoreInv'
  BY <1>12 DEF Midnight
<1>13. ASSUME LoseFile PROVE RestoreInv'
  BY <1>13 DEF LoseFile
<1>14. ASSUME UNCHANGED vars PROVE RestoreInv'
  BY <1>14 DEF vars
<1> QED
  BY <1>1, <1>2, <1>3, <1>4, <1>5, <1>6, <1>7, <1>8, <1>9, <1>10, <1>11, <1>12, <1>13,
     <1>14 DEF Next

LEMMA AdmittedInvStep == ASSUME IInv, [Next]_vars PROVE AdmittedInv'
<1> USE DEF IInv, TypeOK, Processes, AdmittedInv, SeenInv
<1>1. ASSUME NEW p \in Procs, Observe(p) PROVE AdmittedInv'
  BY <1>1 DEF Observe
<1>2. ASSUME NEW p \in Procs, ReadClock(p) PROVE AdmittedInv'
  BY <1>2 DEF ReadClock
<1>3. ASSUME NEW p \in Procs, StartBackup(p) PROVE AdmittedInv'
  BY <1>3 DEF StartBackup
<1>4. ASSUME NEW p \in Procs, StartRestore(p) PROVE AdmittedInv'
  BY <1>4 DEF StartRestore, SameDay
<1>5. ASSUME NEW p \in Procs, TakeLock(p) PROVE AdmittedInv'
  BY <1>5 DEF TakeLock, Unlocked
<1>6. ASSUME NEW p \in Procs, Load(p) PROVE AdmittedInv'
  BY <1>6 DEF Load
<1>7. ASSUME NEW p \in Procs, Roll(p) PROVE AdmittedInv'
  BY <1>7 DEF Roll
<1>8. ASSUME NEW p \in Procs, Judge(p) PROVE AdmittedInv'
  BY <1>8 DEF Judge, LossReached, Idle
<1>9. ASSUME NEW p \in Procs, Backup(p) PROVE AdmittedInv'
  BY <1>9 DEF Backup, SameDay, Idle
<1>10. ASSUME NEW p \in Procs, Restore(p) PROVE AdmittedInv'
  BY <1>10 DEF Restore, Vacant, Idle
<1>11. ASSUME NEW p \in Procs, End(p) PROVE AdmittedInv'
  BY <1>11 DEF End, Released, Idle
<1>12. ASSUME Midnight PROVE AdmittedInv'
  BY <1>12 DEF Midnight
<1>13. ASSUME LoseFile PROVE AdmittedInv'
  BY <1>13 DEF LoseFile
<1>14. ASSUME UNCHANGED vars PROVE AdmittedInv'
  BY <1>14 DEF vars
<1> QED
  BY <1>1, <1>2, <1>3, <1>4, <1>5, <1>6, <1>7, <1>8, <1>9, <1>10, <1>11, <1>12, <1>13,
     <1>14 DEF Next

LEMMA OneBaselinePerDayStep == ASSUME IInv, [Next]_vars PROVE OneBaselinePerDay'
<1> USE DEF IInv, TypeOK, Processes, OneBaselinePerDay, SeenInv, RestoreInv
<1>1. ASSUME NEW p \in Procs, Observe(p) PROVE OneBaselinePerDay'
  BY <1>1 DEF Observe
<1>2. ASSUME NEW p \in Procs, ReadClock(p) PROVE OneBaselinePerDay'
  BY <1>2 DEF ReadClock
<1>3. ASSUME NEW p \in Procs, StartBackup(p) PROVE OneBaselinePerDay'
  BY <1>3 DEF StartBackup
<1>4. ASSUME NEW p \in Procs, StartRestore(p) PROVE OneBaselinePerDay'
  BY <1>4 DEF StartRestore, SameDay
<1>5. ASSUME NEW p \in Procs, TakeLock(p) PROVE OneBaselinePerDay'
  BY <1>5 DEF TakeLock, Unlocked
<1>6. ASSUME NEW p \in Procs, Load(p) PROVE OneBaselinePerDay'
  BY <1>6 DEF Load
<1>7. ASSUME NEW p \in Procs, Roll(p) PROVE OneBaselinePerDay'
  BY <1>7 DEF Roll
<1>8. ASSUME NEW p \in Procs, Judge(p) PROVE OneBaselinePerDay'
  BY <1>8 DEF Judge, LossReached, Idle
<1>9. ASSUME NEW p \in Procs, Backup(p) PROVE OneBaselinePerDay'
  BY <1>9 DEF Backup, SameDay, Idle
<1>10. ASSUME NEW p \in Procs, Restore(p) PROVE OneBaselinePerDay'
  BY <1>10 DEF Restore, Vacant, Idle
<1>11. ASSUME NEW p \in Procs, End(p) PROVE OneBaselinePerDay'
  BY <1>11 DEF End, Released, Idle
<1>12. ASSUME Midnight PROVE OneBaselinePerDay'
  BY <1>12 DEF Midnight
<1>13. ASSUME LoseFile PROVE OneBaselinePerDay'
  BY <1>13 DEF LoseFile
<1>14. ASSUME UNCHANGED vars PROVE OneBaselinePerDay'
  BY <1>14 DEF vars
<1> QED
  BY <1>1, <1>2, <1>3, <1>4, <1>5, <1>6, <1>7, <1>8, <1>9, <1>10, <1>11, <1>12, <1>13,
     <1>14 DEF Next

LEMMA LossLimitHoldsStep == ASSUME IInv, [Next]_vars PROVE LossLimitHolds'
<1> USE DEF IInv, TypeOK, Processes, LossLimitHolds, OneBaselinePerDay, AdmittedInv, SeenInv, RestoreInv
<1>1. ASSUME NEW p \in Procs, Observe(p) PROVE LossLimitHolds'
  BY <1>1 DEF Observe
<1>2. ASSUME NEW p \in Procs, ReadClock(p) PROVE LossLimitHolds'
  BY <1>2 DEF ReadClock
<1>3. ASSUME NEW p \in Procs, StartBackup(p) PROVE LossLimitHolds'
  BY <1>3 DEF StartBackup
<1>4. ASSUME NEW p \in Procs, StartRestore(p) PROVE LossLimitHolds'
  BY <1>4 DEF StartRestore, SameDay
<1>5. ASSUME NEW p \in Procs, TakeLock(p) PROVE LossLimitHolds'
  BY <1>5 DEF TakeLock, Unlocked
<1>6. ASSUME NEW p \in Procs, Load(p) PROVE LossLimitHolds'
  BY <1>6 DEF Load
<1>7. ASSUME NEW p \in Procs, Roll(p) PROVE LossLimitHolds'
  BY <1>7 DEF Roll
<1>8. ASSUME NEW p \in Procs, Judge(p) PROVE LossLimitHolds'
  BY <1>8 DEF Judge, LossReached, Idle
<1>9. ASSUME NEW p \in Procs, Backup(p) PROVE LossLimitHolds'
  BY <1>9 DEF Backup, SameDay, Idle
<1>10. ASSUME NEW p \in Procs, Restore(p) PROVE LossLimitHolds'
  BY <1>10 DEF Restore, Vacant, Idle
<1>11. ASSUME NEW p \in Procs, End(p) PROVE LossLimitHolds'
  BY <1>11 DEF End, Released, Idle
<1>12. ASSUME Midnight PROVE LossLimitHolds'
  BY <1>12 DEF Midnight
<1>13. ASSUME LoseFile PROVE LossLimitHolds'
  BY <1>13 DEF LoseFile
<1>14. ASSUME UNCHANGED vars PROVE LossLimitHolds'
  BY <1>14 DEF vars
<1> QED
  BY <1>1, <1>2, <1>3, <1>4, <1>5, <1>6, <1>7, <1>8, <1>9, <1>10, <1>11, <1>12, <1>13,
     <1>14 DEF Next

-----------------------------------------------------------------------------
(* The theorems. *)

LEMMA Step == IInv /\ [Next]_vars => IInv'
<1> SUFFICES ASSUME IInv, [Next]_vars PROVE IInv'
  OBVIOUS
<1>1. TypeOK' /\ FileInv' /\ ClockInv' /\ SeenInv'
  BY TypeOKStep, FileInvStep, ClockInvStep, SeenInvStep
<1>2. RestoreInv' /\ AdmittedInv' /\ OneBaselinePerDay' /\ LossLimitHolds'
  BY RestoreInvStep, AdmittedInvStep, OneBaselinePerDayStep, LossLimitHoldsStep
<1> QED
  BY <1>1, <1>2 DEF IInv

(* The state in force is the latest baseline, what a holder of the lock has  *)
(* read stays true, and a bundle being restored is not older than any other. *)
THEOREM Inductive == Spec => []IInv
BY Initially, Step, PTL DEF Spec

(* The types, and the lock belongs to the process that works on the file.    *)
THEOREM TypeCorrect == Spec => []TypeOK
<1>1. IInv => TypeOK
  BY DEF IInv
<1> QED
  BY Inductive, <1>1, PTL

(* A UTC day has one baseline, across midnight, kills, losses and restores.   *)
THEOREM OneBaselineHolds == Spec => []OneBaselinePerDay
<1>1. IInv => OneBaselinePerDay
  BY DEF IInv
<1> QED
  BY Inductive, <1>1, PTL

(* Admitted entries are within the limit of every baseline of their day.     *)
THEOREM LossLimitCorrect == Spec => []LossLimitHolds
<1>1. IInv => LossLimitHolds
  BY DEF IInv
<1> QED
  BY Inductive, <1>1, PTL

(* A changed state is the latest baseline of all that there have been.       *)
THEOREM MovesForward == Spec => BaselineMovesForward
<1>1. IInv /\ IInv' /\ [Next]_vars =>
        [file' # None /\ file' # file => \A b \in baselines : b.day <= file'.day]_vars
  <2> SUFFICES ASSUME IInv', [Next]_vars, file' # None
               PROVE  \A b \in baselines : b.day <= file'.day
    OBVIOUS
  <2>1. \A b \in baselines' : b.day <= file'.day
    BY DEF IInv, FileInv
  <2>2. baselines \subseteq baselines'
    BY DEF Next, vars, Observe, ReadClock, StartBackup, StartRestore, TakeLock, Load, Roll,
           Judge, Backup, Restore, End, Midnight, LoseFile
  <2> QED
    BY <2>1, <2>2
<1> QED
  BY Inductive, <1>1, PTL DEF Spec, BaselineMovesForward
=============================================================================
